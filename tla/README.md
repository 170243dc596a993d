# browserless: specifications, checks and proofs

TLA+ modules of the session server in `src/`, the TLC configurations that check
them on small instances, and TLAPS proofs of what matters most for instances of
any size. Paths below are relative to `src/src/` unless they begin with `src/`
or `docs/` (`src/docs/`).

Everything is run inside this directory:

    tlc -workers 2 -config MCLimiter.cfg MCLimiter     # one run, see "Runs"
    tlapm Limiter_proofs.tla                           # one module of proofs

## 1. The system

browserless is an HTTP/WebSocket server that launches a Chrome per session and
proxies a client to it. This fork records every tab (rrweb events posted to a
replay server), solves Cloudflare challenges in the page, and scrapes backlink
sites through egress proxies. A request takes this way:

    Server -> Limiter -> Router -> BrowserManager/BrowserLauncher -> Chrome
                           |              |
                           |              +-> SessionCoordinator -> CdpSession -> tabs, replay, solver
                           +-> browser.proxyWebSocket -> CDPProxy <-> client

Almost all of it is one Node process. Concurrency is interleaving at `await`,
`yield*`, callbacks and timers: a step of every module is the code between two
such points. The Effect library adds fibers that may be interrupted at any of
their awaits, scopes whose finalizers run in reverse order, and FiberMaps in which
a new fiber under a key interrupts the old one. Chrome, the client, the replay
server and the network are the environment: they answer late, in any order, not
at all, or disappear.

### Components

| component (source) | state | operations | what is hard | what makes it correct |
|---|---|---|---|---|
| Limiter (`limiter.ts`, `queue`) | limits, job list, slots in use, armed timers | admit, start, finish, fail, time out, reconfigure | late answers after a timeout, health checks awaited before the capacity test, limits that change under waiting jobs | a slot is freed exactly once, one verdict per request, limits hold at every admission and start, all are served |
| CDP RPC (`shared/cdp-rpc.ts`) | pending calls by id, disposed flag | send, answer, time out, interrupt, drain, dispose | several senders on one WebSocket, timers against answers, teardown | each call resumes once, never with another of its connection's answers, and always |
| Session lifecycle (`session/session-lifecycle-manager.ts`, `session-registry.ts`, `session-coordinator.ts`, `browsers/index.ts`, `browser-launcher.ts`) | registry, data directories, Chrome processes, replay sessions, solvers | launch, register, set up, release, client close, kill, watchdog, shutdown | five callers destroy the same session from stale looks at the registry | a listed session is whole; a destruction attempts everything, once it has begun and whoever else does it too; every session ends |
| Router (`router.ts`) | per request: browser, phase | give a browser to a handler and take it back however the handler ends | rejected handlers, clients that left before | the browser is released |
| CDP session (`session/cdp-session.ts`) | tabs with scopes, fibers, replay queues, teardown state | route events, attach, activate, destroy a tab, tear down | interrupted handlers, second attachments, a teardown at any moment | announced replays are stored, no handler outlives its tab, the teardown ends |
| Target registry (`session/target-state.ts`) | four maps between targets, sessions and iframes | add, remove, map iframes, clear | entries that outlive what they name, iframes resumed after an await | an event is recorded in its own tab's replay |
| Replay pipeline (`session/replay-pipeline.ts`, `replay-*.ts`) | queue, batch, counters, stored replay | take, post, final flush | posts that fail or whose answer is lost | order, nothing lost before its post, completion signalled last |
| CDP proxy (`cdp-proxy.ts`, `browsers/browsers.cdp.ts`) | two WebSockets, outbound queue, close state, flush promise | connect, forward, Browser.close, disconnect, heartbeat, close | Browser.close, disconnection and Chrome's end race the same flush and slot | one flush, the slot does not wait for a disconnection's flush, answers last, the handler ends |
| Page WebSockets (`browsers/browsers.cdp.ts`, `shared/page.ws.ts`, `session/cdp-session.ts`) | a pipe per page client; a keepalive per tab | proxy, ping, reconnect, fall back | a socket that closes during a command | commands go on over the shared connection |
| Cloudflare solver, state (`session/cf/cf-detection-*.ts`, `cf-resolution.ts`, `cf-session-state.ts`, `cloudflare-state-tracker.ts`, `cf-event-queue.ts`) | one detection per tab with its scope and resolution, marks of solved tabs, timeline | register, settle, abort, retry, destroy | settlement from beacon, bridge, page state, navigation, click, deadline or teardown | settled once, never left open, reported to the client |
| Cloudflare solver, detection (`session/cloudflare-solver.ts`, `session/cf/cloudflare-detector.ts`) | detection fibers, poll loops, bindings of challenge frames | look, classify, monitor, retry | looks made before an await and used after it | a solved tab is not detected again, a detected challenge has an outcome |
| Cloudflare solver, dispatch (`cf/cloudflare-solve-strategies.ts`, `cf/cf-phase-*.ts`) | attempts of a click, scoped sockets, a heartbeat | find the widget, its target, its checkbox; press, release, verify | the widget is replaced and the detection ends at any await; the click must not be cut in two | it clicks the page's own widget, leaves no button pressed, credits only a click that counts, and ends |
| Antibot detection (`session/antibot/antibot-handler.ts`) | URLs and headers seen, last result | observe, merge a page report | nothing: synchronous merging of data | the merge keeps every piece of evidence and the larger confidence |
| Backlink and traffic scrapes (`scraping/ahrefs-*.ts`, `session-token-holder.ts`, the dispatch route) | a pool of browsers with their tabs, one sticky proxy token, one record per instance | dispatch, attempt, probe, rotate, retry, record | a block seen by one scrape rotates the token under the others; a deadline in the middle of either attempt | a token rotates for a failed attempt only, a block that was seen is reported and leaves the token, a retry runs on another browser and token, a noted egress is attributed, every tab is given back, one record |
| Egress proxies (`scraping/egress-proxy-shim.ts`, `lan-relay-health.ts`, `proxy-config.ts`) | verdict on the relay with its hysteresis; a local server with its sockets | probe, decide, tunnel, close | a relay that flaps during a scrape | the verdict flips only after two agreeing probes |
| Video (`video/encoder.ts`, `video-manager.ts`, `session/screencast-capture.ts`) | progress by session, job queue, one ffmpeg | queue, encode, fail, forget after 30 s, clean orphans | two viewers race, a job without frames, a restart during an encode | one encode of a session at a time, and a failed one can be tried again |
| Container, services, server, configuration, monitoring, hooks, tokens, files, routes, Playwright browsers, page scripts, mouse, utilities | start-up wiring, environment, straight-line code | | | |

`PROJECT.json` lists them all under `components` with their sources and status,
and under `hazards` the 40 places where this code can go wrong in ways a test
would hardly reach; each names the properties that watch it, or says why none does
(mostly because the code already does what the property would forbid: section 4).

By lines most of `src/` is not program: `static/docs/docs.js` alone, a generated bundle of the
API documentation, has 52,100 of some 94,600, and integration tests, benchmarks, page scripts
and schemas of telemetry are most of the rest. The lines that `map` names are to be
compared with the components above.

## 2. The modules

Each module's header says what it abstracts; `PROJECT.json` `map` names the lines
each definition stands for. Definitions called "a faulty ..." in comments are
variants of the operator that follows them, used to confirm that the properties
can fail; `Next` never uses them.

**Limiter** models `limiter.ts` and the part of the `queue` package it uses. A
request is a member of `Requests`; `Limit` is the synchronous part of
`limit()`, `HealthChecked` the rest of it after the monitor has answered (capacity
test, refusal or push, and the start of whatever now fits), `LimitFnResolves`,
`LimitFnRejects` and `JobTimeout` are the three calls of a job's `next`, and
`SetConcurrent`, `SetQueued`, `SetTimeout` are the configuration's events. A
timed-out job keeps running (`open`, `phase` "timedout") until its late
answer, as in the code. **AdmissionControl** is its abstract specification: a
request is outside, refused, waiting, holding a slot or released; nothing holds a
slot beyond the limit in force when it took it.

**CdpConnection** models `CdpConnection` of `shared/cdp-rpc.ts`. A call's life is
`Send` (register, write, arm the timer), `SendRefused` and `SendThrows` (the
early failures), `HandleResponse`, `CommandTimeout`, `Interrupt`; owners call
`DrainPending` and `Dispose`. Chrome (`ChromeAnswers`) answers in any order,
with a result or an error, and answers the commands of other senders too: `ClientSends` is a
client's command on the same WebSocket, which the proxy forwards with the client's own id. Ids alone
match, so an id of the client may be one that the connection has in use (`Outcome`, "clients").

**SessionLifecycle** composes launcher, registry, coordinator, lifecycle manager
and router: their state is one because `destroySession` touches all of it. A session is
named by the request that launched it. The destruction of a session is a task
`[by, of, at]` that goes through closing the browser, stopping the replay and
removing the directory; `Begin` is what the code does before the first await.
`RemoveUserDataDir` is its last step, whose `rm` may fail: the code logs that and goes on, the directory is
"left", and nobody tries again unless another destruction of the session is still to come. The
callers are `HandlerEnds`/`HandlerFails`/`ReleaseResumes` (router), `BeforeClose`
(the proxy's client), `KillSessions`/`KillNext`, `WatchdogTick` and
`Shutdown*`. `handle` is `this.browser` of the browser object: it is cleared
synchronously, so a second `close()` finds nothing to wait for. **SessionLife** is its abstract
specification, of the sessions whose directory is their own: a session is listed at most once; once its
destruction has begun, nothing but the attempt to remove its directory ends it (with the directory removed or
left behind), whoever else destroys, kills or
shuts down meanwhile; and only the end of a shutdown forgets sessions. The refinement mapping
(`Life`) reads a session's station off registry, tasks and directories together.

**TabLifecycle** models the part of `cdp-session.ts` that gives a tab its scope and
takes it away: Chrome's events become fibers in the tab's or the session's FiberMap
(`MapFor`), the handlers advance from await to await (`AttachEnabled`,
`Provisioned`, `Detected`, `HandlerFinalized`, `HandlerClosed`), the four
finalizers of a tab scope are `ScopeClosing`, `CfCleaned`, `DrainQueue`/`Drained`
and `TabCallback`, and the teardown is `Destroy`/`WsClosed` and then
`Finalize*`, `Close*`, `ClearTabs`, `Dispose`. An attachment, not a target, has a
scope: a target attached twice has two, and the finalizers look at whichever TabState
the target has *now*, as the code does.

**TargetRegistry** is `target-state.ts`: `Add`, `Remove`, the iframe maps, and
`Clear`, driven by attachments and destructions. A frame's attachment takes effect in two steps,
because the handler resumes it only after its commands (`attaching`); a page attached twice may have
its frame attached through both of its sessions. **ReplayPipeline** is
`tabConsumer` of `replay-pipeline.ts` with the server it posts to; **ReplayConsumer** says what
TabLifecycle assumes of it (it signals only when the queue has ended and nothing
accepted is left): TabLifecycle's `Flush` and `ConsumerDone` are ReplayConsumer's `Flush` and
`Finish`, and the pipeline is shown to implement ReplayConsumer. **TabRecording** composes the
two: Chrome emits events on CDP sessions (`Event`), the registry says whose they are, the tab
of that target has its queue (`Activate`), and the end of the tab ends the queue before it takes the tab out
of the registry (`EndQueue`, `RemoveTab`). Every step is a step of
each component or leaves it alone, and so the invariants of both carry over.

**CdpProxy** models one client's `CDPProxy` and the promise of `proxyWebSocket`
around it: connection, `Browser.close` (`BrowserClose`, `Answer`, `Forward`), the
ways a client goes (`ClientLeaves` with a close frame, `ClientDrops` without,
`ClientFallsSilent`), heartbeats and closes (`ProxyCloses`), the end of
`handleClose` (`ScopeClosed`), the route's close callback (`CloseRoute`,
`RouteResumes`) and the flush, which is SessionLifecycle's destruction reduced to
killing and saving. Its initial state, next-state relation and specification have names of their own
(`ProxyInit`, `ProxyNext`, `ProxySpec`), so that one module of proofs can speak of both ends of CDP.

**CfDetection** models the Cloudflare solver as one page sees it: `cloudflare-solver.ts`,
`cf/cloudflare-detector.ts`, the state tracker, the registry and the Resolution. A member of
`detections` is one `DetectionContext` with its scope, latch and Resolution;
`registered` is the page's entry in the registry, `page` its entries in the maps and sets of
`SessionSolverState`, `fiber` what runs under its key in `detectionFibers` and `nav` the two
handlers of a navigation (`targetInfoChanged` in the tab's map, `frameNavigated` in the
session's). The small operators `Settled`, `Aborted`, `Resolved`, `Orphaned`,
`Unregistered` are the methods of context, Resolution and registry; every action composes them as its
handler does. The detection fiber goes through `FrameTree`, `Poll`, `Detected*`,
`DispatchEnds`, `NoWidget`/`GraceEnds`, `RaceEnds` and `Restart`; an interstitial's solver is
forked in its scope (`SolverEnds`, `SolverReports`). What the page, the bridge and the beacon
send is the disjunction `Signals`. What a page looks like, whether a click hits and
what the DOM walk finds are free choices. **ChallengeLife** is its abstract specification, what a client
may rely on: the challenges of a page come one at a time, a turnstile never after a solved one, each is
settled at most once and is never opened again, the reports about it only grow, a report of failure is
the truth, and all is quiet after the session's teardown. The mapping (`View`) keeps of each detection its type,
whether its scope is open, its outcome and what the client was told.

**ClickPipeline** details what CfDetection takes as one step (`DispatchEnds`, `SolverEnds`): one
dispatch of `cloudflare-solve-strategies.ts` with the phases of `cf-phase-*.ts`. `kind` chooses
between the one look of a turnstile with one retry and the loop of an interstitial; `pc` names the await the
fiber is in: `PageTraversal` (the DOM), `PageFrame`, `Targets`, `ByFrame`, `ByParent` (the
widget's target), `Checkbox`, `Coords`, `Press`, `Pressed`, `Release`, `Released`, `Verify`. `local` is
what this attempt has learnt, and may be stale: `WidgetShown` and `WidgetGone` change the page
under it, and widgets of other tabs are in the same browser. An interruption (`Stop`) takes hold at
once except in `Uninterruptible`, the region the code marks so; it comes from the latch
(`RaceLost`) or from the scope or the tab (`Cancelled`). `Settled`, `Aborted` and `Successor` are the rest of
the solver. Every command may come back as null, since `send` swallows errors.

**AhrefsDispatch** models dispatched scrapes: `Dispatch` from the route, the pool of browsers (`Acquire`, which reads
the token, and `Opened`, when the probe is over; `Expire`, `NeedsInvalidation`), what an attempt gets from it (`Get`,
`GetStale`, `GetDead`, `AcquireFails`), the attempt
itself (`NewPage`, `Scrape`, `Probe`, `Teardown`), `Observe`, which rotates the token and begins the second attempt,
`Deadline` over both, and `WriteR2` and `Emit`, the record that no
path may skip. `token` counts rotations and stands for the phone that the relay pins to it. What the egress shim learns of
connections is `captured` (its key by session) and the browser's `latest` (its key by browser); `Connect` is a
connection that it notes, and `tunnels` are the tokens of those a browser may still ride (`rode`). The probe's verdict and what the
shim has noted are independent: the code calls a browser alive that has no page, or whose probe threw, and Chrome passes by a shim that
was down when it was launched. The histories are set where a block is *seen* (`burned`: in `Scrape`, `Probe` and the gate,
`GetDead`) and where the deadline takes the attempt that saw it (`cut`); the token moves steps later, in `Observe`. **ScrapeOutcome** holds the pure rules it uses: what an attempt can observe and how the
code classifies it.

### How the modules fit together

| module | takes from | gives to |
|---|---|---|
| Limiter | Configure = `config.ts` events | its running job is the request that SessionLifecycle calls `r` |
| SessionLifecycle | requests let in by Limiter | `BeforeClose` and the destruction are CdpProxy's `BeginFlush`; a destruction's "replay" stage is TabLifecycle's teardown |
| CdpProxy | `SessionDestroyed` stands for the other four callers of SessionLifecycle | the end of its handler is `HandlerEnds` |
| TabLifecycle | every command it awaits is a call of CdpConnection, which `EveryCallGoesOn` says returns | its queue is ReplayPipeline's; its attachments drive TargetRegistry |
| TabRecording | TargetRegistry and ReplayPipeline as they are | its `Finish` is TabLifecycle's `ConsumerDone` |
| CfDetection | navigations, attachments and iframes from TabLifecycle's routing; `StopTarget` is `onTargetDestroyed` in FINALIZER 2, `Destroy` the solver's part of the teardown | its end bounds `CfCleaned` and `CloseOver` of TabLifecycle |
| ClickPipeline | latch, abort and Resolution from CfDetection as `Settled`, `Aborted`, `Successor` | `DispatchOver` is the assumption under which CfDetection's fairness lets a dispatch end; `Mark` is its `clickDelivered` |
| AhrefsDispatch | nothing: its browsers are launched outside the session manager | |

Registry and pipeline are composed in one specification. The others are composed by
assumption and guarantee at those points: the product of two of them has tens of millions of
states already for one session. AdmissionControl, SessionLife, ReplayConsumer and ChallengeLife are
the interfaces that are stated as specifications, checked as refinements on the runs' instances and proved
to be implemented for instances of any size.

## 3. The runs

Ten runs check properties that hold; two more show a statement of the repository
that does not (section 4). The type invariants are parts of the invariants the table names or of the
invariants proved.

| run | module, configuration | what it shows |
|---|---|---|
| limiter | MCLimiter, MCLimiter.cfg | slots and list are consistent with the requests' lives (`SlotsCounted`), no admission or start exceeds the limits of that moment (`WithinLimits`), `ImplementsAdmission`, and `EveryRequestServed` |
| cdp_rpc | MCCdpConnection | `ResumedOnce` under every order of answers, timers, interruptions and teardown; no answer to another command of the connection, and a client's only for an id both gave out (`AnswersMatch`); `NoneWaitsAfterDispose`; `EveryCallGoesOn` |
| session_safety | MCSessionLifecycle, MCSessionLifecycle.cfg | `ListedSessionsWhole`, `DirOutlivesBrowser`, and that a kill returns only when all it found is closed and the removal of its directory has been tried, by whomever (`KillSeesAllThrough`), while the five callers of the destruction race and `rm` may fail |
| session_ends | MCSessionLifecycle, MCSessionLifecycleLive.cfg | `SessionsEnd`: every registered session goes, its Chrome ends and the removal of its directory is tried, whatever clients and handlers do; `docs/SESSION_LEAK_POSTMORTEM.md` is about the version in which sessions stayed; and the sessions implement SessionLife (`ImplementsSessionLife`) |
| tab_lifecycle | MCTabLifecycle, MCTabLifecycle.cfg | `AnnouncedIsStored`, `ClosedMeansAnnounced`, `NoGhostFibers`, and that the teardown ends (`DestroyEnds`) |
| tab_recording | MCTabRecording, MCTabRecording.cfg | the replay of a tab holds events of its page and its iframes only, in their order and none twice (`ReplayIsTheTabs`), every event of a live tab finds it (`EventsReachTheirTab`), and the pipeline inside implements ReplayConsumer with its liveness (`ConsumerSpec`) |
| cdp_proxy | CdpProxy, CdpProxy.cfg | `FlushedOnce`, `AnswerComesLast`, `HandlerEnds` |
| cf_detection | CfDetection, CfDetection.cfg | the registry has the one open detection (`RegistryExact`), nothing interrupts the fiber that awaits an embedded one before the client has heard of its solve (`HandlerAlive`), which it will (`EmbeddedSolveTold`), the detections implement ChallengeLife (`ImplementsChallengeLife`: so a solve is never reported as a failure and a page with a solved turnstile is not detected again), a closed tab has no detection fiber (`GhostFree`), no detection stays for ever (`NoZombie`) |
| click_pipeline | ClickPipeline, ClickPipeline.cfg | no widget of another tab is pressed (`ClicksOwnPage`), a button that was pressed is released whatever interrupts the dispatch (`NoButtonHeld`), a click is credited to its own detection, for a press that reached the widget unless the challenge was settled (`CreditIsEarned`), no heartbeat disturbs a click (`QuietClick`), and a dispatch ends with its sockets closed (`DispatchOver`) |
| ahrefs | MCAhrefsDispatch, MCAhrefsDispatch.cfg | tabs and permits of a browser agree (`PermitsExact`), the second attempt has another browser and another token than the first (`RetryIsFresh`), a token that was seen blocked stays current only while the attempt that saw it is on its way to report it, unless the deadline cuts that attempt off (`BurnedTokenLeft`), an attempt on a connection the shim has noted gets an identity, and the right one if the connection is of its own token (`EgressAttributed`), the token is rotated by the report of a failed attempt only (`RotatedForAFailure`), and every accepted dispatch ends with one write and one marker (`DispatchEnds`) |

Bounds, and why they are enough:

- *limiter*: three requests with concurrency 1 or 2 and queue length 0 or 2,
  each changed at any time. With three, one can hold a late answer while a second
  starts and a third waits or is refused; a change of a limit meets each of these.
- *cdp_rpc*: three calls and a client's commands with id 3, the first id at 2, so that the client's id
  is that of the second call: it comes before, during and after that call's life. A client whose ids stay below
  the first one is the case `DistinctRanges` proves. Two calls show every race of one entry with another;
  the third shows an entry that neither race touches.
- *session_safety*: two requests, so that one may reconnect to the other's
  browser, one of them with its own directory; one `killSessions` besides the watchdog, the
  shutdown, both routers and both clients. *session_ends* has the same without the killer
  and without the reserved directory, which only remove reasons for a session to end.
- *tab_lifecycle*: one target attached up to twice with at most one buffered
  event. Targets meet only in the teardown's loops; with two targets attached once
  each (`Targets <- TwoTargets`, `MaxAttach = 1`, `MaxEvents = 0`, symmetric) the safety
  properties hold on 4.38 million states, which takes too long to be a regular run.
- *tab_recording*: two pages, one iframe, four CDP sessions, so that a page attached twice and a frame
  under either of two pages leave no session unused; four events in batches of two, so that a post fails
  before and after another and a partial batch remains. No symmetry, since the run checks liveness too.
  What the invariants say of larger instances is proved.
- *cdp_proxy*: no constants; one client and one Chrome are all a proxy has.
- *cf_detection*: two detections, because every hazard is about one detection
  and its successor on the page; three signals (navigations, pushes, iframe events) besides
  attachment, click, timers and both ends: one to start, one to settle, one that comes late. With
  four the safety properties hold on four times the states. The limits on attempts,
  rechallenges, reloads and click retries are 1 or 2, so that each is reached.
- *click_pipeline*: two widgets of the page, so that one is replaced by the other, and one of another tab,
  so that there is something wrong to click; two attempts, a bail-out after one without a checkbox, two polls. With
  three attempts and a bail-out after two the properties hold on 3.97 million states, too many for a regular run.
- *ahrefs*: two dispatches of the same instance, one pooled browser with two tabs, so that they share
  a browser and a token; two browsers over time, so that a retry finds another one while the first may still be in use
  (550,225 states). With three the safety properties hold on 5.9 million states, which take too long to be a regular run.
  `FourObservations`: a
  success on a flapping proxy, a block, a network that never came up, a failure that rotation cannot cure.

Fairness, and why the code justifies it:

- *Limiter*: the monitor answers, armed timers fire, and a handler without a
  timer ends. A handler with a timer need not: its job is finished by the timer.
- *CdpConnection*: only the timer of a sent command fires. Chrome need not answer.
- *SessionLifecycle*: the watchdog's fiber is scheduled, time passes, every stage of
  the destruction has a timeout in the code, a killed process exits. Clients, handlers and
  launches owe nothing.
- *TabLifecycle*: every await of handlers, finalizers and the teardown is a CDP call with a
  timeout or has a timeout of its own. Chrome's events owe nothing, and neither does the
  consumer: the drain has a timeout.
- *ReplayPipeline*: the consumer's fiber is scheduled and each post is answered or times out.
- *CdpProxy*: a closed socket and an ended process are noticed, heartbeats are sent,
  the connection is made or fails, and the flush's waits have timeouts. Neither
  `ChromeTrouble` nor any action of the client is assumed to happen.
- *CfDetection*: the detection fiber and an interstitial's solver are scheduled; commands and the
  dispatch have timeouts, and so has the Resolution (`awaitBounded`), so each of their waits ends. Nothing
  that comes from the page, the bridge or the client is assumed, and neither are the timers
  of a detection, since the Resolution's deadline covers them.
- *ClickPipeline*: the dispatch's fiber goes on, as each of its commands has a timeout, and polls and sleeps
  end. The widgets, the page and the rest of the solver owe nothing.
- *TabRecording*: as ReplayPipeline. Chrome's events owe nothing.
- *AhrefsDispatch*: only the deadline, the R2 write (15 seconds) and the marker. Chrome, the pool and the relay owe nothing.

`CHECK_DEADLOCK` is off in two runs: in CfDetection a page may be left alone for ever after its tab
has closed, and in MCAhrefsDispatch every dispatch may be over with the bound on browsers used
up. Elsewhere what may rest has an action (`Rest`, `Over`) whose guard says when it may.

## 4. Where code and comments disagree

The two runs that end in a violation, each with the line it is about:

- *tab_activation* (`ActivatedMeansProvisioned`): `activateTabEffect` sets its flag
  before its first await and runs under the FiberMap key of `targetInfoChanged`; a second
  event of that kind interrupts it and finds the flag set. The tab then never gets its page
  WebSocket, screencast or `target.injected`.
- *cdp_proxy_announce* (`ReplaysAnnounced`): `cdp-proxy.ts:394` says that the replays
  are saved and announced before the answer to `Browser.close`. `destroySession` kills
  Chrome first, Chrome's WebSocket closes, the proxy shuts its outbound queue, and the
  announcement and the answer are dropped although the client waits for them.

Observed while modelling, in the models as the code has them unless said otherwise, and without
a run:

- `session/session-coordinator.ts:262` speaks of "Guaranteed Map cleanup". A session destroyed while
  `setupSession` is still waiting for `CdpSession.initialize` is added to the maps afterwards (line
  180), and nothing removes it again (`SetUp`, `ReplayStopped`).
- `config.ts:204` documents a concurrency of -1 as "no limit"; `limiter.ts:176` and the queue
  compare with the number -1, so every request is refused or parked.
- `session/cf/cf-resolution.ts:2` speaks of exactly-once emission. A navigation publishes an embedded
  solve (`cf/cloudflare-detector.ts:586`), and the detection fiber, which is not in the
  scope the abort closes (the comment at line 569 says it is), publishes it again; `skipMarker`
  keeps the second one out of the replay only (`NavigatedTurnstile`, `RaceEnds`).
- The same comment says that exactly one of a solve and a failure wins. A navigation publishes its solve before it
  settles the Resolution (`cf/cloudflare-detector.ts:586`, 674), and `resolution.solve` does nothing if a deadline
  has settled it as failed meanwhile: the client hears solved of a challenge whose outcome is failed, and both if the
  failure is published too. ChallengeLife therefore promises the truth of a report of failure only (`NavigatedTurnstile`,
  `NavSolved`).
- The rechallenge limit of an interstitial logs "emitting cf.failed" (`cf/cloudflare-detector.ts:641`),
  but the abort has interrupted the only fiber that would (`NavRechallenged`).
- A widget's failure below `maxAttempts` aborts the detection and clears its flag again
  (`cf/cloudflare-state-tracker.ts:105`); the scope is closed and the registry's entry gone, so
  no later signal of the page can settle it and the deadline reports it as failed (`WidgetFailed`). The
  same holds after an iframe's end that follows a click, although
  `cf/cf-detection-registry.ts:101` says that the handler waits for the bridge's push.
- An embedded detection registered during the `sleep(0)` of `stopTargetDetection`
  (`cloudflare-solver.ts:570`) loses its fiber and stays registered until the session ends; for that
  reason `NoZombie` and `HandlerAlive` speak of open tabs.
- `cloudflare-solve-strategies.ts:118` promises `oopif_gone` when the widget's target goes during the
  verification. `send` turns every error into null (line 268), so a widget that is gone reads as
  "not confirmed" (`Verify`).
- A dispatch looks at `resolution.isDone` before its last step (line 753); an abort interrupts it earlier,
  so only a settlement without an abort is seen there (`Released`). A click interrupted at the end of its
  uninterruptible region is delivered and never recorded (`Released`, `Stop`).
- In the wide event `click_attempted` and `clicked` are the same flag of the tracker
  (`session/cf/cloudflare-event-emitter.ts:125`), although the schema describes them apart
  (`shared/cloudflare-detection.ts:191`).
- `tryParentMatch` takes a child of the page's frame whose own frame id could not be read (`ByParent`);
  that is still a widget of this page, which is all `ClicksOwnPage` says.
- An early return of the checkbox phase leaves its heartbeat to end by its own check
  (`session/cf/cf-phase-checkbox.ts:373`; `Checkbox`, `HeartbeatEnds`).
- A client's ids are forwarded as they are (`cdp-proxy.ts:484`, 995) and answers are matched by id alone (497, 816). The
  200000 at which the proxy's own commands start (707) keeps the two apart only as long as the client counts to less: beyond
  that a call of the proxy may return with the answer to the client's command, and the client loses that answer, or
  gets the proxy's (`ClientSends`, `Outcome`). `AnswersMatch` says that nothing else goes astray.
- A failing `rm` is logged and ends the destruction like any other (`session/session-lifecycle-manager.ts:144`), and nobody
  tries again. A Chrome that has not ended within the five seconds of the close may still be writing at that
  moment. The directory then stays (`RemoveUserDataDir`, "left"); the properties speak of the attempt (`Tried`).
- A launch or a browser hook that fails leaves the data directory behind
  (`browsers/browser-launcher.ts:198`; `LaunchFails`).
- `shutdown` destroys the sessions of its snapshot and waits for those only (`browsers/index.ts:467`):
  not for destructions begun before, nor for launches in progress.
- An iframe's events that arrive between `addIframeTarget` and the end of its handler's commands have no
  tab yet and are dropped (`session/cdp-session.ts:1816`; `IframeAttached`, `IframeResumed`).
- A client that reconnects through `/devtools/browser/<id>` owns the browser as well:
  whichever of the two handlers ends first destroys it (`shared/browser.ws.ts:22`;
  `Reconnect`, `HandlerEnds`).
- `destroy()` of a CdpSession waits only for the tab scopes it closes itself
  (`session/cdp-session.ts:2035`); a target destroyed at the same moment can lose its
  announcement when the runtime is disposed. `ClosedMeansAnnounced` speaks of the time
  before that.
- A tab activated after its scope began to close gets a queue and a consumer that only the
  session's teardown ends (`session/cdp-session.ts:1850`).
- `TargetRegistry.remove` deletes iframe entries by the page's session although the map's keys
  are the frames' sessions (`session/target-state.ts:72`), so they stay until `clear`.
- The replay consumer marks its replay as created although the first post failed
  (`session/replay-pipeline.ts:68`); every later batch is then appended to a replay that does not
  exist (`Posted`).
- Scrapes, `scraping/ahrefs-session.ts`: "On any failure, the browser is invalidated" (near line 778) does not hold of
  the deadline, which interrupts the attempt (`Deadline`) and leaves its page open. After it, and after a page that
  could not be opened, the browser's count of tabs, which the records report, stays too high (not modelled). A page that was scraped when the deadline
  meets its teardown is recorded as `scrape_timeout` (line 1136; `Deadline`).
- Two scrapes blocked on the same token rotate twice, the second time a fresh one
  (`Observe`); `RotatedForAFailure` asks only that the attempt of the dispatch that rotates failed.
- `scraping/ahrefs-service.ts:205` says that an InvalidCaptcha stays out of the triggers of a rotation; `isBlockTrigger`
  (`scraping/block-detection.ts:83`) rotates for it, and so does the model (`ScrapeOutcome`).
- The check for a repeated dispatch reads R2 and then starts (`ahrefs-backlinks-dispatch.post.ts:48`), so a duplicate
  runs, and its failure may overwrite the stored success (`Dispatch`, `WriteR2`). A PUT given up after
  15 seconds may still land later, which is not modelled.
- A tunnel kept open from one attempt to the next was opened under the earlier token. `scraping/egress-proxy-shim.ts:39` and
  88 say that the identity is correct warm or cold (`scraping/ahrefs-session.ts:1169`, that the second key repairs it); but the
  token's own capture is asked first, and exists as soon as any tab has connected under the current token, and the
  browser's capture is its *latest*. An attempt that rides the older tunnel is then recorded with the phone of the newer one
  (`capturedIdentity`). `EgressAttributed` therefore asks for the right phone only of an attempt whose
  connection is of its own token, and for some phone otherwise.
- The deadline may cut off an attempt that has seen its block before it reports it; the token then stays current, and the next
  scrape starts on it (`Deadline`, `cut`). `isEgressAlive` on a page that is gone is false, and a
  second probe may overwrite the verdict of another tab of the browser.
- The comment at `scraping/ahrefs-service.ts:258` says all resources are cleaned up by `Effect.ensuring`; the watch on the proxy is
  not when enabling the interception fails (not modelled).
- A second `Browser.close` is forwarded at once and ends Chrome under the flush of the first
  (`cdp-proxy.ts:392`; `BrowserClose`). If `onBeforeClose` itself rejected, the stored
  promise would keep the close callback of the route from resolving (`browsers/browsers.cdp.ts:89`,
  571); `closeForBrowser` catches its failures, so the model has no such step.
- The route's close callback waits for a flush that `Browser.close` began even if the client
  disconnects meanwhile, so the slot may be freed only after up to 75 seconds;
  `session/cf/limiter-slot-release.integration.test.ts:4` promises two, of a disconnection
  alone (`CloseRoute`, `ScopeClosed`).

## 5. What is proved

Every theorem holds for all values of the constants that satisfy the module's named
assumption, which states no more than finiteness, ranges of numbers, and that the names of different
kinds differ. One theorem, `DistinctRanges`, assumes more, and says so in its statement.

- **Limiter_proofs**: `Safety` (`SlotsCounted`, `QueueIsWaiting`, `OneVerdict`), then
  `Limits` (the action property `WithinLimits`) and `Implementation`: each step of the limiter is one of
  AdmissionControl or a stutter, so a slot is taken, held and freed once. The inductive invariant
  is `TypeOK /\ SlotsCounted /\ QueueIsWaiting /\ OneVerdict`: the four need each other,
  because `pending` stays a natural number only as the count of unused nexts, and a job taken
  from the list is startable only because the list holds waiting requests. The queue starts a prefix
  of the list; `PrefixCardinality` and `StartFacts` say what that does to list and counter. Two more results are in no
  regular run (TLC agrees on the instance of *limiter*): `Moves`, that while no setting of the concurrency is below 1 a
  waiting job always has one in a slot that will start it (`NoneStranded`; raising the concurrency starts nothing, so the
  list has no other help), and `InOrder`, that jobs start in the order of their push (`FirstComeFirstServed`). Both rest
  on `StepStarts`: a step leaves list and slots alone or runs the start loop on the list, with at most one job more at its end.
- **Cdp_proofs**, the two ends of CDP. CdpConnection: `Resumption` (with `PendingMatchesCallers`: the entries are those of
  the calls that wait), `Correlation`, `Disposal`, with whatever ids the client chooses; and `DistinctRanges`: if the client's are
all below `StartId`, no call ever gets a client's answer. The conjunction of
  the checked invariants is inductive with `IdsFresh`: no id at or above `nextId` is in use by the connection
  anywhere, and an id of its own in flight belongs to one command. CdpProxy: `Flushed` (`FlushedOnce`) and `AnsweredLast`
  (`AnswerComesLast`). Its run explores every behaviour there is; the proof shows why the two hold: a flush begins only
  with the first Browser.close or the proxy's close, which find each other's promise (`FlushBegunOnce`), and the answer
  is sent by the forwarder alone, for that first Browser.close, when its flush is over (`AnswerIsNew`).
- **SessionLifecycle_proofs**: `ListedWhole`, `DirsOutlive`, `KillsSeenThrough` (`KillSeesAllThrough`), and `Implementation`: SessionLifecycle
  implements SessionLife. The
  invariant adds what the code takes for granted: a session before its registration is known to nobody
  (`EarlyOK`), a task past its first step has taken its session out of the registry and its
  process from the browser (`TasksOK`), what was removed is not listed again (`RemovedOK`), and a
  killed session is done, being done by that kill, or still to do (`KilledOK`). All destructive steps go
  through one lemma, `BeginDestroys`, whatever their caller, as
  all steps of the refinement that take sessions out of the registry go through `TakesRefines`: they are one `Destroy` of all of
  them. The refinement needs `PlaceOK` besides: whoever can be destroyed was
  registered once, with a directory, which a failed `rm` may have left.
- **TabRecording_proofs**: the pipeline by itself (`Counting`, `Consumes`), and composed with the registry
  (`Recording`, `Routed`, `Indexed`, `Counted`, `Consuming`). Of the registry the proof needs `RegistryInv`: entries
  of the session index agree with Chrome's ownership, frames lead to a page session of their own
  tab, and every session in use whose tab is alive is in one of the two maps or being attached. Of the
  pipeline it needs the order (`OrderInv`: queue, batch and stored replay, one after the other, are
  increasing, which concatenation and flushing preserve for every batch size) and that a batch under
  way is never empty, without which a post would be no step of ReplayConsumer. Every step of the composition is a step or
  a stutter of each component, so their invariants are inherited; what the composition adds is
  `QueueInv`: what the tab's queue has accepted is what the registry attributed to it.
- **TabLifecycle_proofs**: `Stored` (`AnnouncedIsStored`), `Announced` (`ClosedMeansAnnounced`), `NoGhosts`
  (`NoGhostFibers`). The invariant is about one fiber (`FiberInv`: one of a tab's map runs only while the
  scope is open), one target (`DrainInv`: past the finalizers of a target attached once, the consumer
  is done or the drain was given up, and a queue belongs to an activated tab; `TellInv`: a tab
  that is not closed is still in the registry, where its last finalizer looks for it) and all attachments
  (`AttachInv`: the TabState of a target is its last attachment's, until the teardown forgets the
  tabs). The condition "attached once" is where the code has the defects listed in section 4.
- **CfDetection_proofs**: `Exact` (`RegistryExact`), `Handled` (`HandlerAlive`), `NoGhosts` (`GhostFree`), `Implementation`
  (CfDetection implements ChallengeLife) and, of what that says, `Honest` (`SolveNeverReportedFailed`) and the action
  property `NotRedetected` (`SolvedPageNotRedetected`) by themselves. `Becomes(r, s)` is what every method of context,
  Resolution and registry keeps of a detection (its type, its invariant, that a closed scope is not opened, that a settled
  outcome stays, that reports only grow and stop with the session), and composes; it is also what ChallengeLife lets
  happen to a challenge. Each step lemma concludes `Goes`: the invariant again, and a step of ChallengeLife or a stutter.
  `StepKeeps` and `AppendKeeps` say once what a step must show, without and with a registration; then
  there is a short lemma for each action. Beyond the properties the invariant says that a registered turnstile has its fiber also
  while the tab is being stopped, that a navigation about to be classified is an interstitial's,
  that a fiber waits to reload the page only while a reload is left, and (`SolvedInv`) that after an embedded solve the
  page is marked and no fiber is looking. For the refinement it adds that nothing is open once the session's solver is gone
  (`OverInv`), and for `HandlerAlive` that a solved turnstile keeps its fiber until the client is told (`ToldInv`).
- **ClickPipeline_proofs**: `OwnPage`, `Unheld`, `Credited`, `Quietly`. `OwnInv`: whatever is aimed at or was
  pressed is the page's own; `RegionInv`: an interrupted fiber is in an uninterruptible region or at its end;
  `BeatInv`: a heartbeat outlives its search only if the detection is over, which it then stays, and no later attempt gets
  to a widget; `MarkInv`: a mark is the last thing a dispatch does, before there can be a successor.
- **AhrefsDispatch_proofs**: `Permitted`, `Fresh`, `Left`, `Attributed` and the action property `Rotated`.
  `Permits` counts tabs and attempts by browser, with the cardinality lemmas for one job that comes or goes;
  `Keys`: a browser that has noted connections has a latest, and the session's key has the token of each; `AttemptInv`: a failed first attempt leaves its browser retired and the token moved on, and
  other dispatches can undo neither, so the second attempt cannot meet them again. `BurnedTokenLeft` is inductive with these,
  because every step keeps a sighting until `Observe` or the deadline takes it (`SightingKept`), because what is
  sighted is always a trigger of the rotation (`BlockRotates`), and because a rotation leaves every token seen so far.

The invariants of these proofs were checked by TLC on the runs' instances before they were proved.

Every invariant and action property of the runs that pass is proved. Only model-checked:

- Every liveness property and the fairness part of `ConsumerSpec`, since liveness under fairness is outside
  what the proof system does, as is ENABLED.
- What a recursive definition computes for every input, which takes an induction over data: the
  folds and sequences of the models are proved about through the library's lemmas only.

## 6. What is not modelled

- *Time.* A timeout may fire whenever the code waits; that one of five seconds fires before one
  of sixty is not used by any property.
- *Data.* Replay events, CDP parameters, URLs, header contents, DOM looks.
- *Keep-until timers* of sessions (`setKeepUntil` has no caller) and the throwaway browsers of
  `getVersionJSON`/`getProtocolJSON`.
- *The answers the proxy gives by itself*, its tab limit, delayed `Page.close`, isolated connections.
- *In the solver*: the timeline and its labels, replay markers, the activity loop, the capture of resources,
  the diagnostics and coordinates of a click, cross-tab ownership of iframes, a defect that kills the detection
  fiber, other tabs except through `FrameHandlerReplaced` and the widgets of ClickPipeline.
- *In the registry*: the parent that `cdp-session.ts` falls back to when Chrome attaches an iframe at the browser level.
- *In the scrapes*: the interception inside the page, the stagger between tabs, the counter of serves, the wide
  event's fields. The shim's bound of 2048 captures (`MAX_CAPTURED`), which forgets the oldest. A connection that
  the relay did not stamp is one the shim has not noted.
- *Video*: `VideoEncoder.queueEncode` has no caller in `src/`, so its queue is never filled. The screencast
  capture forgets its state with the last target and leaks a consumer when a target is attached twice; it writes images only.
- *Components* with status `not_modelled` in `PROJECT.json`, with the reason there: those with no state of
  their own (configuration, routes, utilities, scripts in the page), and those that come next.

## 7. Plan

Done: Limiter with AdmissionControl; CdpConnection; SessionLifecycle with SessionLife; TabLifecycle; TargetRegistry and
ReplayPipeline with ReplayConsumer, composed in TabRecording; CdpProxy; CfDetection with ChallengeLife; ClickPipeline; AhrefsDispatch with
ScrapeOutcome. Next, in this order:

1. The event queue of the solver with its markers.
2. *LanRelayHealth*, the verdict on the relay with its hysteresis.
3. CdpProxy's tab limit, delayed close and page proxies; navigation handlers in TabLifecycle.

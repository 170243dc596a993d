-------------------------- MODULE AhrefsDispatch --------------------------
(***************************************************************************)
(* Dispatched ahrefs scrapes (scraping/ahrefs-session.ts): concurrent      *)
(* dispatches share a pool of browsers, each with a few tabs, and ONE      *)
(* session token, which decides the phone they all egress from.  A         *)
(* dispatch makes one attempt and, when it was blocked, rotates the token  *)
(* and makes a second; a hard deadline bounds the work, and its outcome is *)
(* written to R2 and then announced by the scrape.terminal marker.         *)
(*                                                                         *)
(* External: the Pool of the effect library, Chrome, the relay, R2.        *)
(***************************************************************************)
EXTENDS ScrapeOutcome, Naturals, FiniteSets

CONSTANTS
  Jobs,           \* the dispatches
  Instances,      \* the workflow's instance ids; a dispatch may be repeated
  PoolSize,       \* BROWSER_COUNT
  TabsPerBrowser, \* TABS_PER_BROWSER
  MaxBrowsers,    \* bound: the browsers acquired over time
  Observations    \* what an attempt can see

ASSUME DispatchAssumption ==
  /\ PoolSize \in Nat \ {0} /\ TabsPerBrowser \in Nat \ {0} /\ MaxBrowsers \in Nat
  /\ Observations \subseteq Observation

VARIABLES
  token,      \* SessionTokenHolder: the current token, counted by rotations
  captured,   \* the egress shim's captures by session: the tokens a CONNECT was noted for
  browser,    \* the browsers acquired so far, by id
  job,        \* the dispatches
  r2,         \* the object of each instance id in R2
  burned,     \* history: the tokens whose address an attempt saw blocked or dead
  cut         \* history: those of an attempt that the deadline kept from reporting it

vars == <<token, captured, browser, job, r2, burned, cut>>

Browsers == 1 .. MaxBrowsers
None == 0

\* A browser: the token it is opened under; the tokens of those of its connections that the
\* shim has noted, and of the latest, which the browser's key names; the tabs in use.  A
\* token stands for the phone that the relay pins to it.
NoBrowser == [st |-> "none", invalid |-> FALSE, stale |-> FALSE, egress |-> TRUE,
              tok |-> None, tunnels |-> {}, latest |-> None, users |-> {}]
Unseen == [page |-> "", status |-> "", events |-> FALSE, tunnel |-> FALSE]
\* A dispatch: its attempt's browser, token, observation and verdict, the token of the noted
\* connection it egressed on, the browser and token of an attempt that was blocked, and its
\* outcome, R2 writes and markers.
NewJob == [pc |-> "new", instance |-> None, attempt |-> 1, b |-> None, tok |-> None,
           out |-> Unseen, rode |-> None, dead |-> FALSE, lastB |-> None, lastTok |-> None,
           success |-> FALSE, writes |-> 0, marks |-> 0]

Working == {"wait", "page", "scrape", "probe", "close", "observe"}
Holding == {"page", "scrape", "probe", "close"}

Init ==
  /\ token = 1 /\ captured = {} /\ burned = {} /\ cut = {}
  /\ browser = [b \in Browsers |-> NoBrowser]
  /\ job = [j \in Jobs |-> NewJob]
  /\ r2 = [i \in Instances |-> "none"]

-----------------------------------------------------------------------------
(* The pool.  An invalidated browser gets no new tab, and is closed when   *)
(* its last tab returns its permit; a new one is acquired in its place.    *)

Pooled == {b \in Browsers : browser[b].st \in {"opening", "up"} /\ ~browser[b].invalid}
Free == {b \in Pooled : browser[b].st = "up" /\ Cardinality(browser[b].users) < TabsPerBrowser}

\* A record whose last user has left; a closed browser keeps nothing.
Swept(r) == IF r.invalid /\ r.users = {} THEN [NoBrowser EXCEPT !.st = "closed"] ELSE r

\* a faulty Invalidated: the browser stays in the pool
NotInvalidated(r) == r
Invalidated(r) == [r EXCEPT !.invalid = TRUE]

\* a faulty Returned: the permit is kept
PermitKept(r, j) == r
\* The scope of the attempt closes: its permit returns to the pool.
Returned(r, j) == [r EXCEPT !.users = @ \ {j}]

\* Bound: the pool changes only while a dispatch is under way.
Busy == \E j \in Jobs : job[j].pc \in Working

\* The shim notes a connection that browser b opens with the credentials of token t: under
\* the session's key and, the latest winning, under the browser's.
Note(b, t) ==
  /\ captured' = captured \cup {t}
  /\ browser' = [browser EXCEPT ![b].tunnels = @ \cup {t}, ![b].latest = t]

\* acquireBrowser starts: it reads the token that its initial pages will carry.
Acquire(b) ==
  /\ Busy /\ browser[b].st = "none" /\ \A c \in 1 .. b - 1 : browser[c].st # "none"
  /\ Cardinality(Pooled) < PoolSize
  /\ browser' = [browser EXCEPT ![b].st = "opening", ![b].tok = token]
  /\ UNCHANGED <<token, captured, job, r2, burned, cut>>

\* The probe is over.  Alive need not mean connected (no page to probe from, a probe that
\* threw), nor connected alive; and the shim learns nothing of a connection that passes it
\* by, when Chrome was launched while the shim was down, or that the relay did not stamp.
Opened(b) ==
  /\ browser[b].st = "opening"
  /\ \E alive \in BOOLEAN, noted \in BOOLEAN :
       LET t == browser[b].tok IN
       /\ browser' = [browser EXCEPT ![b] =
            [NoBrowser EXCEPT !.st = "up", !.egress = alive,
                              !.tunnels = IF noted THEN {t} ELSE {},
                              !.latest = IF noted THEN t ELSE None]]
       /\ captured' = IF noted THEN captured \cup {t} ELSE captured
  /\ UNCHANGED <<token, job, r2, burned, cut>>

\* The pool's time to live is over.
Expire(b) ==
  /\ Busy /\ b \in Pooled /\ browser[b].st = "up"
  /\ browser' = [browser EXCEPT ![b] = Swept(Invalidated(@))]
  /\ UNCHANGED <<token, captured, job, r2, burned, cut>>

\* needsInvalidation: puppeteer's "disconnected" or the last solve that
\* MAX_CF_SOLVES_PER_SESSION allows.  A Chrome that died unnoticed fails the steps below,
\* each of which may fail at any time.
NeedsInvalidation(b) ==
  /\ Busy /\ browser[b].st = "up" /\ ~browser[b].stale
  /\ browser' = [browser EXCEPT ![b].stale = TRUE]
  /\ UNCHANGED <<token, captured, job, r2, burned, cut>>

-----------------------------------------------------------------------------
(* A dispatch.                                                             *)

\* The route answers "cached" when R2 holds a success; else it answers 202 and forks
\* runDispatch.
Dispatch(j, i) ==
  /\ job[j].pc = "new"
  /\ job' = [job EXCEPT ![j].instance = i,
                        ![j].pc = IF r2[i] = "success" THEN "cached" ELSE "wait"]
  /\ UNCHANGED <<token, captured, browser, r2, burned, cut>>

\* The attempt fails outside an output: scrape() ends without observe or a retry, and
\* runDispatch's catchCause builds the failure.
Ended(j, success) ==
  [NewJob EXCEPT !.pc = "write", !.instance = job[j].instance, !.success = success,
                 !.writes = job[j].writes, !.marks = job[j].marks]
Thrown(j) == Ended(j, FALSE)

AcquireFails(j, b) ==
  /\ job[j].pc = "wait" /\ browser[b].st = "opening"
  /\ browser' = [browser EXCEPT ![b] = [NoBrowser EXCEPT !.st = "closed"]]
  /\ job' = [job EXCEPT ![j] = Thrown(j)]
  /\ UNCHANGED <<token, captured, r2, burned, cut>>

\* Pool.get hands out a browser that is flagged: it is invalidated, the attempt fails.
GetStale(j, b) ==
  /\ job[j].pc = "wait" /\ b \in Free /\ browser[b].stale
  /\ browser' = [browser EXCEPT ![b] = Swept(Invalidated(@))]
  /\ job' = [job EXCEPT ![j] = Thrown(j)]
  /\ UNCHANGED <<token, captured, r2, burned, cut>>

\* a faulty GetDead: the gate throws, past observe
GetDeadThrows(j, b) ==
  /\ job[j].pc = "wait" /\ b \in Free /\ ~browser[b].stale /\ ~browser[b].egress
  /\ browser' = [browser EXCEPT ![b] = Swept(Invalidated(@))]
  /\ job' = [job EXCEPT ![j] = Thrown(j)]
  /\ burned' = burned \cup {token}
  /\ UNCHANGED <<token, captured, r2, cut>>
\* The gate: the probe, or an earlier tab, found the egress dead.  An output, not an error.
GetDead(j, b) ==
  /\ job[j].pc = "wait" /\ b \in Free /\ ~browser[b].stale /\ ~browser[b].egress
  /\ browser' = [browser EXCEPT ![b] = Swept(Invalidated(@))]
  /\ job' = [job EXCEPT ![j].pc = "observe", ![j].b = b, ![j].tok = token,
                        ![j].dead = TRUE]
  /\ burned' = burned \cup {token}
  /\ UNCHANGED <<token, captured, r2, cut>>

\* The token of the attempt is read once, after the gates.
Get(j, b) ==
  /\ job[j].pc = "wait" /\ b \in Free /\ ~browser[b].stale /\ browser[b].egress
  /\ browser' = [browser EXCEPT ![b].users = @ \cup {j}]
  /\ job' = [job EXCEPT ![j].pc = "page", ![j].b = b, ![j].tok = token]
  /\ UNCHANGED <<token, captured, r2, burned, cut>>

NewPage(j) ==
  /\ job[j].pc = "page"
  /\ job' = [job EXCEPT ![j].pc = "scrape"]
  /\ UNCHANGED <<token, captured, browser, r2, burned, cut>>

\* An error, or the timeout of 15 s.
NewPageFails(j) ==
  /\ job[j].pc = "page"
  /\ browser' = [browser EXCEPT ![job[j].b] = Swept(Returned(Invalidated(@), j))]
  /\ job' = [job EXCEPT ![j] = Thrown(j)]
  /\ UNCHANGED <<token, captured, r2, burned, cut>>

\* The attempt's page opens a connection that the shim notes.
Connect(j) ==
  /\ job[j].pc \in {"scrape", "probe"}
  /\ Note(job[j].b, job[j].tok)
  /\ UNCHANGED <<token, job, r2, burned, cut>>

\* What tells of a block of the address: the answer, or a call that hangs once the captcha
\* is solved.
BlockSeen(o) ==
  \/ o.page \in {"cfError", "captchaError", "listCfError", "rateLimited"}
  \/ o.page = "none" /\ o.status = "pending"

\* executeAhrefsScrape ends.  It egressed on a noted connection of its browser, its own or a
\* warm one of any tab and any earlier token, or on none that the shim knows.
Scrape(j) ==
  LET b == job[j].b IN
  /\ job[j].pc = "scrape"
  /\ \E o \in Observations : \E rode \in browser[b].tunnels \cup {None} :
       LET died == isObservedProxyDeath(o) IN
       /\ browser' = [browser EXCEPT ![b].egress = @ /\ ~died]
       /\ job' = [job EXCEPT ![j].out = o, ![j].rode = rode, ![j].dead = died,
                     ![j].pc = IF ~died /\ isEgressDeathCandidate(o) THEN "probe" ELSE "close"]
       /\ burned' = IF died \/ BlockSeen(o) THEN burned \cup {job[j].tok} ELSE burned
  /\ UNCHANGED <<token, captured, r2, cut>>

\* The second probe of the egress, through the attempt's page; a page that is gone counts
\* as dead, and the verdict overwrites the browser's.
Probe(j) ==
  /\ job[j].pc = "probe"
  /\ \E alive \in BOOLEAN :
       /\ browser' = [browser EXCEPT ![job[j].b].egress = alive]
       /\ job' = [job EXCEPT ![j].dead = ~alive, ![j].pc = "close"]
       /\ burned' = IF alive THEN burned ELSE burned \cup {job[j].tok}
  /\ UNCHANGED <<token, captured, r2, cut>>

scrapeError(j) == IF job[j].dead THEN EgressDead ELSE parseResult(job[j].out)
Succeeded(j) == scrapeError(j) = NoError

\* a faulty capturedIdentity: the browser's key is asked first
capturedByBrowserFirst(j) ==
  LET latest == browser[job[j].b].latest IN
  IF latest # None THEN latest ELSE IF job[j].tok \in captured THEN job[j].tok ELSE None
\* The identity recorded for the attempt: its token's, else the latest of its browser.
capturedIdentity(j) ==
  IF job[j].tok \in captured THEN job[j].tok ELSE browser[job[j].b].latest

\* The bounded teardown ends (page close, flush wait, replay lookup and patch): the browser
\* is invalidated after a failure, or when it is flagged.
Teardown(j) ==
  LET b == job[j].b
      bad == ~Succeeded(j) \/ browser[b].stale
  IN
  /\ job[j].pc = "close"
  /\ browser' = [browser EXCEPT ![b] = Swept(Returned(IF bad THEN Invalidated(@) ELSE @, j))]
  /\ job' = [job EXCEPT ![j].pc = "observe", ![j].success = Succeeded(j)]
  /\ UNCHANGED <<token, captured, r2, burned, cut>>

\* SessionTokenHolder.observe
observe(e) == IF isBlockTrigger(e) THEN token + 1 ELSE token

\* scrape(), after an attempt: a block rotates the token, and the first attempt is retried.
Observe(j) ==
  LET e == scrapeError(j) IN
  /\ job[j].pc = "observe"
  /\ token' = observe(e)
  /\ job' = [job EXCEPT ![j] =
       IF isBlockTrigger(e) /\ job[j].attempt = 1
       THEN [NewJob EXCEPT !.pc = "wait", !.instance = job[j].instance, !.attempt = 2,
                           !.lastB = job[j].b, !.lastTok = job[j].tok]
       ELSE Ended(j, Succeeded(j))]
  /\ UNCHANGED <<captured, browser, r2, burned, cut>>

-----------------------------------------------------------------------------
(* The guaranteed terminal record.                                         *)

\* a faulty Timed: it starts once the pool has given a browser
TimedOnceAcquired == Working \ {"wait"}
\* The steps under Effect.timeout(MAX_SCRAPE_WORK_MS).
Timed == Working

\* The attempt has seen its address blocked or dead, and has not reported it yet.
Sighted(j) == job[j].pc \in {"close", "observe"} /\ (job[j].dead \/ BlockSeen(job[j].out))

\* The work is interrupted: scopes close, so the permit returns; nothing after the step it
\* was at runs, neither the teardown nor the invalidation nor observe.
Deadline(j) ==
  /\ job[j].pc \in Timed
  /\ browser' = [b \in Browsers |-> IF j \in browser[b].users
                                    THEN Swept(Returned(browser[b], j)) ELSE browser[b]]
  /\ job' = [job EXCEPT ![j] = Thrown(j)]
  /\ cut' = IF Sighted(j) THEN cut \cup {job[j].tok} ELSE cut
  /\ UNCHANGED <<token, captured, r2, burned>>

\* What the PUT stores.
Stored(j) == [r2 EXCEPT ![job[j].instance] = IF job[j].success THEN "success" ELSE "failure"]

\* writeR2Outcome: the PUT lands, or it fails or takes longer than 15 s.
WriteR2(j) ==
  /\ job[j].pc = "write"
  /\ \E stored \in BOOLEAN :
       /\ job' = [job EXCEPT ![j].pc = "emit", ![j].writes = @ + 1]
       /\ r2' = IF stored THEN Stored(j) ELSE r2
  /\ UNCHANGED <<token, captured, browser, burned, cut>>

\* emitTerminalRecord: the wide event may fail, the marker comes in any case.
Emit(j) ==
  /\ job[j].pc = "emit"
  /\ job' = [job EXCEPT ![j].pc = "done", ![j].marks = @ + 1]
  /\ UNCHANGED <<token, captured, browser, r2, burned, cut>>

-----------------------------------------------------------------------------

Next ==
  \/ \E b \in Browsers : Acquire(b) \/ Opened(b) \/ Expire(b) \/ NeedsInvalidation(b)
  \/ \E j \in Jobs :
       \/ \E i \in Instances : Dispatch(j, i)
       \/ \E b \in Browsers : \/ AcquireFails(j, b) \/ GetStale(j, b)
                              \/ GetDead(j, b) \/ Get(j, b)
       \/ NewPage(j) \/ NewPageFails(j) \/ Connect(j) \/ Scrape(j) \/ Probe(j)
       \/ Teardown(j) \/ Observe(j)
       \/ Deadline(j) \/ WriteR2(j) \/ Emit(j)

Spec == Init /\ [][Next]_vars

\* The deadline and the two bounded steps of the record happen; any step of the work may
\* hang for ever.
FairSpec == Spec /\ \A j \in Jobs : WF_vars(Deadline(j)) /\ WF_vars(WriteR2(j)) /\ WF_vars(Emit(j))

-----------------------------------------------------------------------------
(* Properties.                                                             *)

TypeOK ==
  /\ token \in Nat \ {0} /\ captured \subseteq Nat
  /\ burned \subseteq 1 .. token /\ cut \subseteq 1 .. token
  /\ browser \in [Browsers -> [st : {"none", "opening", "up", "closed"}, invalid : BOOLEAN,
       stale : BOOLEAN, egress : BOOLEAN, tok : Nat, tunnels : SUBSET Nat, latest : Nat,
       users : SUBSET Jobs]]
  /\ job \in [Jobs -> [pc : Working \cup {"new", "cached", "write", "emit", "done"},
       instance : Instances \cup {None}, attempt : 1 .. 2, b : Browsers \cup {None},
       tok : 0 .. token, out : Observations \cup {Unseen}, rode : Nat, dead : BOOLEAN,
       lastB : Browsers \cup {None}, lastTok : 0 .. token, success : BOOLEAN,
       writes : Nat, marks : Nat]]
  /\ r2 \in [Instances -> {"none", "success", "failure"}]

\* A tab's permit is held exactly as long as its attempt works on the browser, whichever way
\* the attempt ends, and a browser another tab still uses is not closed under it.
PermitsExact ==
  /\ TypeOK
  /\ \A j \in Jobs, b \in Browsers :
       j \in browser[b].users <=> job[j].pc \in Holding /\ job[j].b = b
  /\ \A b \in Browsers : browser[b].users # {} => browser[b].st = "up"
  /\ \A b \in Browsers : Cardinality(browser[b].users) <= TabsPerBrowser

\* The retry of a blocked scrape runs on another browser and under another token, however
\* the other dispatches interleave.
RetryIsFresh ==
  \A j \in Jobs : job[j].attempt = 2 /\ job[j].pc \in Holding
                    => job[j].b # job[j].lastB /\ job[j].tok # job[j].lastTok

\* The current token, on which every later attempt will start, was seen blocked or dead only
\* as long as an attempt that saw it is on its way to report it, unless the deadline cut that
\* attempt off: no way out of an attempt loses the sighting, and no report leaves the token,
\* however many dispatches saw the block and rotate for it.
BurnedTokenLeft ==
  token \in burned => \/ \E j \in Jobs : Sighted(j) /\ job[j].tok = token
                     \/ token \in cut

\* An attempt that egressed on a connection the shim has noted is given an identity, also when
\* the connection was opened by another tab under a token since rotated away; and the right
\* one whenever the connection was opened under the attempt's own token, whatever the other
\* tabs have connected with since.
EgressAttributed ==
  \A j \in Jobs : job[j].pc = "close" /\ job[j].rode # None =>
     /\ capturedIdentity(j) # None
     /\ job[j].rode = job[j].tok => capturedIdentity(j) = job[j].rode

\* The token is left only on the report of a failed attempt, whatever its tab saw on the way.
RotatedForAFailure ==
  [][token' # token => \E j \in Jobs : /\ job[j].pc = "observe" /\ job'[j].pc # "observe"
                                       /\ job[j].out.page # "ok"]_vars

\* Every accepted dispatch ends with one write to R2 and one marker, though every step of its
\* work may hang.
DispatchEnds ==
  \A j \in Jobs : job[j].pc = "wait" ~> job[j].pc = "done" /\ job[j].writes = 1 /\ job[j].marks = 1
=============================================================================

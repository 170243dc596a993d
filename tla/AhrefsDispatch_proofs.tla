------------------------ MODULE AhrefsDispatch_proofs ------------------------
(***************************************************************************)
(* The safety properties of the dispatched scrapes, for any number of      *)
(* dispatches, instances, browsers and tabs and any set of observations.   *)
(* That a retry is fresh needs more than itself: that whatever fails       *)
(* leaves its browser where the pool will not take it from again, and that *)
(* the token has moved past the one that was blocked.  That an attempt is  *)
(* attributed needs that the shim's two keys cover every connection of a   *)
(* browser.                                                                *)
(***************************************************************************)
EXTENDS AhrefsDispatch, FiniteSetTheorems, TLAPS

BrowserRec ==
  [st : {"none", "opening", "up", "closed"}, invalid : BOOLEAN, stale : BOOLEAN,
   egress : BOOLEAN, tok : Nat, tunnels : SUBSET Nat, latest : Nat, users : SUBSET Jobs]

-----------------------------------------------------------------------------
(* The inductive invariant: the types, the permits, and for every dispatch *)
(* what its attempt has come to rely on.                                   *)

\* A browser that the pool will not hand out again.
Retired(b) == browser[b].st = "closed" \/ (browser[b].st = "up" /\ browser[b].invalid)

Permits ==
  /\ \A j \in Jobs, b \in Browsers :
       j \in browser[b].users <=> job[j].pc \in Holding /\ job[j].b = b
  /\ \A b \in Browsers : browser[b].users # {} => browser[b].st = "up"
  /\ \A b \in Browsers : /\ IsFiniteSet(browser[b].users)
                         /\ Cardinality(browser[b].users) <= TabsPerBrowser

\* An attempt past the pool has a browser and a token.  A failed attempt leaves its browser
\* retired, so that a second one, which remembers it, is never given it again; and the token
\* has moved on meanwhile.  The connection it egressed on is one of its browser's.  A dead
\* egress is never the verdict on a page that succeeded.
AttemptInv(j) ==
  /\ job[j].pc \in Holding \cup {"observe"} => job[j].b \in Browsers /\ job[j].tok # 0
  /\ job[j].pc = "observe" /\ ~Succeeded(j) => Retired(job[j].b)
  /\ job[j].attempt = 2 => /\ job[j].lastTok < token
                           /\ job[j].lastB \in Browsers /\ Retired(job[j].lastB)
  /\ job[j].attempt = 2 /\ job[j].pc \in Holding
       => job[j].b # job[j].lastB /\ job[j].lastTok < job[j].tok
  /\ job[j].pc \in {"probe", "close"} /\ job[j].rode # None
       => job[j].rode \in browser[job[j].b].tunnels
  /\ job[j].dead \/ job[j].pc \in {"new", "wait", "probe"} => job[j].out.page # "ok"

\* The shim knows every connection of a browser by both keys.
Keys ==
  \A b \in Browsers : /\ browser[b].tunnels \subseteq captured
                      /\ browser[b].tunnels # {} => browser[b].latest # None
                      /\ browser[b].st = "opening" => browser[b].tok # None

Inv ==
  /\ TypeOK /\ Permits /\ Keys /\ BurnedTokenLeft
  /\ \A j \in Jobs : AttemptInv(j)

\* A dispatch, its tokens among the first t.
JobRec(t) ==
  [pc : Working \cup {"new", "cached", "write", "emit", "done"},
   instance : Instances \cup {None}, attempt : 1 .. 2, b : Browsers \cup {None},
   tok : 0 .. t, out : Observations \cup {Unseen}, rode : Nat, dead : BOOLEAN,
   lastB : Browsers \cup {None}, lastTok : 0 .. t, success : BOOLEAN,
   writes : Nat, marks : Nat]

-----------------------------------------------------------------------------
(* What the pool's operations do to the record of a browser.               *)

\* A step never takes a browser back into the pool, and a browser in use stays up and
\* loses no connection.
Evolves(r, s) ==
  /\ r.st = "closed" => s.st = "closed"
  /\ r.st = "up" => s.st \in {"up", "closed"}
  /\ r.st = "up" /\ r.invalid => s.st = "closed" \/ s.invalid
  /\ s.users # {} => (r.st = "up" => s.st = "up") /\ r.tunnels \subseteq s.tunnels

\* And most steps add none, nor start to open a browser.
Quiet(r, s) ==
  /\ Evolves(r, s)
  /\ s.tunnels = {} \/ (s.tunnels = r.tunnels /\ s.latest = r.latest)
  /\ s.st = "opening" => r.st = "opening" /\ s.tok = r.tok

LEMMA SweptBrowser ==
  ASSUME NEW r \in BrowserRec
  PROVE  /\ Swept(r) \in BrowserRec /\ Quiet(r, Swept(r)) /\ Swept(r).users = r.users
         /\ r.invalid /\ r.st = "up" => Swept(r).st = "closed" \/ Swept(r).invalid
         /\ Swept(r).st \in {r.st, "closed"}
  BY DEF Swept, NoBrowser, None, BrowserRec, Quiet, Evolves

LEMMA InvalidatedBrowser ==
  ASSUME NEW r \in BrowserRec
  PROVE  /\ Invalidated(r) \in BrowserRec /\ Invalidated(r).users = r.users
         /\ Invalidated(r).st = r.st /\ Invalidated(r).invalid
         /\ Invalidated(r).tunnels = r.tunnels /\ Invalidated(r).latest = r.latest
         /\ Invalidated(r).tok = r.tok
  BY DEF Invalidated, BrowserRec

LEMMA ReturnedBrowser ==
  ASSUME NEW r \in BrowserRec, NEW j
  PROVE  /\ Returned(r, j) \in BrowserRec /\ Returned(r, j).users = r.users \ {j}
         /\ Returned(r, j).st = r.st /\ Returned(r, j).invalid = r.invalid
         /\ Returned(r, j).tunnels = r.tunnels /\ Returned(r, j).latest = r.latest
         /\ Returned(r, j).tok = r.tok
  BY DEF Returned, BrowserRec

\* A browser that is invalidated, given back and swept, in the ways the steps do it.
LEMMA InvalidatedAndSwept ==
  ASSUME NEW r \in BrowserRec
  PROVE  LET s == Swept(Invalidated(r)) IN
         /\ s \in BrowserRec /\ Quiet(r, s) /\ s.users = r.users
         /\ r.st = "up" => s.st = "closed" \/ (s.st = "up" /\ s.invalid)
         /\ r.st = "closed" => s.st = "closed"
  <1> DEFINE i == Invalidated(r)
  <1>1. i \in BrowserRec /\ i.users = r.users /\ i.st = r.st /\ i.invalid
        /\ i.tunnels = r.tunnels /\ i.latest = r.latest /\ i.tok = r.tok
    BY InvalidatedBrowser
  <1> HIDE DEF i
  <1>2. /\ Swept(i) \in BrowserRec /\ Quiet(i, Swept(i)) /\ Swept(i).users = i.users
        /\ i.invalid /\ i.st = "up" => Swept(i).st = "closed" \/ Swept(i).invalid
        /\ Swept(i).st \in {i.st, "closed"}
    BY <1>1, SweptBrowser
  <1>3. /\ Swept(i) \in BrowserRec /\ Quiet(r, Swept(i)) /\ Swept(i).users = r.users
        /\ r.st = "up" => Swept(i).st = "closed" \/ (Swept(i).st = "up" /\ Swept(i).invalid)
        /\ r.st = "closed" => Swept(i).st = "closed"
    BY <1>1, <1>2 DEF Quiet, Evolves
  <1> QED BY <1>3 DEF i

LEMMA ReturnedAndSwept ==
  ASSUME NEW r \in BrowserRec, NEW j
  PROVE  LET s == Swept(Returned(r, j)) IN
         /\ s \in BrowserRec /\ Quiet(r, s) /\ s.users = r.users \ {j}
         /\ r.st = "up" /\ r.invalid => s.st = "closed" \/ (s.st = "up" /\ s.invalid)
  <1> DEFINE i == Returned(r, j)
  <1>1. /\ i \in BrowserRec /\ i.users = r.users \ {j} /\ i.st = r.st /\ i.invalid = r.invalid
        /\ i.tunnels = r.tunnels /\ i.latest = r.latest /\ i.tok = r.tok
    BY ReturnedBrowser
  <1> HIDE DEF i
  <1>2. /\ Swept(i) \in BrowserRec /\ Quiet(i, Swept(i)) /\ Swept(i).users = i.users
        /\ i.invalid /\ i.st = "up" => Swept(i).st = "closed" \/ Swept(i).invalid
        /\ Swept(i).st \in {i.st, "closed"}
    BY <1>1, SweptBrowser
  <1>3. /\ Swept(i) \in BrowserRec /\ Quiet(r, Swept(i)) /\ Swept(i).users = r.users \ {j}
        /\ r.st = "up" /\ r.invalid
             => Swept(i).st = "closed" \/ (Swept(i).st = "up" /\ Swept(i).invalid)
    BY <1>1, <1>2 DEF Quiet, Evolves
  <1> QED BY <1>3 DEF i

LEMMA FailedAndSwept ==
  ASSUME NEW r \in BrowserRec, NEW j
  PROVE  LET s == Swept(Returned(Invalidated(r), j)) IN
         /\ s \in BrowserRec /\ Quiet(r, s) /\ s.users = r.users \ {j}
         /\ r.st = "up" => s.st = "closed" \/ (s.st = "up" /\ s.invalid)
  <1> DEFINE i == Invalidated(r)
  <1>1. i \in BrowserRec /\ i.users = r.users /\ i.st = r.st /\ i.invalid
        /\ i.tunnels = r.tunnels /\ i.latest = r.latest /\ i.tok = r.tok
    BY InvalidatedBrowser
  <1> DEFINE s == Swept(Returned(i, j))
  <1> HIDE DEF i
  <1>2. /\ s \in BrowserRec /\ Quiet(i, s) /\ s.users = i.users \ {j}
        /\ i.st = "up" /\ i.invalid => s.st = "closed" \/ (s.st = "up" /\ s.invalid)
    BY <1>1, ReturnedAndSwept
  <1> HIDE DEF s
  <1>3. /\ s \in BrowserRec /\ Quiet(r, s) /\ s.users = r.users \ {j}
        /\ r.st = "up" => s.st = "closed" \/ (s.st = "up" /\ s.invalid)
    BY <1>1, <1>2 DEF Quiet, Evolves
  <1> QED BY <1>3 DEF s, i

-----------------------------------------------------------------------------
(* The permits.                                                            *)

\* Nobody takes or returns a permit.
LEMMA PermitsKept ==
  ASSUME Permits,
         \A b \in Browsers : /\ browser'[b].users = browser[b].users
                             /\ browser[b].users # {} => browser'[b].st = browser[b].st,
         \A k \in Jobs : /\ job'[k].pc \in Holding <=> job[k].pc \in Holding
                         /\ job[k].pc \in Holding => job'[k].b = job[k].b
  PROVE  Permits'
  BY DEF Permits

\* One dispatch is no longer at work, and holds no permit any more.
LEMMA PermitReturned ==
  ASSUME Permits, NEW j \in Jobs,
         \A k \in Jobs \ {j} : job'[k] = job[k],
         job'[j].pc \notin Holding,
         \A b \in Browsers : /\ browser'[b].users = browser[b].users \ {j}
                             /\ browser'[b].users # {} /\ browser[b].st = "up" => browser'[b].st = "up"
  PROVE  Permits'
  <1>1. \A k \in Jobs, b \in Browsers :
          k \in browser'[b].users <=> job'[k].pc \in Holding /\ job'[k].b = b
    BY DEF Permits
  <1>2. \A b \in Browsers : browser'[b].users # {} => browser'[b].st = "up"
    BY DEF Permits
  <1>3. ASSUME NEW b \in Browsers
        PROVE  IsFiniteSet(browser'[b].users) /\ Cardinality(browser'[b].users) <= TabsPerBrowser
    <2>1. IsFiniteSet(browser[b].users) /\ Cardinality(browser[b].users) <= TabsPerBrowser
      BY DEF Permits
    <2>2. browser'[b].users \subseteq browser[b].users OBVIOUS
    <2>3. /\ IsFiniteSet(browser'[b].users)
          /\ Cardinality(browser'[b].users) <= Cardinality(browser[b].users)
      BY <2>1, <2>2, FS_Subset
    <2>4. Cardinality(browser'[b].users) \in Nat /\ Cardinality(browser[b].users) \in Nat
      BY <2>1, <2>3, FS_CardinalityType
    <2> QED BY <2>1, <2>3, <2>4, DispatchAssumption DEF DispatchAssumption
  <1> QED BY <1>1, <1>2, <1>3 DEF Permits

-----------------------------------------------------------------------------
(* What the other dispatches rely on survives a step of one.               *)

LEMMA Frame ==
  ASSUME Permits', \A b \in Browsers : Evolves(browser[b], browser'[b]),
         token \in Nat, token' \in Nat, token <= token',
         NEW k \in Jobs, job'[k] = job[k], AttemptInv(k), TypeOK
  PROVE  AttemptInv(k)'
  <1>1. ASSUME NEW b \in Browsers, Retired(b) PROVE Retired(b)'
    BY <1>1 DEF Retired, Evolves
  <1>2. Succeeded(k)' = Succeeded(k) BY DEF Succeeded, scrapeError
  <1>3. ASSUME job[k].pc \in {"probe", "close"}, job[k].rode \in browser[job[k].b].tunnels
        PROVE  job[k].rode \in browser'[job[k].b].tunnels
    <2>1. job[k].b \in Browsers BY <1>3 DEF AttemptInv, Holding
    <2>2. browser'[job[k].b].users # {} BY <1>3, <2>1 DEF Permits, Holding
    <2> QED BY <1>3, <2>1, <2>2 DEF Evolves
  <1>4. job[k].lastTok \in Nat BY DEF TypeOK
  <1>5. job[k].attempt = 2 => job[k].lastTok < token' BY <1>4 DEF AttemptInv
  <1> QED BY <1>1, <1>2, <1>3, <1>5 DEF AttemptInv, Holding

\* What a step does that changes one dispatch, and what it leaves to the others.
StepOf(j) ==
  /\ TypeOK' /\ Permits' /\ AttemptInv(j)'
  /\ token \in Nat /\ token' \in Nat /\ token <= token'
  /\ Keys' /\ BurnedTokenLeft'
  /\ \A b \in Browsers : Evolves(browser[b], browser'[b])
  /\ \A k \in Jobs \ {j} : job'[k] = job[k]

LEMMA OthersKept ==
  ASSUME Inv, NEW j \in Jobs, StepOf(j)
  PROVE  Inv'
  BY Frame DEF Inv, StepOf

LEMMA JobTypes ==
  ASSUME TypeOK, token' \in Nat, token <= token',
         NEW j \in Jobs, NEW r \in JobRec(token'), job' = [job EXCEPT ![j] = r]
  PROVE  /\ job' \in [Jobs -> JobRec(token')] /\ job'[j] = r
         /\ \A k \in Jobs \ {j} : job'[k] = job[k]
  <1>1. job \in [Jobs -> JobRec(token)] /\ token \in Nat BY DEF TypeOK, JobRec
  <1>2. JobRec(token) \subseteq JobRec(token') BY <1>1 DEF JobRec
  <1> QED BY <1>1, <1>2

\* One type for the state, by its parts.
LEMMA Types ==
  TypeOK <=> /\ token \in Nat \ {0} /\ captured \subseteq Nat
             /\ burned \subseteq 1 .. token /\ cut \subseteq 1 .. token
             /\ browser \in [Browsers -> BrowserRec] /\ job \in [Jobs -> JobRec(token)]
             /\ r2 \in [Instances -> {"none", "success", "failure"}]
  BY DEF TypeOK, BrowserRec, JobRec

LEMMA NextTypes ==
  ASSUME token' \in Nat \ {0}, captured' \subseteq Nat,
         burned' \subseteq 1 .. token', cut' \subseteq 1 .. token',
         browser' \in [Browsers -> BrowserRec], job' \in [Jobs -> JobRec(token')],
         r2' \in [Instances -> {"none", "success", "failure"}]
  PROVE  TypeOK'
  BY DEF TypeOK, BrowserRec, JobRec

LEMMA Same == ASSUME NEW r PROVE Quiet(r, r) /\ Evolves(r, r)
  BY DEF Quiet, Evolves

\* Without a new connection the keys still cover all of them.
LEMMA KeysKept ==
  ASSUME Keys, \A b \in Browsers : Quiet(browser[b], browser'[b]), captured \subseteq captured'
  PROVE  Keys' /\ \A b \in Browsers : Evolves(browser[b], browser'[b])
  BY DEF Keys, Quiet

-----------------------------------------------------------------------------
(* The sightings of a block.                                               *)

\* A step of dispatch j that leaves the token: what it saw before it still has to report, or
\* the deadline cut it off; and what it sees it has to report.
LEMMA SightingKept ==
  ASSUME BurnedTokenLeft, NEW j \in Jobs, token' = token, cut \subseteq cut',
         \A k \in Jobs \ {j} : job'[k] = job[k],
         Sighted(j) /\ job[j].tok = token
           => (Sighted(j)' /\ job'[j].tok = token) \/ token \in cut',
         token \in burned' => token \in burned \/ (Sighted(j)' /\ job'[j].tok = token)
  PROVE  BurnedTokenLeft'
  <1> SUFFICES ASSUME token \in burned', token \notin cut'
               PROVE  \E k \in Jobs : Sighted(k)' /\ job'[k].tok = token
    BY DEF BurnedTokenLeft
  <1>1. CASE token \notin burned BY <1>1
  <1>2. CASE token \in burned
    <2>1. PICK k \in Jobs : Sighted(k) /\ job[k].tok = token BY <1>2 DEF BurnedTokenLeft
    <2>2. CASE k = j BY <2>1, <2>2
    <2>3. CASE k # j
      <3>1. job'[k] = job[k] BY <2>3
      <3>2. Sighted(k)' BY <2>1, <3>1 DEF Sighted
      <3> QED BY <2>1, <3>1, <3>2
    <2> QED BY <2>2, <2>3
  <1> QED BY <1>1, <1>2

-----------------------------------------------------------------------------
(* The pool's own steps.                                                   *)

\* A step of the pool takes and returns no permit.
LEMMA PoolStep ==
  ASSUME Inv, NEW b \in Browsers, NEW r \in BrowserRec, browser' = [browser EXCEPT ![b] = r],
         Evolves(browser[b], r), r.users = browser[b].users,
         browser[b].users # {} => r.st = browser[b].st,
         captured' \subseteq Nat, Keys',
         UNCHANGED <<token, job, r2, burned, cut>>
  PROVE  Inv'
  <1>1. /\ token \in Nat \ {0} /\ browser \in [Browsers -> BrowserRec]
        /\ job \in [Jobs -> JobRec(token)] /\ TypeOK
        /\ burned \subseteq 1 .. token /\ cut \subseteq 1 .. token
        /\ r2 \in [Instances -> {"none", "success", "failure"}]
    BY Types DEF Inv
  <1>2. /\ browser' \in [Browsers -> BrowserRec] /\ browser'[b] = r
        /\ \A c \in Browsers \ {b} : browser'[c] = browser[c]
    BY <1>1
  <1>3. TypeOK' BY <1>1, <1>2, NextTypes
  <1>4. \A c \in Browsers : Evolves(browser[c], browser'[c])
    BY <1>2, Same
  <1>5. Permits'
    <2>1. \A c \in Browsers : /\ browser'[c].users = browser[c].users
                              /\ browser[c].users # {} => browser'[c].st = browser[c].st
      BY <1>2
    <2> QED BY <2>1, PermitsKept DEF Inv
  <1>6. \A k \in Jobs : AttemptInv(k)'
    BY <1>1, <1>4, <1>5, Frame DEF Inv
  <1>7. BurnedTokenLeft' BY DEF Inv, BurnedTokenLeft, Sighted
  <1> QED BY <1>3, <1>5, <1>6, <1>7 DEF Inv

\* One that opens no connection either.
LEMMA QuietPoolStep ==
  ASSUME Inv, NEW b \in Browsers, NEW r \in BrowserRec, browser' = [browser EXCEPT ![b] = r],
         Quiet(browser[b], r), r.users = browser[b].users,
         browser[b].users # {} => r.st = browser[b].st,
         UNCHANGED <<token, captured, job, r2, burned, cut>>
  PROVE  Inv'
  <1>1. browser \in [Browsers -> BrowserRec] /\ captured \subseteq Nat BY Types DEF Inv
  <1>2. \A c \in Browsers : Quiet(browser[c], browser'[c]) BY <1>1, Same
  <1>3. Keys' /\ Evolves(browser[b], r) BY <1>1, <1>2, KeysKept DEF Inv
  <1> QED BY <1>1, <1>3, PoolStep

LEMMA AcquireStep == ASSUME Inv, NEW b \in Browsers, Acquire(b) PROVE Inv'
  <1> DEFINE r == [browser[b] EXCEPT !.st = "opening", !.tok = token]
  <1>1. /\ browser \in [Browsers -> BrowserRec] /\ captured \subseteq Nat
        /\ token \in Nat /\ token # None
    BY Types DEF Inv, None
  <1>2. /\ r \in BrowserRec /\ r.st = "opening" /\ r.tok = token /\ r.users = browser[b].users
        /\ r.tunnels = browser[b].tunnels /\ r.latest = browser[b].latest
    BY <1>1 DEF BrowserRec
  <1>3. browser[b].users = {} /\ browser[b].st = "none" BY DEF Acquire, Inv, Permits
  <1>4. browser' = [browser EXCEPT ![b] = r] /\ UNCHANGED <<token, captured, job, r2, burned, cut>>
    BY DEF Acquire
  <1> HIDE DEF r
  <1>5. Evolves(browser[b], r) BY <1>2, <1>3 DEF Evolves
  <1>6. Keys' BY <1>1, <1>2, <1>4 DEF Inv, Keys
  <1> QED BY <1>1, <1>2, <1>3, <1>4, <1>5, <1>6, PoolStep

LEMMA OpenedStep == ASSUME Inv, NEW b \in Browsers, Opened(b) PROVE Inv'
  <1> DEFINE t == browser[b].tok
  <1>1. PICK alive \in BOOLEAN, noted \in BOOLEAN :
          /\ browser' = [browser EXCEPT ![b] =
               [NoBrowser EXCEPT !.st = "up", !.egress = alive,
                                 !.tunnels = IF noted THEN {t} ELSE {},
                                 !.latest = IF noted THEN t ELSE None]]
          /\ captured' = IF noted THEN captured \cup {t} ELSE captured
    BY DEF Opened
  <1> DEFINE tunnels == IF noted THEN {t} ELSE {}
             latest == IF noted THEN t ELSE None
             r == [NoBrowser EXCEPT !.st = "up", !.egress = alive, !.tunnels = tunnels,
                                    !.latest = latest]
  <1>2. /\ browser \in [Browsers -> BrowserRec] /\ captured \subseteq Nat
        /\ browser[b].st = "opening" /\ t \in Nat /\ t # None
        /\ UNCHANGED <<token, job, r2, burned, cut>>
    <2>1. browser \in [Browsers -> BrowserRec] /\ captured \subseteq Nat BY Types DEF Inv
    <2> QED BY <2>1 DEF Inv, Keys, Opened, BrowserRec
  <1>3. browser[b].users = {} BY <1>2 DEF Inv, Permits
  <1>4. /\ tunnels \subseteq Nat /\ latest \in Nat /\ tunnels \subseteq captured'
        /\ tunnels # {} => latest # None
        /\ captured \subseteq captured' /\ captured' \subseteq Nat
    BY <1>1, <1>2 DEF None
  <1>5. browser' = [browser EXCEPT ![b] = r] BY <1>1
  <1> HIDE DEF tunnels, latest
  <1>6. /\ r \in BrowserRec /\ r.users = {} /\ r.st = "up" /\ r.tunnels = tunnels
        /\ r.latest = latest
    BY <1>4 DEF NoBrowser, BrowserRec, None
  <1> HIDE DEF r
  <1>7. Evolves(browser[b], r) BY <1>2, <1>6 DEF Evolves
  <1>8. captured \subseteq captured' BY <1>4
  <1>9. Keys'
    <2>1. browser'[b] = r /\ \A c \in Browsers \ {b} : browser'[c] = browser[c] BY <1>2, <1>5
    <2>2. tunnels # {} => latest # None BY <1>4
    <2> QED BY <1>4, <1>6, <1>8, <2>1, <2>2 DEF Inv, Keys
  <1> QED BY <1>2, <1>3, <1>4, <1>5, <1>6, <1>7, <1>9, PoolStep

LEMMA ConnectStep == ASSUME Inv, NEW j \in Jobs, Connect(j) PROVE Inv'
  <1> DEFINE b == job[j].b
             t == job[j].tok
             r == [browser[b] EXCEPT !.tunnels = @ \cup {t}, !.latest = t]
  <1>1. /\ browser \in [Browsers -> BrowserRec] /\ captured \subseteq Nat
        /\ job[j] \in JobRec(token) /\ token \in Nat
    BY Types DEF Inv
  <1>2. b \in Browsers /\ t # None /\ t \in Nat
    <2>1. AttemptInv(j) BY DEF Inv
    <2> QED BY <1>1, <2>1 DEF AttemptInv, Connect, Holding, None, JobRec
  <1>3. /\ browser' = [browser EXCEPT ![b] = r] /\ captured' = captured \cup {t}
        /\ UNCHANGED <<token, job, r2, burned, cut>>
    BY DEF Connect, Note
  <1> HIDE DEF b, t
  <1>4. /\ r \in BrowserRec /\ r.users = browser[b].users /\ r.st = browser[b].st
        /\ r.invalid = browser[b].invalid /\ r.tunnels = browser[b].tunnels \cup {t}
        /\ r.latest = t /\ r.tok = browser[b].tok
    BY <1>1, <1>2 DEF BrowserRec
  <1> HIDE DEF r
  <1>5. Evolves(browser[b], r) BY <1>4 DEF Evolves
  <1>6. Keys'
    <2>1. browser'[b] = r /\ \A c \in Browsers \ {b} : browser'[c] = browser[c]
      BY <1>1, <1>2, <1>3
    <2> QED BY <1>2, <1>3, <1>4, <2>1 DEF Inv, Keys
  <1> QED BY <1>1, <1>2, <1>3, <1>4, <1>5, <1>6, PoolStep

LEMMA ExpireStep == ASSUME Inv, NEW b \in Browsers, Expire(b) PROVE Inv'
  <1> DEFINE r == Swept(Invalidated(browser[b]))
  <1>1. browser[b] \in BrowserRec /\ browser[b].st = "up"
    BY Types DEF Inv, Expire, Pooled
  <1>2. /\ r \in BrowserRec /\ Quiet(browser[b], r) /\ r.users = browser[b].users
    BY <1>1, InvalidatedAndSwept
  <1>3. /\ browser' = [browser EXCEPT ![b] = r]
        /\ UNCHANGED <<token, captured, job, r2, burned, cut>>
    BY DEF Expire
  <1> HIDE DEF r
  <1>4. browser[b].users # {} => r.st = "up" BY <1>1, <1>2 DEF Quiet, Evolves
  <1> QED BY <1>1, <1>2, <1>3, <1>4, QuietPoolStep

LEMMA NeedsInvalidationStep == ASSUME Inv, NEW b \in Browsers, NeedsInvalidation(b) PROVE Inv'
  <1> DEFINE r == [browser[b] EXCEPT !.stale = TRUE]
  <1>1. browser[b] \in BrowserRec
    BY Types DEF Inv
  <1>2. /\ r \in BrowserRec /\ Quiet(browser[b], r) /\ r.users = browser[b].users
        /\ r.st = browser[b].st
    BY <1>1 DEF BrowserRec, Quiet, Evolves
  <1>3. /\ browser' = [browser EXCEPT ![b] = r]
        /\ UNCHANGED <<token, captured, job, r2, burned, cut>>
    BY DEF NeedsInvalidation
  <1> HIDE DEF r
  <1> QED BY <1>1, <1>2, <1>3, QuietPoolStep

-----------------------------------------------------------------------------
(* The steps of a dispatch.                                                *)

\* What every step of one dispatch has to show.
LEMMA JobStep ==
  ASSUME Inv, NEW j \in Jobs, NEW r, token' \in Nat, token <= token', r \in JobRec(token'),
         job' = [job EXCEPT ![j] = r], UNCHANGED captured,
         burned' \subseteq 1 .. token', cut' \subseteq 1 .. token', BurnedTokenLeft',
         browser' \in [Browsers -> BrowserRec],
         \A b \in Browsers : Quiet(browser[b], browser'[b]),
         r2' \in [Instances -> {"none", "success", "failure"}],
         Permits', AttemptInv(j)'
  PROVE  Inv'
  <1>1. token \in Nat \ {0} /\ captured \subseteq Nat BY Types DEF Inv
  <1>2. /\ job' \in [Jobs -> JobRec(token')]
        /\ \A k \in Jobs \ {j} : job'[k] = job[k]
    BY JobTypes DEF Inv
  <1>3. TypeOK' BY <1>1, <1>2, NextTypes
  <1>4. Keys' /\ \A b \in Browsers : Evolves(browser[b], browser'[b])
    BY KeysKept DEF Inv
  <1>5. StepOf(j) BY <1>1, <1>2, <1>3, <1>4 DEF StepOf
  <1> QED BY <1>5, OthersKept

\* The steps that leave the token and see no block: what was seen before is still reported.
LEMMA TokenStays ==
  ASSUME Inv, NEW j \in Jobs, NEW r \in JobRec(token), job' = [job EXCEPT ![j] = r],
         UNCHANGED <<token, captured, burned, cut>>,
         Sighted(j) => Sighted(j)' /\ r.tok = job[j].tok,
         browser' \in [Browsers -> BrowserRec],
         \A b \in Browsers : Quiet(browser[b], browser'[b]),
         r2' \in [Instances -> {"none", "success", "failure"}],
         Permits', AttemptInv(j)'
  PROVE  Inv'
  <1>1. /\ token \in Nat \ {0} /\ burned \subseteq 1 .. token /\ cut \subseteq 1 .. token
        /\ job'[j] = r /\ \A k \in Jobs \ {j} : job'[k] = job[k]
    BY Types DEF Inv
  <1>2. /\ token' \in Nat /\ token <= token' /\ r \in JobRec(token')
        /\ burned' \subseteq 1 .. token' /\ cut' \subseteq 1 .. token'
    BY <1>1
  <1>3. BurnedTokenLeft' BY <1>1, SightingKept DEF Inv
  <1> QED BY <1>2, <1>3, JobStep

\* The steps that concern the dispatch alone, before an attempt has seen anything or after
\* it is over.
LEMMA JobAlone ==
  ASSUME Inv, NEW j \in Jobs, NEW r \in JobRec(token), job' = [job EXCEPT ![j] = r],
         UNCHANGED <<token, captured, browser, burned, cut>>,
         r2' \in [Instances -> {"none", "success", "failure"}],
         r.pc \in Holding <=> job[j].pc \in Holding,
         job[j].pc \in Holding => r.b = job[j].b,
         job[j].pc \notin {"close", "observe"},
         AttemptInv(j)'
  PROVE  Inv'
  <1>1. /\ token \in Nat \ {0} /\ browser \in [Browsers -> BrowserRec]
    BY Types DEF Inv
  <1>2. job'[j] = r /\ \A k \in Jobs \ {j} : job'[k] = job[k]
    BY Types DEF Inv
  <1>3. \A k \in Jobs : /\ job'[k].pc \in Holding <=> job[k].pc \in Holding
                        /\ job[k].pc \in Holding => job'[k].b = job[k].b
    BY <1>2
  <1>4. Permits' BY <1>3, PermitsKept DEF Inv
  <1>5. \A b \in Browsers : Quiet(browser[b], browser'[b]) BY Same
  <1>6. browser' \in [Browsers -> BrowserRec] BY <1>1
  <1>7. ~Sighted(j) BY DEF Sighted
  <1> QED BY <1>4, <1>5, <1>6, <1>7, TokenStays

\* A dispatch as the types have it.
LEMMA JobOf ==
  ASSUME TypeOK, NEW j \in Jobs
  PROVE  job[j] \in JobRec(token) /\ token \in Nat \ {0} /\ job[j].b \in Browsers \cup {None}
  <1>1. job[j] \in JobRec(token) /\ token \in Nat \ {0} BY Types
  <1> QED BY <1>1 DEF JobRec

\* An attempt that is given up leaves nothing to rely on.
LEMMA EndedJob ==
  ASSUME TypeOK, NEW j \in Jobs, NEW success \in BOOLEAN, NEW t \in Nat
  PROVE  /\ Ended(j, success) \in JobRec(t)
         /\ Ended(j, success).pc = "write"
         /\ job' = [job EXCEPT ![j] = Ended(j, success)] => AttemptInv(j)'
  <1>1. /\ job[j].instance \in Instances \cup {None} /\ job[j].writes \in Nat
        /\ job[j].marks \in Nat /\ job \in [Jobs -> JobRec(token)]
    BY Types DEF JobRec
  <1>2. None \in 0 .. t BY DEF None
  <1>3. NewJob \in JobRec(t) /\ NewJob.attempt = 1 /\ NewJob.dead = FALSE
    BY <1>2 DEF NewJob, JobRec
  <1>4. /\ Ended(j, success) \in JobRec(t) /\ Ended(j, success).pc = "write"
        /\ Ended(j, success).attempt = 1 /\ Ended(j, success).dead = FALSE
    <2> DEFINE r == [NewJob EXCEPT !.pc = "write", !.instance = job[j].instance]
    <2>1. r \in JobRec(t) /\ r.pc = "write" /\ r.attempt = 1 /\ r.dead = FALSE
      BY <1>1, <1>3 DEF JobRec
    <2>2. Ended(j, success) = [r EXCEPT !.success = success, !.writes = job[j].writes,
                                        !.marks = job[j].marks]
      BY DEF Ended
    <2> HIDE DEF r
    <2> QED BY <1>1, <2>1, <2>2 DEF JobRec
  <1>5. job' = [job EXCEPT ![j] = Ended(j, success)] => job'[j] = Ended(j, success)
    BY <1>1
  <1> QED BY <1>4, <1>5 DEF AttemptInv, Holding

LEMMA DispatchStep == ASSUME Inv, NEW j \in Jobs, NEW i \in Instances, Dispatch(j, i) PROVE Inv'
  <1> DEFINE r == [job[j] EXCEPT !.instance = i,
                                 !.pc = IF r2[i] = "success" THEN "cached" ELSE "wait"]
  <1>1. /\ job[j] \in JobRec(token) /\ job[j].pc = "new" /\ job \in [Jobs -> JobRec(token)]
        /\ r2 \in [Instances -> {"none", "success", "failure"}]
    BY Types DEF Inv, Dispatch
  <1>2. /\ r \in JobRec(token) /\ r.pc \in {"cached", "wait"}
        /\ r.attempt = job[j].attempt /\ r.lastTok = job[j].lastTok /\ r.lastB = job[j].lastB
        /\ r.out = job[j].out
    BY <1>1 DEF JobRec, Working
  <1>3. job' = [job EXCEPT ![j] = r] /\ UNCHANGED <<token, captured, browser, r2, burned, cut>>
    BY DEF Dispatch
  <1> HIDE DEF r
  <1>4. job'[j] = r BY <1>1, <1>3
  <1>5. AttemptInv(j)'
    <2>1. AttemptInv(j) BY DEF Inv
    <2> QED BY <1>1, <1>2, <1>3, <1>4, <2>1 DEF AttemptInv, Holding, Retired
  <1> QED BY <1>1, <1>2, <1>3, <1>5, JobAlone DEF Holding

LEMMA NewPageStep == ASSUME Inv, NEW j \in Jobs, NewPage(j) PROVE Inv'
  <1> DEFINE r == [job[j] EXCEPT !.pc = "scrape"]
  <1>1. /\ job[j] \in JobRec(token) /\ job[j].pc = "page" /\ job \in [Jobs -> JobRec(token)]
        /\ r2 \in [Instances -> {"none", "success", "failure"}]
    BY Types DEF Inv, NewPage
  <1>2. /\ r \in JobRec(token) /\ r.pc = "scrape" /\ r.b = job[j].b /\ r.tok = job[j].tok
        /\ r.attempt = job[j].attempt /\ r.lastTok = job[j].lastTok /\ r.lastB = job[j].lastB
        /\ r.out = job[j].out /\ r.dead = job[j].dead
    BY <1>1 DEF JobRec, Working
  <1>3. job' = [job EXCEPT ![j] = r] /\ UNCHANGED <<token, captured, browser, r2, burned, cut>>
    BY DEF NewPage
  <1> HIDE DEF r
  <1>4. job'[j] = r BY <1>1, <1>3
  <1>5. AttemptInv(j)'
    <2>1. AttemptInv(j) BY DEF Inv
    <2> QED BY <1>1, <1>2, <1>3, <1>4, <2>1 DEF AttemptInv, Holding, Retired
  <1> QED BY <1>1, <1>2, <1>3, <1>5, JobAlone DEF Holding

LEMMA RecordStep == ASSUME Inv, NEW j \in Jobs, WriteR2(j) \/ Emit(j) PROVE Inv'
  <1> DEFINE r == IF job[j].pc = "write" THEN [job[j] EXCEPT !.pc = "emit", !.writes = @ + 1]
                                         ELSE [job[j] EXCEPT !.pc = "done", !.marks = @ + 1]
  <1>1. /\ job[j] \in JobRec(token) /\ job[j].pc \in {"write", "emit"}
        /\ job \in [Jobs -> JobRec(token)]
        /\ r2 \in [Instances -> {"none", "success", "failure"}]
    BY Types DEF Inv, WriteR2, Emit
  <1>2. /\ r \in JobRec(token) /\ r.pc \in {"emit", "done"}
        /\ r.attempt = job[j].attempt /\ r.lastTok = job[j].lastTok /\ r.lastB = job[j].lastB
        /\ r.out = job[j].out /\ r.dead = job[j].dead
    <2>1. CASE job[j].pc = "write"
      <3>1. job[j].writes + 1 \in Nat BY <1>1 DEF JobRec
      <3> QED BY <1>1, <2>1, <3>1 DEF JobRec
    <2>2. CASE job[j].pc = "emit"
      <3>1. job[j].marks + 1 \in Nat BY <1>1 DEF JobRec
      <3> QED BY <1>1, <2>2, <3>1 DEF JobRec
    <2> QED BY <1>1, <2>1, <2>2
  <1>3. job' = [job EXCEPT ![j] = r] /\ UNCHANGED <<token, captured, browser, burned, cut>>
    BY DEF WriteR2, Emit
  <1>4. r2' \in [Instances -> {"none", "success", "failure"}]
    BY <1>1 DEF WriteR2, Emit, Stored
  <1> HIDE DEF r
  <1>5. job'[j] = r BY <1>1, <1>3
  <1>6. AttemptInv(j)'
    <2>1. AttemptInv(j) BY DEF Inv
    <2> QED BY <1>1, <1>2, <1>3, <1>5, <2>1 DEF AttemptInv, Holding, Retired
  <1> QED BY <1>1, <1>2, <1>3, <1>4, <1>6, JobAlone DEF Holding

-----------------------------------------------------------------------------
(* The steps of a dispatch on a browser.                                   *)

LEMMA OneBrowser ==
  ASSUME TypeOK, NEW b \in Browsers, NEW s \in BrowserRec,
         browser' = [browser EXCEPT ![b] = s], Quiet(browser[b], s)
  PROVE  /\ browser' \in [Browsers -> BrowserRec] /\ browser'[b] = s
         /\ \A c \in Browsers \ {b} : browser'[c] = browser[c]
         /\ \A c \in Browsers : Quiet(browser[c], browser'[c])
  <1>1. browser \in [Browsers -> BrowserRec] BY Types
  <1>2. /\ browser' \in [Browsers -> BrowserRec] /\ browser'[b] = s
        /\ \A c \in Browsers \ {b} : browser'[c] = browser[c]
    BY <1>1
  <1> QED BY <1>2, Same

\* A browser that was being opened is lost, and with it the attempt that waited for it.
LEMMA AcquireFailsStep == ASSUME Inv, NEW j \in Jobs, NEW b \in Browsers, AcquireFails(j, b) PROVE Inv'
  <1> DEFINE s == [NoBrowser EXCEPT !.st = "closed"]
  <1>1. /\ TypeOK /\ browser[b] \in BrowserRec /\ token \in Nat \ {0}
        /\ job \in [Jobs -> JobRec(token)]
        /\ r2 \in [Instances -> {"none", "success", "failure"}]
    BY Types DEF Inv
  <1>2. /\ job[j].pc = "wait" /\ job' = [job EXCEPT ![j] = Ended(j, FALSE)]
        /\ browser' = [browser EXCEPT ![b] = s] /\ browser[b].st = "opening"
        /\ UNCHANGED <<token, captured, r2, burned, cut>>
    BY DEF AcquireFails, Thrown
  <1>3. browser[b].users = {} BY <1>2 DEF Inv, Permits
  <1>4. s \in BrowserRec /\ s.users = {} /\ s.st = "closed" /\ s.tunnels = {}
    BY DEF NoBrowser, BrowserRec, None
  <1> HIDE DEF s
  <1>5. Quiet(browser[b], s) BY <1>2, <1>4 DEF Quiet, Evolves
  <1>6. /\ Ended(j, FALSE) \in JobRec(token) /\ Ended(j, FALSE).pc = "write" /\ AttemptInv(j)'
    BY <1>1, <1>2, EndedJob
  <1>7. /\ browser' \in [Browsers -> BrowserRec] /\ browser'[b] = s
        /\ \A c \in Browsers \ {b} : browser'[c] = browser[c]
        /\ \A c \in Browsers : Quiet(browser[c], browser'[c])
    BY <1>1, <1>2, <1>4, <1>5, OneBrowser
  <1>8. Permits'
    <2>1. \A c \in Browsers : /\ browser'[c].users = browser[c].users
                              /\ browser[c].users # {} => browser'[c].st = browser[c].st
      BY <1>3, <1>4, <1>7
    <2>2. \A k \in Jobs : /\ job'[k].pc \in Holding <=> job[k].pc \in Holding
                          /\ job[k].pc \in Holding => job'[k].b = job[k].b
      BY <1>1, <1>2, <1>6 DEF Holding
    <2> QED BY <2>1, <2>2, PermitsKept DEF Inv
  <1>9. ~Sighted(j) BY <1>2 DEF Sighted
  <1> QED BY <1>1, <1>2, <1>6, <1>7, <1>8, <1>9, TokenStays

LEMMA GetStaleStep == ASSUME Inv, NEW j \in Jobs, NEW b \in Browsers, GetStale(j, b) PROVE Inv'
  <1> DEFINE s == Swept(Invalidated(browser[b]))
  <1>1. /\ TypeOK /\ browser[b] \in BrowserRec /\ token \in Nat \ {0}
        /\ job \in [Jobs -> JobRec(token)] /\ burned \subseteq 1 .. token
        /\ cut \subseteq 1 .. token
        /\ r2 \in [Instances -> {"none", "success", "failure"}]
    BY Types DEF Inv
  <1>2. /\ job[j].pc = "wait" /\ job' = [job EXCEPT ![j] = Ended(j, FALSE)]
        /\ browser' = [browser EXCEPT ![b] = s]
        /\ browser[b].st = "up" /\ UNCHANGED <<token, captured, r2, burned, cut>>
    BY DEF GetStale, Thrown, Free, Pooled
  <1>3. s \in BrowserRec /\ Quiet(browser[b], s) /\ s.users = browser[b].users
    BY <1>1, InvalidatedAndSwept
  <1> HIDE DEF s
  <1>4. /\ Ended(j, FALSE) \in JobRec(token) /\ Ended(j, FALSE).pc = "write" /\ AttemptInv(j)'
    BY <1>1, <1>2, EndedJob
  <1>5. /\ browser' \in [Browsers -> BrowserRec] /\ browser'[b] = s
        /\ \A c \in Browsers \ {b} : browser'[c] = browser[c]
        /\ \A c \in Browsers : Quiet(browser[c], browser'[c])
    BY <1>1, <1>2, <1>3, OneBrowser
  <1>6. Permits'
    <2>1. \A c \in Browsers : /\ browser'[c].users = browser[c].users
                              /\ browser[c].users # {} => browser'[c].st = browser[c].st
      BY <1>2, <1>3, <1>5 DEF Quiet, Evolves
    <2>2. \A k \in Jobs : /\ job'[k].pc \in Holding <=> job[k].pc \in Holding
                          /\ job[k].pc \in Holding => job'[k].b = job[k].b
      BY <1>1, <1>2, <1>4 DEF Holding
    <2> QED BY <2>1, <2>2, PermitsKept DEF Inv
  <1>7. ~Sighted(j) BY <1>2 DEF Sighted
  <1> QED BY <1>1, <1>2, <1>4, <1>5, <1>6, <1>7, TokenStays

LEMMA GetDeadStep == ASSUME Inv, NEW j \in Jobs, NEW b \in Browsers, GetDead(j, b) PROVE Inv'
  <1> DEFINE s == Swept(Invalidated(browser[b]))
             r == [job[j] EXCEPT !.pc = "observe", !.b = b, !.tok = token, !.dead = TRUE]
  <1>1. /\ TypeOK /\ browser[b] \in BrowserRec /\ token \in Nat \ {0}
        /\ job \in [Jobs -> JobRec(token)] /\ burned \subseteq 1 .. token
        /\ cut \subseteq 1 .. token
        /\ r2 \in [Instances -> {"none", "success", "failure"}]
    BY Types DEF Inv
  <1>2. /\ job[j].pc = "wait" /\ job' = [job EXCEPT ![j] = r]
        /\ browser' = [browser EXCEPT ![b] = s]
        /\ browser[b].st = "up" /\ burned' = burned \cup {token}
        /\ UNCHANGED <<token, captured, r2, cut>>
    BY DEF GetDead, Free, Pooled
  <1>3. /\ s \in BrowserRec /\ Quiet(browser[b], s) /\ s.users = browser[b].users
        /\ s.st = "closed" \/ (s.st = "up" /\ s.invalid)
    BY <1>1, <1>2, InvalidatedAndSwept
  <1> HIDE DEF s
  <1>4. /\ r \in JobRec(token) /\ r.pc = "observe" /\ r.b = b /\ r.tok = token /\ r.dead
        /\ r.attempt = job[j].attempt /\ r.lastB = job[j].lastB /\ r.lastTok = job[j].lastTok
        /\ r.out = job[j].out
    <2>1. job[j] \in JobRec(token) /\ token \in 0 .. token BY <1>1
    <2> QED BY <2>1 DEF JobRec, Working
  <1> HIDE DEF r
  <1>5. /\ browser' \in [Browsers -> BrowserRec] /\ browser'[b] = s
        /\ \A c \in Browsers \ {b} : browser'[c] = browser[c]
        /\ \A c \in Browsers : Quiet(browser[c], browser'[c])
    BY <1>1, <1>2, <1>3, OneBrowser
  <1>6. job'[j] = r BY <1>1, <1>2
  <1>7. Permits'
    <2>1. \A c \in Browsers : /\ browser'[c].users = browser[c].users
                              /\ browser[c].users # {} => browser'[c].st = browser[c].st
      BY <1>2, <1>3, <1>5 DEF Quiet, Evolves
    <2>2. \A k \in Jobs : /\ job'[k].pc \in Holding <=> job[k].pc \in Holding
                          /\ job[k].pc \in Holding => job'[k].b = job[k].b
      BY <1>1, <1>2, <1>4 DEF Holding
    <2> QED BY <2>1, <2>2, PermitsKept DEF Inv
  <1>8. AttemptInv(j)'
    <2>1. AttemptInv(j) BY DEF Inv
    <2>2. Retired(b)' BY <1>3, <1>5 DEF Retired
    <2>3. ASSUME NEW c \in Browsers, Retired(c) PROVE Retired(c)'
      BY <1>5, <2>3 DEF Retired, Quiet, Evolves
    <2> QED BY <1>1, <1>2, <1>4, <1>6, <2>1, <2>2, <2>3 DEF AttemptInv, Holding
  <1>9. Sighted(j)' /\ job'[j].tok = token BY <1>4, <1>6 DEF Sighted
  <1>10. /\ token' \in Nat /\ token <= token' /\ r \in JobRec(token')
         /\ burned' \subseteq 1 .. token' /\ cut' \subseteq 1 .. token'
    BY <1>1, <1>2, <1>4
  <1>11. BurnedTokenLeft'
    <2>1. \A k \in Jobs \ {j} : job'[k] = job[k] BY <1>1, <1>2
    <2> QED BY <1>2, <1>9, <2>1, SightingKept DEF Inv
  <1> QED BY <1>1, <1>2, <1>5, <1>7, <1>8, <1>10, <1>11, JobStep

LEMMA GetStep == ASSUME Inv, NEW j \in Jobs, NEW b \in Browsers, Get(j, b) PROVE Inv'
  <1> DEFINE s == [browser[b] EXCEPT !.users = @ \cup {j}]
             r == [job[j] EXCEPT !.pc = "page", !.b = b, !.tok = token]
  <1>1. /\ TypeOK /\ browser[b] \in BrowserRec /\ token \in Nat \ {0}
        /\ job \in [Jobs -> JobRec(token)] /\ burned \subseteq 1 .. token
        /\ cut \subseteq 1 .. token
        /\ r2 \in [Instances -> {"none", "success", "failure"}]
    BY Types DEF Inv
  <1>2. /\ job[j].pc = "wait" /\ job' = [job EXCEPT ![j] = r]
        /\ browser' = [browser EXCEPT ![b] = s]
        /\ browser[b].st = "up" /\ ~browser[b].invalid
        /\ Cardinality(browser[b].users) < TabsPerBrowser
        /\ UNCHANGED <<token, captured, r2, burned, cut>>
    BY DEF Get, Free, Pooled
  <1>3. /\ s \in BrowserRec /\ s.users = browser[b].users \cup {j}
        /\ s.st = "up" /\ s.invalid = browser[b].invalid
        /\ s.tunnels = browser[b].tunnels /\ s.latest = browser[b].latest
    BY <1>1, <1>2 DEF BrowserRec
  <1> HIDE DEF s
  <1>4. /\ r \in JobRec(token) /\ r.pc = "page" /\ r.b = b /\ r.tok = token /\ r.dead = job[j].dead
        /\ r.attempt = job[j].attempt /\ r.lastB = job[j].lastB /\ r.lastTok = job[j].lastTok
        /\ r.out = job[j].out
    <2>1. job[j] \in JobRec(token) /\ token \in 0 .. token BY <1>1
    <2> QED BY <2>1 DEF JobRec, Working
  <1> HIDE DEF r
  <1>5. /\ browser' \in [Browsers -> BrowserRec] /\ browser'[b] = s
        /\ \A c \in Browsers \ {b} : browser'[c] = browser[c]
        /\ \A c \in Browsers : Quiet(browser[c], browser'[c])
    <2>1. Quiet(browser[b], s) BY <1>2, <1>3 DEF Quiet, Evolves
    <2> QED BY <1>1, <1>2, <1>3, <2>1, OneBrowser
  <1>6. job'[j] = r /\ \A k \in Jobs \ {j} : job'[k] = job[k] BY <1>1, <1>2
  <1>7. Permits'
    <2>1. Permits BY DEF Inv
    <2>2. ASSUME NEW k \in Jobs, NEW c \in Browsers
          PROVE  k \in browser'[c].users <=> job'[k].pc \in Holding /\ job'[k].b = c
      BY <1>2, <1>3, <1>4, <1>5, <1>6, <2>1 DEF Permits, Holding
    <2>3. ASSUME NEW c \in Browsers
          PROVE  /\ browser'[c].users # {} => browser'[c].st = "up"
                 /\ IsFiniteSet(browser'[c].users)
                 /\ Cardinality(browser'[c].users) <= TabsPerBrowser
      <3>1. CASE c # b BY <1>5, <2>1, <3>1 DEF Permits
      <3>2. CASE c = b
        <4>1. IsFiniteSet(browser[b].users) /\ j \notin browser[b].users
          BY <1>2, <2>1 DEF Permits, Holding
        <4>2. /\ IsFiniteSet(s.users) /\ Cardinality(s.users) = Cardinality(browser[b].users) + 1
          BY <1>3, <4>1, FS_AddElement
        <4>3. Cardinality(browser[b].users) \in Nat BY <4>1, FS_CardinalityType
        <4>4. browser'[c] = s BY <1>5, <3>2
        <4>5. Cardinality(browser[b].users) + 1 <= TabsPerBrowser
          BY <1>2, <4>3, DispatchAssumption DEF DispatchAssumption
        <4> QED BY <1>3, <4>2, <4>4, <4>5
      <3> QED BY <3>1, <3>2
    <2> QED BY <2>2, <2>3 DEF Permits
  <1>8. AttemptInv(j)'
    <2>1. AttemptInv(j) BY DEF Inv
    <2>2. ~Retired(b) BY <1>2 DEF Retired
    <2>3. ASSUME NEW c \in Browsers, Retired(c) PROVE Retired(c)'
      BY <1>5, <2>3 DEF Retired, Quiet, Evolves
    <2> QED BY <1>1, <1>2, <1>4, <1>6, <2>1, <2>2, <2>3 DEF AttemptInv, Holding
  <1>9. ~Sighted(j) BY <1>2 DEF Sighted
  <1> QED BY <1>1, <1>2, <1>4, <1>5, <1>7, <1>8, <1>9, TokenStays

\* A permit is given back: of all browsers, the attempt's own loses a user.
LEMMA OnlyItsOwn ==
  ASSUME Inv, NEW j \in Jobs, NEW c \in Browsers, ~(job[j].pc \in Holding /\ job[j].b = c)
  PROVE  browser[c].users \ {j} = browser[c].users
  BY DEF Inv, Permits

LEMMA NewPageFailsStep == ASSUME Inv, NEW j \in Jobs, NewPageFails(j) PROVE Inv'
  <1> DEFINE b == job[j].b
             s == Swept(Returned(Invalidated(browser[b]), j))
  <1>0. AttemptInv(j) BY DEF Inv
  <1>1. /\ TypeOK /\ b \in Browsers /\ browser[b] \in BrowserRec /\ token \in Nat \ {0}
        /\ job \in [Jobs -> JobRec(token)] /\ burned \subseteq 1 .. token
        /\ cut \subseteq 1 .. token
        /\ r2 \in [Instances -> {"none", "success", "failure"}]
    BY <1>0, Types DEF Inv, AttemptInv, Holding, NewPageFails
  <1>2. /\ job[j].pc = "page" /\ job' = [job EXCEPT ![j] = Ended(j, FALSE)]
        /\ browser' = [browser EXCEPT ![b] = s]
        /\ UNCHANGED <<token, captured, r2, burned, cut>>
    BY DEF NewPageFails, Thrown
  <1>3. s \in BrowserRec /\ Quiet(browser[b], s) /\ s.users = browser[b].users \ {j}
    BY <1>1, FailedAndSwept
  <1> HIDE DEF s, b
  <1>4. /\ Ended(j, FALSE) \in JobRec(token) /\ Ended(j, FALSE).pc = "write" /\ AttemptInv(j)'
    BY <1>1, <1>2, EndedJob
  <1>5. /\ browser' \in [Browsers -> BrowserRec] /\ browser'[b] = s
        /\ \A c \in Browsers \ {b} : browser'[c] = browser[c]
        /\ \A c \in Browsers : Quiet(browser[c], browser'[c])
    BY <1>1, <1>2, <1>3, OneBrowser
  <1>6. Permits'
    <2>1. /\ \A k \in Jobs \ {j} : job'[k] = job[k]
          /\ job'[j].pc \notin Holding
      BY <1>1, <1>2, <1>4 DEF Holding
    <2>2. \A c \in Browsers : browser'[c].users = browser[c].users \ {j}
      BY <1>3, <1>5, OnlyItsOwn DEF b
    <2>3. \A c \in Browsers :
            browser'[c].users # {} /\ browser[c].st = "up" => browser'[c].st = "up"
      BY <1>5 DEF Quiet, Evolves
    <2> QED BY <2>1, <2>2, <2>3, PermitReturned DEF Inv
  <1>7. ~Sighted(j) BY <1>2 DEF Sighted
  <1> QED BY <1>1, <1>2, <1>4, <1>5, <1>6, <1>7, TokenStays

LEMMA DeadlineStep == ASSUME Inv, NEW j \in Jobs, Deadline(j) PROVE Inv'
  <1>1. /\ TypeOK /\ token \in Nat \ {0} /\ browser \in [Browsers -> BrowserRec]
        /\ job \in [Jobs -> JobRec(token)] /\ burned \subseteq 1 .. token
        /\ cut \subseteq 1 .. token
        /\ r2 \in [Instances -> {"none", "success", "failure"}]
    BY Types DEF Inv
  <1>2. /\ job' = [job EXCEPT ![j] = Ended(j, FALSE)]
        /\ browser' = [b \in Browsers |-> IF j \in browser[b].users
                                          THEN Swept(Returned(browser[b], j)) ELSE browser[b]]
        /\ cut' = (IF Sighted(j) THEN cut \cup {job[j].tok} ELSE cut)
        /\ UNCHANGED <<token, captured, r2, burned>>
    BY DEF Deadline, Thrown
  <1>3. /\ Ended(j, FALSE) \in JobRec(token) /\ Ended(j, FALSE).pc = "write" /\ AttemptInv(j)'
    BY <1>1, <1>2, EndedJob
  <1>4. ASSUME NEW b \in Browsers
        PROVE  /\ browser'[b] \in BrowserRec /\ Quiet(browser[b], browser'[b])
               /\ browser'[b].users = browser[b].users \ {j}
    <2>1. browser[b] \in BrowserRec BY <1>1
    <2>2. CASE j \in browser[b].users BY <1>2, <2>1, <2>2, ReturnedAndSwept
    <2>3. CASE j \notin browser[b].users BY <1>2, <2>1, <2>3, Same
    <2> QED BY <2>2, <2>3
  <1>5. browser' \in [Browsers -> BrowserRec] BY <1>2, <1>4
  <1>6. Permits'
    <2>1. /\ \A k \in Jobs \ {j} : job'[k] = job[k]
          /\ job'[j].pc \notin Holding
      BY <1>1, <1>2, <1>3 DEF Holding
    <2>2. \A c \in Browsers :
            browser'[c].users # {} /\ browser[c].st = "up" => browser'[c].st = "up"
      BY <1>4 DEF Quiet, Evolves
    <2> QED BY <1>4, <2>1, <2>2, PermitReturned DEF Inv
  <1>7. /\ cut \subseteq cut'
        /\ Sighted(j) => job[j].tok \in cut'
    BY <1>2
  <1>8. BurnedTokenLeft'
    <2>1. \A k \in Jobs \ {j} : job'[k] = job[k] BY <1>1, <1>2
    <2> QED BY <1>2, <1>7, <2>1, SightingKept DEF Inv
  <1>9. /\ token' \in Nat /\ token <= token' /\ Ended(j, FALSE) \in JobRec(token')
        /\ burned' \subseteq 1 .. token' /\ cut' \subseteq 1 .. token'
    <2>1. Sighted(j) => job[j].tok \in 1 .. token
      <3>1. job[j] \in JobRec(token) /\ AttemptInv(j) BY <1>1 DEF Inv
      <3> QED BY <1>1, <3>1 DEF Sighted, AttemptInv, Holding, JobRec
    <2>2. cut' \subseteq 1 .. token
      <3>1. CASE Sighted(j) BY <1>1, <1>2, <2>1, <3>1
      <3>2. CASE ~Sighted(j) BY <1>1, <1>2, <3>2
      <3> QED BY <3>1, <3>2
    <2>3. token' = token /\ burned' = burned BY <1>2
    <2>4. token' \in Nat /\ token <= token' BY <1>1, <2>3
    <2>5. Ended(j, FALSE) \in JobRec(token') BY <1>3, <2>3
    <2>6. burned' \subseteq 1 .. token' /\ cut' \subseteq 1 .. token' BY <1>1, <2>2, <2>3
    <2> QED BY <2>4, <2>5, <2>6
  <1> QED BY <1>1, <1>2, <1>3, <1>4, <1>5, <1>6, <1>8, <1>9, JobStep

LEMMA TeardownStep == ASSUME Inv, NEW j \in Jobs, Teardown(j) PROVE Inv'
  <1> DEFINE b == job[j].b
             bad == ~Succeeded(j) \/ browser[b].stale
             s == Swept(Returned(IF bad THEN Invalidated(browser[b]) ELSE browser[b], j))
             r == [job[j] EXCEPT !.pc = "observe", !.success = Succeeded(j)]
  <1>0. AttemptInv(j) BY DEF Inv
  <1>1. /\ TypeOK /\ b \in Browsers /\ browser[b] \in BrowserRec /\ token \in Nat \ {0}
        /\ job \in [Jobs -> JobRec(token)] /\ burned \subseteq 1 .. token
        /\ cut \subseteq 1 .. token
        /\ r2 \in [Instances -> {"none", "success", "failure"}]
    BY <1>0, Types DEF Inv, AttemptInv, Holding, Teardown
  <1>2. /\ job[j].pc = "close" /\ job' = [job EXCEPT ![j] = r]
        /\ browser' = [browser EXCEPT ![b] = s]
        /\ UNCHANGED <<token, captured, r2, burned, cut>>
    BY DEF Teardown
  <1>9. browser[b].st = "up"
    BY <1>1, <1>2 DEF Inv, Permits, Holding
  <1>3. /\ s \in BrowserRec /\ Quiet(browser[b], s) /\ s.users = browser[b].users \ {j}
        /\ ~Succeeded(j) => s.st = "closed" \/ (s.st = "up" /\ s.invalid)
    <2>1. CASE bad BY <1>1, <1>9, <2>1, FailedAndSwept
    <2>2. CASE ~bad BY <1>1, <2>2, ReturnedAndSwept
    <2> QED BY <2>1, <2>2
  <1>4. /\ r \in JobRec(token) /\ r.pc = "observe" /\ r.b = job[j].b /\ r.tok = job[j].tok
        /\ r.dead = job[j].dead /\ r.attempt = job[j].attempt /\ r.lastB = job[j].lastB
        /\ r.lastTok = job[j].lastTok /\ r.out = job[j].out /\ r.rode = job[j].rode
    <2>1. job[j] \in JobRec(token) /\ Succeeded(j) \in BOOLEAN BY <1>1 DEF Succeeded
    <2> QED BY <2>1 DEF JobRec, Working
  <1> HIDE DEF s, b, r
  <1>5. /\ browser' \in [Browsers -> BrowserRec] /\ browser'[b] = s
        /\ \A c \in Browsers \ {b} : browser'[c] = browser[c]
        /\ \A c \in Browsers : Quiet(browser[c], browser'[c])
    BY <1>1, <1>2, <1>3, OneBrowser
  <1>6. job'[j] = r /\ \A k \in Jobs \ {j} : job'[k] = job[k] BY <1>1, <1>2
  <1>7. Permits'
    <2>1. job'[j].pc \notin Holding BY <1>4, <1>6 DEF Holding
    <2>2. \A c \in Browsers : browser'[c].users = browser[c].users \ {j}
      BY <1>3, <1>5, OnlyItsOwn DEF b
    <2>3. \A c \in Browsers :
            browser'[c].users # {} /\ browser[c].st = "up" => browser'[c].st = "up"
      BY <1>5 DEF Quiet, Evolves
    <2> QED BY <1>6, <2>1, <2>2, <2>3, PermitReturned DEF Inv
  <1>8. AttemptInv(j)'
    <2>1. Succeeded(j)' = Succeeded(j)
      BY <1>4, <1>6 DEF Succeeded, scrapeError
    <2>2. ~Succeeded(j) => Retired(job[j].b)'
      BY <1>3, <1>4, <1>5, <1>6 DEF Retired, b
    <2>3. ASSUME NEW c \in Browsers, Retired(c) PROVE Retired(c)'
      BY <1>5, <2>3 DEF Retired, Quiet, Evolves
    <2> QED BY <1>0, <1>1, <1>2, <1>4, <1>6, <2>1, <2>2, <2>3 DEF AttemptInv, Holding, b
  <1>10. Sighted(j) => Sighted(j)' /\ r.tok = job[j].tok BY <1>4, <1>6 DEF Sighted
  <1> QED BY <1>1, <1>2, <1>4, <1>5, <1>7, <1>8, <1>10, TokenStays

\* A block that a scrape has seen is not a candidate for the second probe.
LEMMA BlockIsNoCandidate == \A o : BlockSeen(o) => ~isEgressDeathCandidate(o)
  BY DEF BlockSeen, isEgressDeathCandidate

LEMMA ScrapeStep == ASSUME Inv, NEW j \in Jobs, Scrape(j) PROVE Inv'
  <1> DEFINE b == job[j].b
  <1>0. AttemptInv(j) BY DEF Inv
  <1>1. /\ TypeOK /\ b \in Browsers /\ browser[b] \in BrowserRec /\ token \in Nat \ {0}
        /\ job[j].tok \in 1 .. token
        /\ job \in [Jobs -> JobRec(token)] /\ burned \subseteq 1 .. token
        /\ cut \subseteq 1 .. token
        /\ r2 \in [Instances -> {"none", "success", "failure"}]
    <2>1. job[j] \in JobRec(token) /\ b \in Browsers /\ job[j].tok # 0 /\ token \in Nat \ {0}
      BY <1>0, Types DEF Inv, AttemptInv, Holding, Scrape
    <2>2. job[j].tok \in 1 .. token BY <2>1 DEF JobRec
    <2> QED BY <2>1, <2>2, Types DEF Inv
  <1>2. PICK o \in Observations, rode \in browser[b].tunnels \cup {None} :
          /\ browser' = [browser EXCEPT ![b].egress = @ /\ ~isObservedProxyDeath(o)]
          /\ job' = [job EXCEPT ![j].out = o, ![j].rode = rode,
                       ![j].dead = isObservedProxyDeath(o),
                       ![j].pc = IF ~isObservedProxyDeath(o) /\ isEgressDeathCandidate(o)
                                 THEN "probe" ELSE "close"]
          /\ burned' = IF isObservedProxyDeath(o) \/ BlockSeen(o)
                       THEN burned \cup {job[j].tok} ELSE burned
    BY DEF Scrape
  <1>3. job[j].pc = "scrape" /\ UNCHANGED <<token, captured, r2, cut>> BY DEF Scrape
  <1> DEFINE died == isObservedProxyDeath(o)
             egress == browser[b].egress /\ ~died
             pc == IF ~died /\ isEgressDeathCandidate(o) THEN "probe" ELSE "close"
             s == [browser[b] EXCEPT !.egress = egress]
             r == [job[j] EXCEPT !.out = o, !.rode = rode, !.dead = died, !.pc = pc]
  <1>4. /\ died \in BOOLEAN /\ egress \in BOOLEAN /\ rode \in Nat
    <2>1. died \in BOOLEAN BY DEF isObservedProxyDeath
    <2>2. egress \in BOOLEAN BY Zenon
    <2>3. rode \in Nat BY <1>1, <1>2 DEF BrowserRec, None
    <2> QED BY <2>1, <2>2, <2>3
  <1>5. /\ died => o.page # "ok"
        /\ pc \in {"probe", "close"}
        /\ pc = "probe" => o.page # "ok"
        /\ died \/ BlockSeen(o) => pc = "close"
    BY BlockIsNoCandidate DEF isObservedProxyDeath, isEgressDeathCandidate
  <1>6. browser' = [browser EXCEPT ![b] = s] /\ job' = [job EXCEPT ![j] = r]
    BY <1>2
  <1> HIDE DEF egress, pc
  <1>7. /\ s \in BrowserRec /\ s.users = browser[b].users /\ s.st = browser[b].st
        /\ s.invalid = browser[b].invalid /\ s.tunnels = browser[b].tunnels
        /\ s.latest = browser[b].latest /\ s.tok = browser[b].tok
    BY <1>1, <1>4 DEF BrowserRec
  <1>8. Quiet(browser[b], s) BY <1>7 DEF Quiet, Evolves
  <1> HIDE DEF s, died
  <1>9. /\ r \in JobRec(token) /\ r.pc = pc /\ r.b = job[j].b /\ r.tok = job[j].tok
        /\ r.dead = died /\ r.attempt = job[j].attempt /\ r.lastB = job[j].lastB
        /\ r.lastTok = job[j].lastTok /\ r.out = o /\ r.rode = rode
    <2>1. job[j] \in JobRec(token) BY <1>1
    <2> QED BY <1>4, <1>5, <2>1 DEF JobRec, Working
  <1> HIDE DEF r, b
  <1>10. /\ browser' \in [Browsers -> BrowserRec] /\ browser'[b] = s
         /\ \A c \in Browsers \ {b} : browser'[c] = browser[c]
         /\ \A c \in Browsers : Quiet(browser[c], browser'[c])
    BY <1>1, <1>6, <1>7, <1>8, OneBrowser
  <1>11. job'[j] = r /\ \A k \in Jobs \ {j} : job'[k] = job[k] BY <1>1, <1>6
  <1>12. Permits'
    <2>1. \A c \in Browsers : /\ browser'[c].users = browser[c].users
                              /\ browser[c].users # {} => browser'[c].st = browser[c].st
      BY <1>7, <1>10
    <2>2. \A k \in Jobs : /\ job'[k].pc \in Holding <=> job[k].pc \in Holding
                          /\ job[k].pc \in Holding => job'[k].b = job[k].b
      BY <1>3, <1>5, <1>9, <1>11 DEF Holding
    <2> QED BY <2>1, <2>2, PermitsKept DEF Inv
  <1>13. /\ token' \in Nat /\ token <= token' /\ r \in JobRec(token')
         /\ burned' \subseteq 1 .. token' /\ cut' \subseteq 1 .. token'
    BY <1>1, <1>2, <1>3, <1>9
  <1>14. AttemptInv(j)'
    <2>1. ASSUME NEW c \in Browsers, Retired(c) PROVE Retired(c)'
      BY <1>10, <2>1 DEF Retired, Quiet, Evolves
    <2>2. rode # None => rode \in browser'[job'[j].b].tunnels
      BY <1>2, <1>7, <1>9, <1>10, <1>11 DEF b
    <2>3. job'[j].pc \in {"probe", "close"} BY <1>5, <1>9, <1>11
    <2> QED BY <1>0, <1>1, <1>3, <1>5, <1>9, <1>11, <2>1, <2>2, <2>3 DEF AttemptInv, Holding, b
  <1>15. BurnedTokenLeft'
    <2>1. ~Sighted(j) BY <1>3 DEF Sighted
    <2>2. died \/ BlockSeen(o) => Sighted(j)' /\ job'[j].tok = job[j].tok
      BY <1>5, <1>9, <1>11 DEF Sighted
    <2>3. burned' = IF died \/ BlockSeen(o) THEN burned \cup {job[j].tok} ELSE burned
      BY <1>2 DEF died
    <2>4. token \in burned' => token \in burned \/ (Sighted(j)' /\ job'[j].tok = token)
      BY <2>2, <2>3
    <2> QED BY <1>3, <1>11, <2>1, <2>4, SightingKept DEF Inv
  <1> QED BY <1>1, <1>3, <1>6, <1>10, <1>12, <1>13, <1>14, <1>15, JobStep

LEMMA ProbeStep == ASSUME Inv, NEW j \in Jobs, Probe(j) PROVE Inv'
  <1> DEFINE b == job[j].b
  <1>0. AttemptInv(j) BY DEF Inv
  <1>1. /\ TypeOK /\ b \in Browsers /\ browser[b] \in BrowserRec /\ token \in Nat \ {0}
        /\ job \in [Jobs -> JobRec(token)] /\ burned \subseteq 1 .. token
        /\ cut \subseteq 1 .. token
        /\ r2 \in [Instances -> {"none", "success", "failure"}]
    BY <1>0, Types DEF Inv, AttemptInv, Holding, Probe
  <1>2. PICK alive \in BOOLEAN :
          /\ browser' = [browser EXCEPT ![b].egress = alive]
          /\ job' = [job EXCEPT ![j].dead = ~alive, ![j].pc = "close"]
          /\ burned' = IF alive THEN burned ELSE burned \cup {job[j].tok}
    BY DEF Probe
  <1>3. job[j].pc = "probe" /\ UNCHANGED <<token, captured, r2, cut>> BY DEF Probe
  <1> DEFINE s == [browser[b] EXCEPT !.egress = alive]
             r == [job[j] EXCEPT !.dead = ~alive, !.pc = "close"]
  <1>6. browser' = [browser EXCEPT ![b] = s] /\ job' = [job EXCEPT ![j] = r]
    BY <1>2
  <1>7. /\ s \in BrowserRec /\ s.users = browser[b].users /\ s.st = browser[b].st
        /\ s.invalid = browser[b].invalid /\ s.tunnels = browser[b].tunnels
        /\ s.latest = browser[b].latest /\ s.tok = browser[b].tok
    BY <1>1 DEF BrowserRec
  <1>8. Quiet(browser[b], s) BY <1>7 DEF Quiet, Evolves
  <1> HIDE DEF s
  <1>9. /\ r \in JobRec(token) /\ r.pc = "close" /\ r.b = job[j].b /\ r.tok = job[j].tok
        /\ r.attempt = job[j].attempt /\ r.lastB = job[j].lastB
        /\ r.lastTok = job[j].lastTok /\ r.out = job[j].out /\ r.rode = job[j].rode
        /\ r.dead = ~alive
    <2>1. job[j] \in JobRec(token) BY <1>1
    <2> QED BY <2>1 DEF JobRec, Working
  <1> HIDE DEF r, b
  <1>10. /\ browser' \in [Browsers -> BrowserRec] /\ browser'[b] = s
         /\ \A c \in Browsers \ {b} : browser'[c] = browser[c]
         /\ \A c \in Browsers : Quiet(browser[c], browser'[c])
    BY <1>1, <1>6, <1>7, <1>8, OneBrowser
  <1>11. job'[j] = r /\ \A k \in Jobs \ {j} : job'[k] = job[k] BY <1>1, <1>6
  <1>12. Permits'
    <2>1. \A c \in Browsers : /\ browser'[c].users = browser[c].users
                              /\ browser[c].users # {} => browser'[c].st = browser[c].st
      BY <1>7, <1>10
    <2>2. \A k \in Jobs : /\ job'[k].pc \in Holding <=> job[k].pc \in Holding
                          /\ job[k].pc \in Holding => job'[k].b = job[k].b
      BY <1>3, <1>9, <1>11 DEF Holding
    <2> QED BY <2>1, <2>2, PermitsKept DEF Inv
  <1>14. AttemptInv(j)'
    <2>1. ASSUME NEW c \in Browsers, Retired(c) PROVE Retired(c)'
      BY <1>10, <2>1 DEF Retired, Quiet, Evolves
    <2>2. browser'[job[j].b].tunnels = browser[job[j].b].tunnels
      BY <1>7, <1>10 DEF b
    <2> QED BY <1>0, <1>1, <1>3, <1>9, <1>11, <2>1, <2>2 DEF AttemptInv, Holding, b
  <1>15. /\ token' \in Nat /\ token <= token' /\ r \in JobRec(token')
         /\ burned' \subseteq 1 .. token' /\ cut' \subseteq 1 .. token'
    <2>1. job[j].tok \in 1 .. token
      <3>1. job[j] \in JobRec(token) BY <1>1
      <3> QED BY <1>0, <1>1, <1>3, <3>1 DEF AttemptInv, Holding, JobRec
    <2> QED BY <1>1, <1>2, <1>3, <1>9, <2>1
  <1>16. BurnedTokenLeft'
    <2>1. ~Sighted(j) BY <1>3 DEF Sighted
    <2>2. ~alive => Sighted(j)' /\ job'[j].tok = job[j].tok
      BY <1>9, <1>11 DEF Sighted
    <2> QED BY <1>2, <1>3, <1>11, <2>1, <2>2, SightingKept DEF Inv
  <1> QED BY <1>1, <1>3, <1>6, <1>10, <1>12, <1>14, <1>15, <1>16, JobStep

\* What the classification of an outcome has to say of a success and of a dead egress.
LEMMA Classified ==
  /\ ~isBlockTrigger(NoError)
  /\ isBlockTrigger(EgressDead) /\ EgressDead # NoError
  /\ \A o : o.page = "ok" => parseResult(o) = NoError
  BY DEF isBlockTrigger, NoError, EgressDead, Err, parseResult

\* Every sighting of a block is one that rotates the token.
LEMMA BlockRotates ==
  ASSUME NEW o, BlockSeen(o)
  PROVE  isBlockTrigger(parseResult(o))
  <1>1. CASE o.page = "none" /\ o.status = "pending"
    <2>1. parseResult(o) = Err("TurnstileTimeoutError", "pending") BY <1>1 DEF parseResult
    <2> QED BY <2>1 DEF isBlockTrigger, Err
  <1>2. CASE o.page = "cfError"
    <2>1. parseResult(o) = Err("ApiError", "cfBlocked") BY <1>2 DEF parseResult
    <2> QED BY <2>1 DEF isBlockTrigger, Err
  <1>3. CASE o.page = "captchaError"
    <2>1. parseResult(o) = Err("ApiError", "InvalidCaptcha") BY <1>3 DEF parseResult
    <2> QED BY <2>1 DEF isBlockTrigger, Err
  <1>4. CASE o.page = "listCfError"
    <2>1. parseResult(o) = Err("BacklinksFetchFailed", "isCf") BY <1>4 DEF parseResult
    <2> QED BY <2>1 DEF isBlockTrigger, Err
  <1>5. CASE o.page = "rateLimited"
    <2>1. parseResult(o) = Err("RateLimitedError", "") BY <1>5 DEF parseResult
    <2>2. \A tag, why : Err(tag, why).tag = tag BY DEF Err
    <2>3. parseResult(o).tag = "RateLimitedError" BY <2>1, <2>2
    <2> QED BY <2>3 DEF isBlockTrigger
  <1> QED BY <1>1, <1>2, <1>3, <1>4, <1>5 DEF BlockSeen

LEMMA BlockedAttempt ==
  ASSUME NEW j \in Jobs, AttemptInv(j)
  PROVE  /\ Sighted(j) => isBlockTrigger(scrapeError(j))
         /\ isBlockTrigger(scrapeError(j)) => ~Succeeded(j) /\ job[j].out.page # "ok"
  BY Classified, BlockRotates DEF AttemptInv, scrapeError, Succeeded, Sighted

LEMMA ObserveStep == ASSUME Inv, NEW j \in Jobs, Observe(j) PROVE Inv'
  <1> DEFINE blocked == isBlockTrigger(scrapeError(j))
             again == [NewJob EXCEPT !.pc = "wait", !.instance = job[j].instance, !.attempt = 2,
                                     !.lastB = job[j].b, !.lastTok = job[j].tok]
  <1>0. AttemptInv(j) /\ Permits BY DEF Inv
  <1>1. /\ TypeOK /\ job[j].b \in Browsers /\ token \in Nat \ {0}
        /\ job[j].tok \in 1 .. token
        /\ job \in [Jobs -> JobRec(token)]
        /\ burned \subseteq 1 .. token /\ cut \subseteq 1 .. token
        /\ browser \in [Browsers -> BrowserRec]
        /\ r2 \in [Instances -> {"none", "success", "failure"}]
    <2>1. /\ job[j] \in JobRec(token) /\ job[j].b \in Browsers /\ job[j].tok # 0
          /\ token \in Nat \ {0}
      BY <1>0, Types DEF Inv, AttemptInv, Observe
    <2>2. job[j].tok \in 1 .. token BY <2>1 DEF JobRec
    <2> QED BY <2>1, <2>2, Types DEF Inv
  <1>2. /\ job[j].pc = "observe"
        /\ token' = IF blocked THEN token + 1 ELSE token
        /\ job' = [job EXCEPT ![j] = IF blocked /\ job[j].attempt = 1 THEN again
                                     ELSE Ended(j, Succeeded(j))]
        /\ UNCHANGED <<captured, browser, r2, burned, cut>>
    BY DEF Observe, observe
  <1>3. Sighted(j) => blocked BY <1>0, BlockedAttempt
  <1>4. blocked => ~Succeeded(j) BY <1>0, BlockedAttempt
  <1> HIDE DEF blocked
  <1>5. /\ token' \in Nat /\ token <= token'
        /\ burned' \subseteq 1 .. token' /\ cut' \subseteq 1 .. token'
    BY <1>1, <1>2
  <1>9. BurnedTokenLeft'
    <2>1. CASE blocked
      <3>1. token' = token + 1 /\ burned' = burned BY <1>2, <2>1
      <3>2. token' \notin burned' BY <1>1, <3>1
      <3> QED BY <3>2 DEF BurnedTokenLeft
    <2>2. CASE ~blocked
      <3>1. token' = token /\ ~Sighted(j) BY <1>2, <1>3, <2>2
      <3>2. \A k \in Jobs \ {j} : job'[k] = job[k] BY <1>1, <1>2
      <3> QED BY <1>2, <3>1, <3>2, SightingKept DEF Inv
    <2> QED BY <2>1, <2>2
  <1>6. /\ browser' \in [Browsers -> BrowserRec]
        /\ \A b \in Browsers : Quiet(browser[b], browser'[b])
    BY <1>1, <1>2, Same
  <1>7. CASE ~(blocked /\ job[j].attempt = 1)
    <2>1. Succeeded(j) \in BOOLEAN BY DEF Succeeded
    <2>2. /\ Ended(j, Succeeded(j)) \in JobRec(token') /\ Ended(j, Succeeded(j)).pc = "write"
          /\ job' = [job EXCEPT ![j] = Ended(j, Succeeded(j))] /\ AttemptInv(j)'
      BY <1>1, <1>2, <1>5, <1>7, <2>1, EndedJob
    <2>3. Permits'
      <3>1. \A k \in Jobs : /\ job'[k].pc \in Holding <=> job[k].pc \in Holding
                            /\ job[k].pc \in Holding => job'[k].b = job[k].b
        BY <1>1, <1>2, <2>2 DEF Holding
      <3> QED BY <1>0, <1>2, <3>1, PermitsKept
    <2> QED BY <1>1, <1>2, <1>5, <1>6, <1>9, <2>2, <2>3, JobStep
  <1>8. CASE blocked /\ job[j].attempt = 1
    <2>1. /\ again \in JobRec(token') /\ again.pc = "wait" /\ again.attempt = 2
          /\ again.lastB = job[j].b /\ again.lastTok = job[j].tok
          /\ again.out = Unseen /\ again.dead = FALSE
      <3>1. /\ job[j].instance \in Instances \cup {None} /\ None \in 0 .. token'
            /\ job[j].tok \in 0 .. token'
        BY <1>1, <1>5 DEF None, JobRec
      <3>2. NewJob \in JobRec(token') /\ NewJob.out = Unseen /\ NewJob.dead = FALSE
        BY <3>1 DEF NewJob, JobRec
      <3> DEFINE first == [NewJob EXCEPT !.pc = "wait", !.instance = job[j].instance,
                                         !.attempt = 2]
      <3>3. /\ first \in JobRec(token') /\ first.pc = "wait" /\ first.attempt = 2
            /\ first.out = Unseen /\ first.dead = FALSE
        <4>1. 2 \in 1 .. 2 /\ "wait" \in Working BY DEF Working
        <4> QED BY <3>1, <3>2, <4>1 DEF JobRec
      <3>4. again = [first EXCEPT !.lastB = job[j].b, !.lastTok = job[j].tok] OBVIOUS
      <3> HIDE DEF first, again
      <3> QED BY <1>1, <3>1, <3>3, <3>4 DEF JobRec
    <2> HIDE DEF again
    <2>2. job' = [job EXCEPT ![j] = again] BY <1>2, <1>8
    <2>3. job'[j] = again BY <1>1, <2>2
    <2>4. Permits'
      <3>1. \A k \in Jobs : /\ job'[k].pc \in Holding <=> job[k].pc \in Holding
                            /\ job[k].pc \in Holding => job'[k].b = job[k].b
        BY <1>1, <1>2, <2>1, <2>2 DEF Holding
      <3> QED BY <1>0, <1>2, <3>1, PermitsKept
    <2>5. AttemptInv(j)'
      <3>1. Retired(job[j].b) /\ UNCHANGED browser BY <1>0, <1>2, <1>4, <1>8 DEF AttemptInv
      <3>2. job[j].tok < token' BY <1>1, <1>2, <1>8
      <3>3. Unseen.page # "ok" BY DEF Unseen
      <3> QED BY <1>1, <2>1, <2>3, <3>1, <3>2, <3>3 DEF AttemptInv, Holding, Retired
    <2> QED BY <1>1, <1>2, <1>5, <1>6, <1>9, <2>1, <2>2, <2>4, <2>5, JobStep
  <1> QED BY <1>7, <1>8

-----------------------------------------------------------------------------
(* The theorems.                                                           *)

LEMMA InvInit == Init => Inv
  <1> SUFFICES ASSUME Init PROVE Inv
    OBVIOUS
  <1> USE DEF Init
  <1>1. /\ NoBrowser \in BrowserRec /\ NoBrowser.users = {} /\ NoBrowser.tunnels = {}
        /\ NoBrowser.st = "none"
    BY DEF NoBrowser, BrowserRec, None
  <1>2. /\ NewJob \in JobRec(1) /\ NewJob.pc = "new" /\ NewJob.attempt = 1
        /\ NewJob.out.page # "ok" /\ NewJob.dead = FALSE
    <2>1. Unseen.page # "ok" BY DEF Unseen
    <2>2. None \in 0 .. 1 /\ None \in Nat BY DEF None
    <2> QED BY <2>1, <2>2 DEF NewJob, JobRec
  <1>3. TypeOK BY <1>1, <1>2, Types
  <1>4. Permits
    <2>1. /\ \A b \in Browsers : browser[b].users = {}
          /\ \A j \in Jobs : job[j].pc \notin Holding
      BY <1>1, <1>2 DEF Holding
    <2>2. IsFiniteSet({}) /\ Cardinality({}) = 0 BY FS_EmptySet
    <2>3. 0 <= TabsPerBrowser BY DispatchAssumption DEF DispatchAssumption
    <2> QED BY <2>1, <2>2, <2>3 DEF Permits
  <1>5. \A j \in Jobs : AttemptInv(j) BY <1>2 DEF AttemptInv, Holding
  <1>6. Keys BY <1>1 DEF Keys
  <1>7. BurnedTokenLeft BY DEF BurnedTokenLeft
  <1> QED BY <1>3, <1>4, <1>5, <1>6, <1>7 DEF Inv

LEMMA InvStep == ASSUME Inv, [Next]_vars PROVE Inv'
  <1>1. ASSUME NEW b \in Browsers, Acquire(b) \/ Opened(b) \/ Expire(b) \/ NeedsInvalidation(b)
        PROVE  Inv'
    BY <1>1, AcquireStep, OpenedStep, ExpireStep, NeedsInvalidationStep
  <1>2. ASSUME NEW j \in Jobs, NEW i \in Instances, Dispatch(j, i) PROVE Inv'
    BY <1>2, DispatchStep
  <1>3. ASSUME NEW j \in Jobs, NEW b \in Browsers,
               AcquireFails(j, b) \/ GetStale(j, b) \/ GetDead(j, b) \/ Get(j, b)
        PROVE  Inv'
    BY <1>3, AcquireFailsStep, GetStaleStep, GetDeadStep, GetStep
  <1>4. ASSUME NEW j \in Jobs,
               \/ NewPage(j) \/ NewPageFails(j) \/ Connect(j) \/ Scrape(j) \/ Probe(j)
               \/ Teardown(j) \/ Observe(j) \/ Deadline(j) \/ WriteR2(j) \/ Emit(j)
        PROVE  Inv'
    BY <1>4, NewPageStep, NewPageFailsStep, ConnectStep, ScrapeStep, ProbeStep,
       TeardownStep, ObserveStep, DeadlineStep, RecordStep
  <1>5. CASE UNCHANGED vars
    <2>1. \A j \in Jobs : AttemptInv(j)'
      BY <1>5 DEF vars, Inv, AttemptInv, Retired, Succeeded, scrapeError
    <2>2. BurnedTokenLeft' BY <1>5 DEF vars, Inv, BurnedTokenLeft, Sighted
    <2> QED BY <1>5, <2>1, <2>2 DEF vars, Inv, TypeOK, Permits, Keys
  <1> QED BY <1>1, <1>2, <1>3, <1>4, <1>5 DEF Next

LEMMA InvAlways == Spec => []Inv
  <1>1. Inv /\ [Next]_vars => Inv' BY InvStep
  <1> QED BY InvInit, <1>1, PTL DEF Spec

\* A tab's permit is held exactly while its attempt works on the browser, which is up as
\* long as anyone does, and no browser has more tabs than it is allowed.
THEOREM Permitted == Spec => []PermitsExact
  <1>1. Inv => PermitsExact BY DEF Inv, Permits, PermitsExact
  <1> QED BY InvAlways, <1>1, PTL

\* The retry of a blocked scrape runs on another browser and under another token.
THEOREM Fresh == Spec => []RetryIsFresh
  <1>1. Inv => RetryIsFresh
    <2> SUFFICES ASSUME Inv, NEW j \in Jobs, job[j].attempt = 2, job[j].pc \in Holding
                 PROVE  job[j].b # job[j].lastB /\ job[j].tok # job[j].lastTok
      BY DEF RetryIsFresh
    <2>1. AttemptInv(j) /\ job[j].tok \in Nat /\ job[j].lastTok \in Nat
      BY Types DEF Inv, JobRec
    <2> QED BY <2>1 DEF AttemptInv
  <1> QED BY InvAlways, <1>1, PTL

\* The current token was seen blocked only while an attempt that saw it has yet to report it,
\* or when the deadline has cut one off.
THEOREM Left == Spec => []BurnedTokenLeft
  <1>1. Inv => BurnedTokenLeft BY DEF Inv
  <1> QED BY InvAlways, <1>1, PTL

\* An attempt that egressed on a noted connection is given an identity, and that of the
\* connection whenever the token has not been rotated since it was opened.
THEOREM Attributed == Spec => []EgressAttributed
  <1>1. Inv => EgressAttributed
    <2> SUFFICES ASSUME Inv, NEW j \in Jobs, job[j].pc = "close", job[j].rode # None
                 PROVE  /\ capturedIdentity(j) # None
                        /\ job[j].rode = job[j].tok => capturedIdentity(j) = job[j].rode
      BY DEF EgressAttributed
    <2>1. /\ job[j].b \in Browsers /\ job[j].tok # None
          /\ job[j].rode \in browser[job[j].b].tunnels
      BY DEF Inv, AttemptInv, Holding, None
    <2>2. job[j].rode \in captured /\ browser[job[j].b].latest # None
      BY <2>1 DEF Inv, Keys
    <2> QED BY <2>1, <2>2 DEF capturedIdentity
  <1> QED BY InvAlways, <1>1, PTL

\* The token is left only on the report of an attempt that did not succeed.
THEOREM Rotated == Spec => RotatedForAFailure
  <1>1. Inv /\ [Next]_vars
          => [token' # token => \E j \in Jobs : /\ job[j].pc = "observe" /\ job'[j].pc # "observe"
                                                /\ job[j].out.page # "ok"]_vars
    <2> SUFFICES ASSUME Inv, Next, token' # token
                 PROVE  \E j \in Jobs : /\ job[j].pc = "observe" /\ job'[j].pc # "observe"
                                        /\ job[j].out.page # "ok"
      BY DEF vars
    <2>1. ASSUME NEW b \in Browsers
          PROVE  ~(Acquire(b) \/ Opened(b) \/ Expire(b) \/ NeedsInvalidation(b))
      BY DEF Acquire, Opened, Expire, NeedsInvalidation
    <2>2. ASSUME NEW j \in Jobs, NEW b \in Browsers
          PROVE  ~(AcquireFails(j, b) \/ GetStale(j, b) \/ GetDead(j, b) \/ Get(j, b))
      BY DEF AcquireFails, GetStale, GetDead, Get
    <2>3. ASSUME NEW j \in Jobs, NEW i \in Instances PROVE ~Dispatch(j, i)
      BY DEF Dispatch
    <2>4. ASSUME NEW j \in Jobs
          PROVE  ~(NewPage(j) \/ NewPageFails(j) \/ Connect(j) \/ Scrape(j) \/ Probe(j))
      BY DEF NewPage, NewPageFails, Connect, Scrape, Probe
    <2>5. ASSUME NEW j \in Jobs PROVE ~(Teardown(j) \/ Deadline(j) \/ WriteR2(j) \/ Emit(j))
      BY DEF Teardown, Deadline, WriteR2, Emit
    <2>6. PICK j \in Jobs : Observe(j)
      BY <2>1, <2>2, <2>3, <2>4, <2>5 DEF Next
    <2>7. job[j].pc = "observe" /\ isBlockTrigger(scrapeError(j))
      BY <2>6 DEF Observe, observe
    <2>8. job[j].out.page # "ok" BY <2>7, BlockedAttempt DEF Inv
    <2>9. job'[j].pc \in {"wait", "write"}
      <3>1. job \in [Jobs -> JobRec(token)] BY Types DEF Inv
      <3>2. /\ Ended(j, Succeeded(j)).pc = "write"
            /\ [NewJob EXCEPT !.pc = "wait", !.instance = job[j].instance, !.attempt = 2,
                              !.lastB = job[j].b, !.lastTok = job[j].tok].pc = "wait"
        BY DEF Ended, NewJob
      <3> QED BY <2>6, <3>1, <3>2 DEF Observe
    <2> QED BY <2>7, <2>8, <2>9
  <1> QED BY InvAlways, <1>1, PTL DEF Spec, RotatedForAFailure
=============================================================================

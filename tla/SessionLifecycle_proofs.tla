----------------------- MODULE SessionLifecycle_proofs -----------------------
(***************************************************************************)
(* Proofs about SessionLifecycle for any number of requests and kills: the *)
(* registry lists whole sessions only, directories outlive their browsers, *)
(* killSessions returns when everything it found is off the registry, has  *)
(* been told to close and has had its directory's removal tried, and no    *)
(* destruction is lost.                                                    *)
(***************************************************************************)
EXTENDS SessionLifecycle, TLAPS

TaskSet == [by : Callers, of : Requests, at : {"waiting", "closing", "replay", "rmdir"}]

Early(r) == stage[r] \in {"new", "launching", "hooking"}

\* A request that has not registered its session yet has left no trace.
EarlyOK ==
    \A r \in Requests : Early(r) =>
        /\ r \notin registry
        /\ \A t \in tasks : t.of # r
        /\ \A k \in Killers : r \notin killed[k]
        /\ ~Tried(r)
        /\ stage[r] # "hooking" => ~handle[r]
        /\ stage[r] # "new" => dir[r] = "present"
        /\ stage[r] = "hooking" => chrome[r] # "none"

\* A destruction that has begun has taken its session out of the registry and
\* the process from the browser; only a release ever waits.
TasksOK ==
    \A t \in tasks :
        /\ t.at = "waiting" => t.by \in Requests
        /\ t.at # "waiting" => ~handle[t.of] /\ t.of \notin registry

ListedOK == \A s \in registry : dir[s] = "present" /\ chrome[s] # "none"

RemovedOK ==
    \A s \in Requests : Tried(s) =>
        ~handle[s] /\ s \notin registry /\ s \notin ManualDir

\* What a kill has worked off is closed and its directory tried, or the kill is
\* just working on it.
KilledOK ==
    \A k \in Killers :
        /\ killLeft[k] \subseteq killed[k]
        /\ \A s \in killed[k] \ killLeft[k] :
             /\ ~handle[s] /\ s \notin registry
             /\ s \in ManualDir \/ Tried(s) \/ \E t \in tasks : t.by = k /\ t.of = s

IInv == TypeOK /\ EarlyOK /\ TasksOK /\ ListedOK /\ RemovedOK /\ KilledOK

-----------------------------------------------------------------------------
(* Steps that only destroy: they take sessions out of the registry and     *)
(* processes from browsers, and add tasks of sessions that exist.          *)

Destructive ==
    /\ registry' \subseteq registry
    /\ handle' \in [Requests -> BOOLEAN]
    /\ \A s \in Requests : handle'[s] => handle[s]
    /\ tasks' \subseteq TaskSet
    /\ TasksOK'
    /\ \A t \in tasks' : (\E u \in tasks : u.of = t.of) \/ ~Early(t.of)
    /\ \A t \in tasks : t.by \in Killers => t \in tasks'

\* Requests may go on, but not back to before their registration, nor on to it.
StagesKept ==
    /\ stage' \in [Requests -> Stages]
    /\ \A r \in Requests : Early(r)' => Early(r) /\ stage'[r] = stage[r]

LEMMA StateRest ==
    ASSUME IInv, Destructive, StagesKept,
           browserOf' \in [Requests -> Requests \cup {NoBrowser}],
           armed' \in [Requests -> BOOLEAN],
           UNCHANGED <<sessionVars, killVars>>,
           phase' \in {"up", "stopping", "destroying", "down"}
    PROVE  IInv'
<1>1. TypeOK'
  BY DEF IInv, TypeOK, Destructive, StagesKept, TaskSet, sessionVars, killVars
<1>2. EarlyOK'
  BY DEF Tried, IInv, TypeOK, EarlyOK, Destructive, StagesKept, Early, sessionVars, killVars
<1>3. ListedOK' /\ RemovedOK'
  BY DEF Tried, IInv, TypeOK, ListedOK, RemovedOK, Destructive, sessionVars
<1>4. KilledOK'
  BY DEF Tried, IInv, TypeOK, KilledOK, Destructive, sessionVars, killVars
<1> QED  BY <1>1, <1>2, <1>3, <1>4 DEF IInv, Destructive

\* What the common beginning of the pipeline does.
LEMMA BeginDestroys ==
    ASSUME IInv,
           NEW S \in SUBSET Requests, NEW by \in Callers, NEW rest \in SUBSET tasks,
           \A s \in S : ~Early(s),
           \A t \in tasks : t.by \in Killers => t \in rest,
           Begin(S, by, rest)
    PROVE  /\ Destructive
           /\ registry' = registry \ S
           /\ \A s \in S : \E t \in tasks' : t.by = by /\ t.of = s
<1> DEFINE new == Destroyed(S, by)
<1> DEFINE At(s) == IF handle[s] THEN "closing" ELSE "replay"
           Task(s) == [by |-> by, of |-> s, at |-> At(s)]
<1>1. /\ new \subseteq TaskSet
      /\ \A t \in new : t.by = by /\ t.of \in S /\ t.at # "waiting"
      /\ \A s \in S : \E t \in new : t.by = by /\ t.of = s
  <2>1. \A s \in S : At(s) \in {"closing", "replay"}
    OBVIOUS
  <2>2. new = {Task(s) : s \in S}
    BY DEF Destroyed
  <2> HIDE DEF At, new
  <2>3. \A s \in S : Task(s) \in TaskSet /\ Task(s).by = by /\ Task(s).of = s
                       /\ Task(s).at # "waiting"
    BY <2>1 DEF TaskSet
  <2> HIDE DEF Task
  <2> QED  BY <2>2, <2>3
<1>2. /\ tasks' = rest \cup new
      /\ registry' = registry \ S
      /\ handle' = [s \in Requests |-> handle[s] /\ s \notin S]
  BY DEF Begin, CloseBrowsers
<1> HIDE DEF new, Task, At
<1>3. /\ handle' \in [Requests -> BOOLEAN]
      /\ \A s \in Requests : handle'[s] <=> handle[s] /\ s \notin S
  BY <1>2 DEF IInv, TypeOK
<1>4. tasks' \subseteq TaskSet
  BY <1>1, <1>2 DEF IInv, TypeOK, TaskSet
<1>5. TasksOK'
  BY <1>1, <1>2, <1>3, <1>4 DEF IInv, TypeOK, TasksOK, TaskSet
<1> QED  BY <1>1, <1>2, <1>3, <1>4, <1>5 DEF Destructive

LEMMA RegisteredNotEarly ==
    ASSUME IInv
    PROVE  /\ registry \subseteq Requests
           /\ \A s \in registry : ~Early(s)
           /\ \A t \in tasks : t.of \in Requests /\ ~Early(t.of)
           /\ \A k \in Killers : killed[k] \subseteq Requests /\ \A s \in killed[k] : ~Early(s)
  BY DEF IInv, TypeOK, EarlyOK, TaskSet

LEMMA ClosingDestroys ==
    ASSUME IInv, NEW S, NEW rest \in SUBSET tasks,
           \A t \in tasks : t.by \in Killers => t \in rest,
           CloseBrowsers(S), tasks' = rest, UNCHANGED registry
    PROVE  Destructive
<1>1. /\ handle' \in [Requests -> BOOLEAN]
      /\ \A s \in Requests : handle'[s] => handle[s]
  BY DEF CloseBrowsers, IInv, TypeOK
<1> QED  BY <1>1 DEF IInv, TypeOK, TasksOK, TaskSet, Destructive

LEMMA NothingDestroys ==
    ASSUME IInv, UNCHANGED <<handle, registry, tasks>>
    PROVE  Destructive
  BY DEF IInv, TypeOK, TasksOK, TaskSet, Destructive
-----------------------------------------------------------------------------
LEMMA InitInv == Init => IInv
<1> SUFFICES ASSUME Init PROVE IInv
  OBVIOUS
<1>1. TypeOK /\ EarlyOK /\ TasksOK /\ ListedOK /\ RemovedOK /\ KilledOK
  BY DEF Tried, Init, TypeOK, EarlyOK, Early, TasksOK, ListedOK, RemovedOK, KilledOK, Stages
<1> QED  BY <1>1 DEF IInv

\* A request on its way to its session.
LEMMA ServeLaunch ==
    ASSUME IInv, NEW r \in Requests,
           Refused(r) \/ DirMade(r) \/ Launched(r) \/ LaunchFails(r) \/ Register(r)
    PROVE  IInv'
<1> USE DEF To, sessionVars, requestVars, killVars
<1>1. CASE Refused(r)
  <2>1. TypeOK'
    BY <1>1 DEF IInv, TypeOK, Refused, Stages
  <2> QED  BY <1>1, <2>1
              DEF Tried, IInv, TypeOK, Refused, EarlyOK, Early, TasksOK, ListedOK, RemovedOK, KilledOK
<1>2. CASE DirMade(r)
  <2>1. TypeOK'
    BY <1>2 DEF IInv, TypeOK, DirMade, Stages
  <2>2. EarlyOK'
    BY <1>2 DEF Tried, IInv, TypeOK, DirMade, EarlyOK, Early
  <2>3. TasksOK' /\ ListedOK' /\ RemovedOK'
    BY <1>2 DEF Tried, IInv, TypeOK, DirMade, TasksOK, ListedOK, RemovedOK
  <2>4. KilledOK'
    BY <1>2 DEF Tried, IInv, TypeOK, DirMade, KilledOK, EarlyOK, Early
  <2> QED  BY <2>1, <2>2, <2>3, <2>4 DEF IInv
<1>3. CASE Launched(r)
  <2>1. TypeOK'
    BY <1>3 DEF IInv, TypeOK, Launched, Stages
  <2>2. EarlyOK'
    BY <1>3 DEF Tried, IInv, TypeOK, Launched, EarlyOK, Early
  <2>3. TasksOK' /\ ListedOK' /\ RemovedOK' /\ KilledOK'
    BY <1>3
       DEF Tried, IInv, TypeOK, Launched, EarlyOK, Early, TasksOK, ListedOK, RemovedOK, KilledOK
  <2> QED  BY <2>1, <2>2, <2>3 DEF IInv
<1>4. CASE LaunchFails(r)
  <2>1. TypeOK'
    BY <1>4 DEF IInv, TypeOK, LaunchFails, Stages
  <2> QED  BY <1>4, <2>1
              DEF Tried, IInv, TypeOK, LaunchFails, EarlyOK, Early, TasksOK, ListedOK, RemovedOK, KilledOK
<1>5. CASE Register(r)
  <2>1. /\ stage' = [stage EXCEPT ![r] = "returned"] \/ stage' = [stage EXCEPT ![r] = "setup"]
        /\ solvers' \subseteq Requests
    BY <1>5 DEF IInv, TypeOK, Register
  <2>2. TypeOK'
    BY <1>5, <2>1 DEF IInv, TypeOK, Register, Stages
  <2>3. EarlyOK'
    BY <1>5, <2>1 DEF Tried, IInv, TypeOK, Register, EarlyOK, Early
  <2>4. TasksOK' /\ ListedOK' /\ RemovedOK' /\ KilledOK'
    BY <1>5
       DEF Tried, IInv, TypeOK, Register, EarlyOK, Early, TasksOK, ListedOK, RemovedOK, KilledOK
  <2> QED  BY <2>2, <2>3, <2>4 DEF IInv
<1> QED  BY <1>1, <1>2, <1>3, <1>4, <1>5

\* A request that was given a browser, or asks for a registered one.
LEMMA ServeBrowser ==
    ASSUME IInv, NEW r \in Requests,
           SetUp(r) \/ Reconnect(r) \/ Handle(r) \/ HandlerEnds(r) \/ HandlerFails(r)
             \/ BeforeClose(r)
    PROVE  IInv'
<1> USE DEF requestVars, killVars
<1>1. CASE SetUp(r)
  <2>1. /\ cdpSessions' \subseteq Requests /\ solvers' \subseteq Requests
        /\ stage' = [stage EXCEPT ![r] = "returned"]
    BY <1>1 DEF SetUp, To, IInv, TypeOK
  <2>2. TypeOK'
    BY <1>1, <2>1 DEF SetUp, IInv, TypeOK, Stages
  <2> QED  BY <1>1, <2>1, <2>2
              DEF Tried, SetUp, IInv, TypeOK, EarlyOK, Early, TasksOK, ListedOK, RemovedOK, KilledOK
<1> DEFINE b == browserOf[r]
<1>a. registry \subseteq Requests /\ \A s \in registry : ~Early(s)
  BY RegisteredNotEarly
<1>b. ASSUME NEW rest \in SUBSET tasks, \A t \in tasks : t.by \in Killers => t \in rest,
             DestroyForBrowser(r, rest)
      PROVE  Destructive
  <2>1. CASE b \in registry
    <3>1. {b} \in SUBSET Requests /\ (\A s \in {b} : ~Early(s)) /\ r \in Callers
      BY <1>a, <2>1 DEF Callers
    <3>2. Begin({b}, r, rest)
      BY <1>b, <2>1 DEF DestroyForBrowser
    <3> HIDE DEF b
    <3> QED  BY <3>1, <3>2, <1>b, BeginDestroys
  <2>2. CASE b \notin registry
    <3>1. CloseBrowsers({b}) /\ tasks' = rest /\ UNCHANGED registry
      BY <1>b, <2>2 DEF DestroyForBrowser
    <3> HIDE DEF b
    <3> QED  BY <3>1, <1>b, ClosingDestroys
  <2> QED  BY <2>1, <2>2
<1>c. ASSUME Destroy(r) PROVE Destructive
  <2>1. CASE b \in registry /\ InBeforeClose(b)
    <3>1. /\ tasks' = tasks \cup {[by |-> r, of |-> b, at |-> "waiting"]}
          /\ UNCHANGED <<handle, registry>>
          /\ b \in Requests /\ ~Early(b)
      BY <1>a, <1>c, <2>1 DEF Destroy
    <3> HIDE DEF b
    <3>2. [by |-> r, of |-> b, at |-> "waiting"] \in TaskSet
      BY <3>1 DEF TaskSet, Callers
    <3> QED  BY <3>1, <3>2 DEF Destructive, IInv, TypeOK, TasksOK, TaskSet
  <2>2. CASE ~(b \in registry /\ InBeforeClose(b))
    BY <1>b, <1>c, <2>2 DEF Destroy
  <2> QED  BY <2>1, <2>2
<1>2. CASE Reconnect(r)
  <2>1. PICK s \in registry : browserOf' = [browserOf EXCEPT ![r] = s]
    BY <1>2 DEF Reconnect
  <2>2. browserOf' \in [Requests -> Requests \cup {NoBrowser}]
    BY <1>2, <1>a, <2>1 DEF Reconnect, To, IInv, TypeOK
  <2>3. StagesKept /\ Destructive
    BY <1>2, NothingDestroys DEF Reconnect, To, IInv, TypeOK, StagesKept, Stages, Early
  <2> QED  BY <1>2, <2>2, <2>3, StateRest DEF Reconnect, IInv, TypeOK
<1>3. CASE Handle(r)
  <2>1. StagesKept /\ Destructive
    BY <1>3, NothingDestroys DEF Handle, To, IInv, TypeOK, StagesKept, Stages, Early
  <2> QED  BY <1>3, <2>1, StateRest DEF Handle, IInv, TypeOK
<1>4. CASE HandlerEnds(r)
  <2>1. StagesKept
    BY <1>4 DEF HandlerEnds, To, IInv, TypeOK, StagesKept, Stages, Early
  <2> QED  BY <1>4, <1>c, <2>1, StateRest DEF HandlerEnds, IInv, TypeOK
<1>5. CASE HandlerFails(r)
  <2>1. StagesKept
    BY <1>5 DEF HandlerFails, To, IInv, TypeOK, StagesKept, Stages, Early
  <2>2. Destructive
    <3>1. CASE Destroy(r)
      BY <3>1, <1>c
    <3>2. CASE UNCHANGED <<handle, registry, tasks>>
      BY <3>2, NothingDestroys
    <3>3. CASE CloseBrowsers({b}) /\ UNCHANGED <<registry, tasks>>
      BY <3>3, ClosingDestroys
    <3> QED  BY <1>5, <3>1, <3>2, <3>3 DEF HandlerFails
  <2> QED  BY <1>5, <2>1, <2>2, StateRest DEF HandlerFails, IInv, TypeOK
<1>6. CASE BeforeClose(r)
  <2>1. StagesKept
    BY <1>6 DEF BeforeClose, IInv, TypeOK, StagesKept, Early
  <2>2. Destructive
    <3>1. CASE b \in registry
      <4>1. {b} \in SUBSET Requests /\ (\A s \in {b} : ~Early(s)) /\ "beforeClose" \in Callers
        BY <1>a, <3>1 DEF Callers
      <4>2. Begin({b}, "beforeClose", tasks)
        BY <1>6, <3>1 DEF BeforeClose
      <4> HIDE DEF b
      <4> QED  BY <4>1, <4>2, BeginDestroys
    <3>2. CASE b \notin registry
      BY <1>6, <3>2, NothingDestroys DEF BeforeClose
    <3> QED  BY <3>1, <3>2
  <2> QED  BY <1>6, <2>1, <2>2, StateRest DEF BeforeClose, IInv, TypeOK
<1> QED  BY <1>1, <1>2, <1>3, <1>4, <1>5, <1>6

\* A step of a destruction under way.
LEMMA WorkStep ==
    ASSUME IInv, NEW t \in tasks, Work(t)
    PROVE  IInv'
<1> USE DEF requestVars, sessionVars, killVars
<1>t. /\ t \in TaskSet
      /\ \A a \in {"replay", "rmdir"} :
           LET u == [t EXCEPT !.at = a]
           IN  /\ u \in TaskSet
               /\ u.by = t.by /\ u.of = t.of /\ u.at = a
  BY DEF IInv, TypeOK, TaskSet
<1>1. ASSUME t.at # "waiting", NEW at \in {"replay", "rmdir"}, tasks' = Moved(t, at),
             UNCHANGED <<requestVars, killVars, dir, chrome, aged, handle, registry, phase>>,
             solvers' \subseteq solvers, cdpSessions' \subseteq cdpSessions
      PROVE  IInv'
  <2> DEFINE u == [t EXCEPT !.at = at]
  <2>1. /\ tasks' = (tasks \ {t}) \cup {u}
        /\ u \in TaskSet /\ u.by = t.by /\ u.of = t.of /\ u.at = at
    BY <1>1, <1>t DEF Moved
  <2> HIDE DEF u
  <2>2. TypeOK'
    BY <1>1, <2>1 DEF IInv, TypeOK, TaskSet
  <2>3. EarlyOK' /\ TasksOK'
    BY <1>1, <2>1 DEF Tried, IInv, TypeOK, EarlyOK, Early, TasksOK
  <2>4. ListedOK' /\ RemovedOK' /\ KilledOK'
    BY <1>1, <2>1 DEF Tried, IInv, ListedOK, RemovedOK, KilledOK
  <2> QED  BY <2>2, <2>3, <2>4 DEF IInv
<1>2. CASE BrowserClosed(t)
  BY <1>1, <1>2 DEF BrowserClosed
<1>3. CASE ReplayStopped(t)
  <2>1. solvers' \subseteq solvers /\ cdpSessions' \subseteq cdpSessions
    BY <1>3 DEF ReplayStopped
  <2> QED  BY <1>1, <1>3, <2>1 DEF ReplayStopped
<1>4. CASE RemoveUserDataDir(t)
  <2>1. /\ t.of \in Requests /\ ~Early(t.of) /\ ~handle[t.of] /\ t.of \notin registry
        /\ tasks' = tasks \ {t}
        /\ UNCHANGED <<requestVars, killVars, chrome, aged, solvers, cdpSessions, handle,
                        registry, phase>>
        /\ dir' \in [Requests -> {"none", "present", "removed", "left"}]
        /\ \A s \in Requests : s # t.of \/ s \in ManualDir => dir'[s] = dir[s]
        /\ t.of \notin ManualDir => dir'[t.of] \in {"removed", "left"}
    BY <1>4, <1>t, RegisteredNotEarly DEF RemoveUserDataDir, IInv, TypeOK, TasksOK
  <2>2. TypeOK'
    BY <2>1 DEF IInv, TypeOK
  <2>3. EarlyOK' /\ TasksOK'
    BY <2>1 DEF Tried, IInv, TypeOK, EarlyOK, Early, TasksOK
  <2>4. ListedOK' /\ RemovedOK'
    BY <2>1 DEF Tried, IInv, TypeOK, ListedOK, RemovedOK
  <2>5. KilledOK'
    BY <2>1 DEF Tried, IInv, TypeOK, KilledOK
  <2> QED  BY <2>2, <2>3, <2>4, <2>5 DEF IInv
<1>5. CASE ReleaseResumes(t)
  <2> DEFINE r == t.by
             b == browserOf[r]
             rest == tasks \ {t}
  <2>1. r \in Requests /\ r \in Callers /\ r \notin Killers
    BY <1>5, SessionLifecycleAssumption DEF ReleaseResumes, IInv, TasksOK, Callers
  <2>2. rest \in SUBSET tasks /\ \A u \in tasks : u.by \in Killers => u \in rest
    BY <2>1
  <2>3. DestroyForBrowser(r, rest)
    BY <1>5 DEF ReleaseResumes
  <2> HIDE DEF rest, r
  <2>4. CASE b \in registry
    <3>1. {b} \in SUBSET Requests /\ (\A s \in {b} : ~Early(s)) /\ Begin({b}, r, rest)
      BY <2>3, <2>4, RegisteredNotEarly DEF DestroyForBrowser
    <3> HIDE DEF b
    <3>2. Destructive
      BY <2>1, <2>2, <3>1, BeginDestroys
    <3> QED  BY <1>5, <3>2, StateRest DEF ReleaseResumes, IInv, TypeOK, StagesKept, Early
  <2>5. CASE b \notin registry
    <3>1. CloseBrowsers({b}) /\ tasks' = rest /\ UNCHANGED registry
      BY <2>3, <2>5 DEF DestroyForBrowser
    <3> HIDE DEF b
    <3>2. Destructive
      BY <2>2, <3>1, ClosingDestroys
    <3> QED  BY <1>5, <3>2, StateRest DEF ReleaseResumes, IInv, TypeOK, StagesKept, Early
  <2> QED  BY <2>4, <2>5
<1> QED  BY <1>2, <1>3, <1>4, <1>5 DEF Work

LEMMA KillSteps ==
    ASSUME IInv, NEW k \in Killers,
           KillNext(k) \/ \E S \in SUBSET registry : KillSessions(k, S)
    PROVE  IInv'
<1> USE DEF requestVars, sessionVars, killVars
<1>1. ASSUME NEW S \in SUBSET registry, KillSessions(k, S) PROVE IInv'
  <2>1. /\ killed' = [killed EXCEPT ![k] = S] /\ killLeft' = [killLeft EXCEPT ![k] = S]
        /\ S \subseteq Requests /\ \A s \in S : ~Early(s)
        /\ UNCHANGED <<requestVars, sessionVars, handle, registry, tasks, phase>>
    BY <1>1, RegisteredNotEarly DEF KillSessions
  <2>2. TypeOK'
    BY <2>1 DEF IInv, TypeOK
  <2>3. EarlyOK' /\ TasksOK' /\ ListedOK' /\ RemovedOK'
    BY <2>1 DEF Tried, IInv, TypeOK, EarlyOK, Early, TasksOK, ListedOK, RemovedOK
  <2>4. KilledOK'
    BY <2>1 DEF Tried, IInv, TypeOK, KilledOK
  <2> QED  BY <2>2, <2>3, <2>4 DEF IInv
<1>2. CASE KillNext(k)
  <2>1. PICK s \in killLeft[k] : /\ killLeft' = [killLeft EXCEPT ![k] = @ \ {s}]
                                 /\ Begin({s}, k, tasks)
    BY <1>2 DEF KillNext
  <2>2. s \in Requests /\ ~Early(s) /\ k \in Callers
    BY <2>1, RegisteredNotEarly DEF IInv, KilledOK, Callers
  <2>3. /\ Destructive
        /\ \E t \in tasks' : t.by = k /\ t.of = s
    <3>1. {s} \in SUBSET Requests /\ (\A x \in {s} : ~Early(x)) /\ tasks \in SUBSET tasks
      BY <2>2
    <3> QED  BY <2>1, <2>2, <3>1, BeginDestroys
  <2>4. UNCHANGED <<requestVars, sessionVars, killed, phase>>
    BY <1>2 DEF KillNext
  <2>5. TypeOK'
    BY <2>1, <2>3, <2>4 DEF IInv, TypeOK, Destructive, TaskSet
  <2>6. EarlyOK'
    BY <2>3, <2>4 DEF Tried, IInv, TypeOK, EarlyOK, Early, Destructive
  <2>7. ListedOK' /\ RemovedOK' /\ TasksOK'
    BY <2>3, <2>4 DEF Tried, IInv, TypeOK, ListedOK, RemovedOK, Destructive
  <2>8. ~handle'[s] /\ s \notin registry'
    BY <2>3, SessionLifecycleAssumption DEF Destructive, TasksOK
  <2>9. KilledOK'
    BY <2>1, <2>3, <2>4, <2>8 DEF Tried, IInv, TypeOK, KilledOK, Destructive
  <2> QED  BY <2>5, <2>6, <2>7, <2>9 DEF IInv
<1> QED  BY <1>1, <1>2

LEMMA HouseSteps ==
    ASSUME IInv, WatchdogTick \/ Shutdown \/ ShutdownDestroys \/ ShutdownEnds
    PROVE  IInv'
<1> USE DEF requestVars, sessionVars, killVars
<1>0. StagesKept \/ ~UNCHANGED stage
  BY DEF IInv, TypeOK, StagesKept, Early
<1>1. CASE WatchdogTick
  <2>1. Stale \in SUBSET Requests /\ (\A s \in Stale : ~Early(s)) /\ "watchdog" \in Callers
    BY RegisteredNotEarly DEF Stale, Callers
  <2>2. Begin(Stale, "watchdog", tasks)
    BY <1>1 DEF WatchdogTick
  <2>3. Destructive
    BY <2>1, <2>2, BeginDestroys
  <2> QED  BY <1>0, <1>1, <2>3, StateRest DEF WatchdogTick, IInv, TypeOK
<1>2. CASE Shutdown
  <2> DEFINE cut == {t \in tasks : t.by = "watchdog"}
             new == {[t EXCEPT !.at = "rmdir"] : t \in cut}
  <2>1. /\ tasks' = (tasks \ cut) \cup new
        /\ phase' = "stopping"
        /\ solvers' \subseteq solvers /\ cdpSessions' \subseteq cdpSessions
        /\ UNCHANGED <<requestVars, dir, chrome, aged, killVars, handle, registry>>
    BY <1>2 DEF Shutdown
  <2>2. \A u \in new : /\ u \in TaskSet /\ u.at = "rmdir"
                       /\ \E t \in tasks : t.of = u.of /\ t.at # "waiting"
    <3>1. SUFFICES ASSUME NEW t \in cut
                   PROVE  LET u == [t EXCEPT !.at = "rmdir"]
                          IN  u \in TaskSet /\ u.at = "rmdir" /\ t.of = u.of
                                /\ t.at # "waiting"
      OBVIOUS
    <3>2. t \in TaskSet /\ t.by = "watchdog" /\ t.at # "waiting"
      BY SessionLifecycleAssumption DEF IInv, TypeOK, TasksOK, TaskSet
    <3> QED  BY <3>2 DEF TaskSet
  <2>3. \A t \in tasks : t.by \in Killers => t \in tasks'
    BY <2>1, SessionLifecycleAssumption
  <2> HIDE DEF new
  <2>4. tasks' \subseteq TaskSet
    BY <2>1, <2>2 DEF IInv, TypeOK, TaskSet
  <2>5. TypeOK'
    BY <2>1, <2>4 DEF IInv, TypeOK, TaskSet
  <2>6. TasksOK' /\ EarlyOK'
    BY <2>1, <2>2, <2>4 DEF Tried, IInv, TypeOK, TasksOK, EarlyOK, Early
  <2>7. ListedOK' /\ RemovedOK' /\ KilledOK'
    BY <2>1, <2>3 DEF Tried, IInv, TypeOK, ListedOK, RemovedOK, KilledOK
  <2> QED  BY <2>5, <2>6, <2>7 DEF IInv
<1>3. CASE ShutdownDestroys
  <2>1. registry \in SUBSET Requests /\ (\A s \in registry : ~Early(s)) /\ "shutdown" \in Callers
    BY RegisteredNotEarly DEF Callers
  <2>2. Begin(registry, "shutdown", tasks)
    BY <1>3 DEF ShutdownDestroys
  <2>3. Destructive
    BY <2>1, <2>2, BeginDestroys
  <2> QED  BY <1>0, <1>3, <2>3, StateRest DEF ShutdownDestroys, IInv, TypeOK
<1>4. CASE ShutdownEnds
  <2>1. Destructive
    BY <1>4 DEF ShutdownEnds, Destructive, IInv, TypeOK, TasksOK, TaskSet
  <2> QED  BY <1>0, <1>4, <2>1, StateRest DEF ShutdownEnds, IInv, TypeOK
<1> QED  BY <1>1, <1>2, <1>3, <1>4

LEMMA WorldSteps ==
    ASSUME IInv, NEW s \in Requests, ChromeExits(s) \/ ChromeCrashes(s) \/ Ages(s)
    PROVE  IInv'
<1> USE DEF requestVars, sessionVars, killVars
<1>1. /\ UNCHANGED <<requestVars, dir, solvers, cdpSessions, killVars, handle, registry,
                      tasks, phase>>
      /\ chrome' \in [Requests -> {"none", "running", "dead"}]
      /\ aged' \in [Requests -> BOOLEAN]
      /\ \A x \in Requests : chrome'[x] = "none" => chrome[x] = "none"
  <2>1. CASE ChromeExits(s) \/ ChromeCrashes(s)
    <3>1. /\ chrome' = [chrome EXCEPT ![s] = "dead"]
          /\ UNCHANGED <<requestVars, dir, aged, solvers, cdpSessions, killVars, handle,
                          registry, tasks, phase>>
      BY <2>1 DEF ChromeExits, ChromeCrashes
    <3> QED  BY <3>1 DEF IInv, TypeOK
  <2>2. CASE Ages(s)
    BY <2>2 DEF Ages, IInv, TypeOK
  <2> QED  BY <2>1, <2>2
<1> QED  BY <1>1 DEF Tried, IInv, TypeOK, EarlyOK, Early, TasksOK, ListedOK, RemovedOK, KilledOK

THEOREM Invariance == Spec => []IInv
<1>1. IInv /\ [Next]_vars => IInv'
  <2> SUFFICES ASSUME IInv, [Next]_vars PROVE IInv'
    OBVIOUS
  <2>1. ASSUME NEW r \in Requests, Serve(r) PROVE IInv'
    BY <2>1, ServeLaunch, ServeBrowser DEF Serve
  <2>2. ASSUME NEW t \in tasks, Work(t) PROVE IInv'
    BY <2>2, WorkStep
  <2>3. ASSUME NEW k \in Killers, KillNext(k) \/ \E S \in SUBSET registry : KillSessions(k, S)
        PROVE  IInv'
    BY <2>3, KillSteps
  <2>4. ASSUME WatchdogTick \/ Shutdown \/ ShutdownDestroys \/ ShutdownEnds PROVE IInv'
    BY <2>4, HouseSteps
  <2>5. ASSUME NEW s \in Requests, ChromeExits(s) \/ ChromeCrashes(s) \/ Ages(s) PROVE IInv'
    BY <2>5, WorldSteps
  <2>6. CASE Rest \/ UNCHANGED vars
    BY <2>6
       DEF Tried, Rest, vars, IInv, TypeOK, EarlyOK, Early, TasksOK, ListedOK, RemovedOK, KilledOK
  <2> QED  BY <2>1, <2>2, <2>3, <2>4, <2>5, <2>6 DEF Next
<1> QED  BY InitInv, <1>1, PTL DEF Spec

\* However release, client close, kill, watchdog and shutdown race, the
\* registry never lists a session that is being destroyed.
THEOREM ListedWhole == Spec => []ListedSessionsWhole
<1>1. IInv => ListedSessionsWhole
  BY DEF IInv, TasksOK, ListedOK, ListedSessionsWhole, UnderDestruction
<1> QED  BY <1>1, Invariance, PTL

\* No directory is touched before its browser was told to close, nor a client's
\* own.
THEOREM DirsOutlive == Spec => []DirOutlivesBrowser
<1>1. IInv => DirOutlivesBrowser
  BY DEF IInv, RemovedOK, DirOutlivesBrowser
<1> QED  BY <1>1, Invariance, PTL

\* killSessions returns only when all it found is closed and off the registry and
\* its directories were tried, even if others were destroying the same sessions.
THEOREM KillsSeenThrough == Spec => []KillSeesAllThrough
<1>1. IInv => KillSeesAllThrough
  BY DEF IInv, TypeOK, KilledOK, KillSeesAllThrough
<1> QED  BY <1>1, Invariance, PTL
-----------------------------------------------------------------------------
(* SessionLifecycle implements SessionLife: no destruction is lost.        *)

Named(s) == browserOf[s] = s

Known(s) == s \in registry \/ (\E t \in tasks : t.of = s) \/ \E k \in Killers : s \in killed[k]

\* Who can be destroyed was registered once, which gave its request its own browser; and
\* nothing is registered before it has a directory.
PlaceOK ==
    \A s \in Requests :
        /\ Early(s) => ~Named(s)
        /\ Named(s) => dir[s] # "none"
        /\ Known(s) => Named(s)
        /\ stage[s] = "new" => dir[s] = "none"

\* Between launch and registration.
Launching(s) == stage[s] \in {"launching", "hooking"}

\* A step that neither makes a directory nor registers a session.
LEMMA PlaceKept ==
    ASSUME PlaceOK,
           \A s \in Requests : /\ Known(s)' => Known(s)
                               /\ Named(s)' <=> Named(s)
                               /\ dir'[s] = "none" <=> dir[s] = "none"
                               /\ Early(s)' => Early(s)
                               /\ stage'[s] = "new" => stage[s] = "new"
    PROVE  PlaceOK'
  BY DEF PlaceOK, Named

\* The common part of the two lemmas below: what a step other than a registration changes
\* of what Life looks at.
Looks(S) ==
    /\ registry' = registry \ S
    /\ \A s \in Requests :
         /\ dir'[s] = dir[s]
         /\ UnderDestruction(s)' <=> UnderDestruction(s) \/ s \in S
         /\ Named(s)' <=> Named(s)
         /\ Launching(s)' <=> Launching(s)
    /\ phase' # "down" <=> phase # "down"

Own == Requests \ ManualDir

\* Where a session stands, from what is known of it.
LEMMA LifeIs ==
    ASSUME IInv, PlaceOK, NEW s \in Requests
    PROVE  /\ Life(s) = "removed" <=> dir[s] = "removed"
           /\ Life(s) = "listed" <=> s \in registry
           /\ Life(s) = "ending" <=> dir[s] # "removed" /\ s \notin registry /\ UnderDestruction(s)
           /\ Life(s) = "left" <=> dir[s] = "left" /\ ~UnderDestruction(s)
           /\ Life(s) = "forgotten" <=> /\ Named(s) /\ dir[s] = "present" /\ s \notin registry
                                        /\ ~UnderDestruction(s)
           /\ Life(s) = "launching" <=> Launching(s)
           /\ Life(s) = "absent" <=> dir[s] = "none"
           /\ Named(s) => Life(s) \in {"removed", "listed", "ending", "left", "forgotten"}
<1>1. UnderDestruction(s) => Known(s)
  BY DEF UnderDestruction, Known
<1>2. /\ s \in registry => Known(s) /\ dir[s] = "present"
      /\ Tried(s) => s \notin registry
  BY DEF IInv, RemovedOK, ListedOK, Known
<1>3. /\ Known(s) => Named(s)
      /\ Named(s) => dir[s] # "none" /\ ~Early(s)
      /\ Launching(s) => ~Named(s) /\ dir[s] = "present"
  BY DEF PlaceOK, Launching, Early, IInv, EarlyOK
<1>4. dir[s] \in {"none", "present", "removed", "left"}
  BY DEF IInv, TypeOK
<1> QED  BY <1>1, <1>2, <1>3, <1>4 DEF Life, Named, Launching, Tried

\* Taking the sessions of S away to be destroyed is a step of SessionLife, and so is, with
\* S empty, whatever Life does not see.
LEMMA DestroyRefines ==
    ASSUME IInv, PlaceOK, NEW S \in SUBSET Requests, \A s \in S : Named(s), Looks(S)
    PROVE  [Promise!Next]_(Promise!vars)
<1> DEFINE T == {s \in Own : s \in S /\ Life(s) \in {"listed", "forgotten", "left"}}
           lives == [s \in Own |-> Life(s)]
<1>1. ASSUME NEW s \in Requests
      PROVE  Life(s)' = IF s \in S /\ Life(s) \in {"listed", "forgotten", "left"}
                        THEN "ending" ELSE Life(s)
  <2>1. CASE s \in S
    <3>1. Named(s) /\ s \notin registry' /\ dir'[s] = dir[s] /\ UnderDestruction(s)'
      BY <2>1 DEF Looks
    <3>2. Life(s) \in {"removed", "listed", "ending", "left", "forgotten"}
      BY <3>1, LifeIs
    <3>3. Life(s)' = IF dir[s] = "removed" THEN "removed" ELSE "ending"
      BY <3>1 DEF Life
    <3> QED  BY <2>1, <3>2, <3>3, LifeIs
  <2>2. CASE s \notin S
    <3>1. /\ dir'[s] = dir[s] /\ (s \in registry' <=> s \in registry)
          /\ (UnderDestruction(s)' <=> UnderDestruction(s))
          /\ (Named(s)' <=> Named(s)) /\ (Launching(s)' <=> Launching(s))
      BY <2>2 DEF Looks
    <3>2. Life(s)' = Life(s)
      BY <3>1 DEF Life, Named, Launching
    <3> QED  BY <2>2, <3>2
  <2> QED  BY <2>1, <2>2
<1>2. T \in SUBSET Promise!Found
  BY DEF Promise!Found, Promise!At, Own
<1>3. lives' = [s \in Own |-> IF s \in T THEN "ending" ELSE lives[s]]
  <2>1. lives' = [s \in Own |-> Life(s)']
    OBVIOUS
  <2>2. \A s \in Own : Life(s)' = IF s \in T THEN "ending" ELSE lives[s]
    BY <1>1 DEF Own
  <2> HIDE DEF T
  <2> QED  BY <2>1, <2>2
<1>4. (phase # "down")' = (phase # "down")
  BY DEF Looks
<1> HIDE DEF T
<1>5. Promise!Destroy(T)
  BY <1>2, <1>3, <1>4 DEF Promise!Destroy, Promise!Move, Own
<1> QED  BY <1>2, <1>5 DEF Promise!Next
\* What the common beginning of the pipeline changes of what Life looks at.
LEMMA BeginLooks ==
    ASSUME IInv, NEW S \in SUBSET Requests, NEW by, NEW rest \in SUBSET tasks,
           \A t \in tasks : t.at # "waiting" => t \in rest,
           Begin(S, by, rest)
    PROVE  /\ registry' = registry \ S
           /\ \A s \in Requests : UnderDestruction(s)' <=> UnderDestruction(s) \/ s \in S
           /\ \A t \in tasks' : t.of \in S \/ t \in tasks
<1> DEFINE At(s) == IF handle[s] THEN "closing" ELSE "replay"
           Task(s) == [by |-> by, of |-> s, at |-> At(s)]
<1>1. tasks' = rest \cup {Task(s) : s \in S} /\ registry' = registry \ S
  BY DEF Begin, Destroyed
<1>2. \A s \in S : Task(s).of = s /\ Task(s).at # "waiting"
  OBVIOUS
<1> HIDE DEF Task, At
<1> QED  BY <1>1, <1>2 DEF UnderDestruction

\* A request's step that destroys at most the session of its own browser.
LEMMA ReleaseLooks ==
    ASSUME IInv, PlaceOK, NEW r \in Requests, NEW rest \in SUBSET tasks,
           \A t \in tasks : t.at # "waiting" => t \in rest,
           DestroyForBrowser(r, rest)
    PROVE  \E S \in SUBSET registry :
             /\ registry' = registry \ S
             /\ \A s \in Requests : UnderDestruction(s)' <=> UnderDestruction(s) \/ s \in S
             /\ \A t \in tasks' : t.of \in S \/ t \in tasks
<1> DEFINE b == browserOf[r]
<1>0. registry \subseteq Requests
  BY DEF IInv, TypeOK
<1>1. CASE b \in registry
  <2>1. Begin({b}, r, rest)
    BY <1>1 DEF DestroyForBrowser
  <2> HIDE DEF b
  <2>2. {b} \in SUBSET registry
    BY <1>1
  <2> QED  BY <1>0, <2>1, <2>2, BeginLooks
<1>2. CASE b \notin registry
  <2>1. tasks' = rest /\ registry' = registry
    BY <1>2 DEF DestroyForBrowser
  <2>2. {} \in SUBSET registry /\ registry' = registry \ {}
    BY <2>1
  <2>3. \A s \in Requests : UnderDestruction(s)' <=> UnderDestruction(s)
    BY <2>1 DEF UnderDestruction
  <2> QED  BY <2>1, <2>2, <2>3
<1> QED  BY <1>1, <1>2

\* What a step that keeps the directories, the requests before their registration and the
\* shutdown where they are does to the sessions.
Takes(S) ==
    /\ registry' = registry \ S
    /\ \A s \in Requests : UnderDestruction(s)' <=> UnderDestruction(s) \/ s \in S
    /\ \A t \in tasks' : t.of \in S \/ \E u \in tasks : u.of = t.of

LEMMA TakesRefines ==
    ASSUME IInv, PlaceOK, NEW S \in SUBSET Requests, \A s \in S : Known(s), Takes(S),
           UNCHANGED dir,
           \A k \in Killers : killed'[k] \subseteq killed[k] \cup registry,
           \A s \in Requests : /\ Named(s)' <=> Named(s)
                               /\ Launching(s)' <=> Launching(s)
                               /\ stage'[s] = "new" => stage[s] = "new",
           phase' # "down" <=> phase # "down"
    PROVE  PlaceOK' /\ [Promise!Next]_(Promise!vars)
<1>1. ASSUME NEW s \in Requests
      PROVE  (Known(s)' => Known(s)) /\ (Early(s)' => Early(s))
  <2>1. ASSUME Known(s)' PROVE Known(s)
    <3>1. CASE s \in registry'
      BY <3>1 DEF Takes, Known
    <3>2. ASSUME NEW t \in tasks', t.of = s PROVE Known(s)
      BY <3>2 DEF Takes, Known
    <3>3. ASSUME NEW k \in Killers, s \in killed'[k] PROVE Known(s)
      BY <3>3 DEF Known
    <3> QED  BY <2>1, <3>1, <3>2, <3>3 DEF Known
  <2> QED  BY <2>1 DEF Launching, Early
<1>2. PlaceOK'
  BY <1>1, PlaceKept
<1>3. \A s \in S : Named(s)
  BY DEF PlaceOK
<1>4. Looks(S)
  BY <1>1 DEF Looks, Takes
<1> QED  BY <1>2, <1>3, <1>4, DestroyRefines

\* Nothing of the registry or of the tasks changes.
LEMMA TakesNothing ==
    ASSUME UNCHANGED <<registry, tasks>>
    PROVE  Takes({})
  BY DEF Takes, UnderDestruction

\* A request: its launch, its registration, and everything it does with a browser.
LEMMA LaunchRefines ==
    ASSUME IInv, PlaceOK, NEW r \in Requests, DirMade(r) \/ LaunchFails(r) \/ Register(r)
    PROVE  PlaceOK' /\ [Promise!Next]_(Promise!vars)
<1> DEFINE lives == [s \in Own |-> Life(s)]
<1> USE DEF To, sessionVars, requestVars, killVars
<1>1. /\ ~Known(r) /\ ~Named(r)
      /\ \A s \in Requests : UnderDestruction(s) => Known(s)
  BY DEF PlaceOK, Early, DirMade, LaunchFails, Register, UnderDestruction, Known
<1>2. ASSUME NEW to \in {"launching", "failed", "listed"},
             Life(r)' = to, \A s \in Requests \ {r} : Life(s)' = Life(s)
      PROVE  lives' = [s \in Own |-> IF s \in {r} THEN to ELSE lives[s]]
  <2>1. lives' = [s \in Own |-> Life(s)']
    OBVIOUS
  <2>2. \A s \in Own : Life(s)' = IF s \in {r} THEN to ELSE lives[s]
    BY <1>2 DEF Own
  <2> QED  BY <2>1, <2>2
<1>3. CASE DirMade(r)
  <2>1. /\ dir[r] = "none" /\ dir'[r] = "present" /\ Launching(r)' /\ ~UnderDestruction(r)'
        /\ r \notin registry'
    BY <1>1, <1>3 DEF DirMade, PlaceOK, IInv, TypeOK, Launching, UnderDestruction, Known
  <2>2. \A s \in Requests \ {r} : Life(s)' = Life(s)
    BY <1>3 DEF DirMade, IInv, TypeOK, Life, UnderDestruction
  <2>3. Life(r) = "absent" /\ Life(r)' = "launching"
    <3>1. Life(r)' = "launching"
      BY <2>1 DEF Life, Launching
    <3> QED  BY <2>1, <3>1, LifeIs
  <2>4. UNCHANGED phase
    BY <1>3 DEF DirMade
  <2>5. PlaceOK'
    BY <1>1, <1>3, <2>1 DEF DirMade, PlaceOK, IInv, TypeOK, Early, Named, Known
  <2>6. r \in Own => Promise!Launch(r)
    BY <1>2, <2>2, <2>3, <2>4 DEF Promise!Launch, Promise!Move, Own
  <2>7. r \notin Own => UNCHANGED Promise!vars
    BY <2>2, <2>4 DEF Promise!vars, Own
  <2> QED  BY <2>5, <2>6, <2>7 DEF Promise!Next, Own
<1>4. CASE LaunchFails(r)
  <2>1. /\ Launching(r) /\ ~Launching(r)' /\ dir[r] = "present" /\ dir' = dir /\ ~UnderDestruction(r)'
        /\ ~Named(r)' /\ r \notin registry'
    BY <1>1, <1>4 DEF LaunchFails, IInv, EarlyOK, Early, TypeOK, Launching, UnderDestruction,
                      Known, Named
  <2>2. \A s \in Requests \ {r} : Life(s)' = Life(s)
    BY <1>4 DEF LaunchFails, IInv, TypeOK, Life, UnderDestruction
  <2>3. Life(r) = "launching" /\ Life(r)' = "failed"
    <3>1. Life(r)' = "failed"
      BY <2>1 DEF Life, Launching, Named
    <3> QED  BY <2>1, <3>1, LifeIs
  <2>4. UNCHANGED phase
    BY <1>4 DEF LaunchFails
  <2>5. PlaceOK'
    BY <1>4 DEF LaunchFails, PlaceOK, IInv, TypeOK, Early, Named, Known
  <2>6. r \in Own => Promise!Fail(r)
    BY <1>2, <2>2, <2>3, <2>4 DEF Promise!Fail, Promise!Move, Own
  <2>7. r \notin Own => UNCHANGED Promise!vars
    BY <2>2, <2>4 DEF Promise!vars, Own
  <2> QED  BY <2>5, <2>6, <2>7 DEF Promise!Next, Own
<1>5. CASE Register(r)
  <2>1. /\ Launching(r) /\ dir[r] = "present" /\ dir' = dir /\ Named(r)' /\ r \in registry'
        /\ registry' = registry \cup {r} /\ ~Early(r)'
        /\ \A s \in Requests \ {r} : /\ stage'[s] = stage[s] /\ browserOf'[s] = browserOf[s]
    BY <1>5 DEF Register, IInv, EarlyOK, Early, TypeOK, Launching, Named
  <2>2. \A s \in Requests \ {r} : Life(s)' = Life(s)
    BY <1>5, <2>1 DEF Register, Life, UnderDestruction
  <2>3. Life(r) = "launching" /\ Life(r)' = "listed"
    <3>1. Life(r)' = "listed"
      BY <2>1 DEF Life
    <3> QED  BY <2>1, <3>1, LifeIs
  <2>4. UNCHANGED phase
    BY <1>5 DEF Register
  <2>5. PlaceOK'
    BY <1>5, <2>1 DEF Register, PlaceOK, Early, Named, Known
  <2>6. r \in Own => Promise!List(r)
    BY <1>2, <2>2, <2>3, <2>4 DEF Promise!List, Promise!Move, Own
  <2>7. r \notin Own => UNCHANGED Promise!vars
    BY <2>2, <2>4 DEF Promise!vars, Own
  <2> QED  BY <2>5, <2>6, <2>7 DEF Promise!Next, Own
<1> QED  BY <1>3, <1>4, <1>5

LEMMA RequestRefines ==
    ASSUME IInv, PlaceOK, NEW r \in Requests,
           \/ Refused(r) \/ Launched(r) \/ SetUp(r) \/ Reconnect(r) \/ Handle(r)
           \/ HandlerEnds(r) \/ HandlerFails(r) \/ BeforeClose(r)
    PROVE  PlaceOK' /\ [Promise!Next]_(Promise!vars)
<1> USE DEF To, sessionVars, requestVars, killVars
<1>0. /\ {} \in SUBSET Requests /\ registry \subseteq Requests
      /\ \A s \in registry : Known(s)
  BY DEF IInv, TypeOK, Known
<1>1. CASE Refused(r) \/ Launched(r) \/ SetUp(r) \/ Handle(r)
  <2>1. /\ UNCHANGED <<registry, tasks, dir, browserOf, killed, phase>>
        /\ \A s \in Requests : /\ Launching(s)' <=> Launching(s)
                               /\ stage'[s] = "new" => stage[s] = "new"
    BY <1>1 DEF Refused, Launched, SetUp, Handle, IInv, TypeOK, Launching
  <2> QED  BY <1>0, <2>1, TakesNothing, TakesRefines DEF Named
<1>2. CASE Reconnect(r)
  <2>1. PICK b \in registry : browserOf' = [browserOf EXCEPT ![r] = b]
    BY <1>2 DEF Reconnect
  <2>2. ~Named(r) /\ ~Known(r) /\ b # r
    BY <1>0, <1>2, <2>1 DEF Reconnect, PlaceOK, Early
  <2>3. \A s \in Requests : Named(s)' <=> Named(s)
    BY <2>1, <2>2 DEF IInv, TypeOK, Named
  <2>4. /\ UNCHANGED <<registry, tasks, dir, killed, phase>>
        /\ \A s \in Requests : /\ Launching(s)' <=> Launching(s)
                               /\ stage'[s] = "new" => stage[s] = "new"
    BY <1>2 DEF Reconnect, IInv, TypeOK, Launching
  <2> QED  BY <1>0, <2>3, <2>4, TakesNothing, TakesRefines
<1>3. ASSUME \E S \in SUBSET registry : Takes(S),
             UNCHANGED <<dir, browserOf, killed, phase>>,
             \/ stage[r] \in {"returned", "handling"} /\ stage' = [stage EXCEPT ![r] = "ended"]
             \/ UNCHANGED stage
      PROVE  PlaceOK' /\ [Promise!Next]_(Promise!vars)
  <2>1. PICK S \in SUBSET registry : Takes(S)
    BY <1>3
  <2>2. S \in SUBSET Requests /\ \A s \in S : Known(s)
    BY <1>0
  <2>3. \A s \in Requests : /\ Launching(s)' <=> Launching(s)
                            /\ stage'[s] = "new" => stage[s] = "new"
    BY <1>3 DEF IInv, TypeOK, Launching
  <2> QED  BY <1>3, <2>1, <2>2, <2>3, TakesRefines DEF Named
<1>4. ASSUME Destroy(r) PROVE \E S \in SUBSET registry : Takes(S)
  <2>1. CASE browserOf[r] \in registry /\ InBeforeClose(browserOf[r])
    <3>1. /\ tasks' = tasks \cup {[by |-> r, of |-> browserOf[r], at |-> "waiting"]}
          /\ UNCHANGED registry
      BY <1>4, <2>1 DEF Destroy
    <3>2. PICK t \in tasks : t.of = browserOf[r]
      BY <2>1 DEF InBeforeClose
    <3>3. Takes({})
      BY <3>1, <3>2 DEF Takes, UnderDestruction
    <3> QED  BY <3>3
  <2>2. CASE ~(browserOf[r] \in registry /\ InBeforeClose(browserOf[r]))
    <3>1. DestroyForBrowser(r, tasks)
      BY <1>4, <2>2 DEF Destroy
    <3> QED  BY <3>1, ReleaseLooks DEF Takes
  <2> QED  BY <2>1, <2>2
<1>5. UNCHANGED <<registry, tasks>> => \E S \in SUBSET registry : Takes(S)
  BY TakesNothing
<1>6. CASE HandlerEnds(r) \/ HandlerFails(r)
  BY <1>3, <1>4, <1>5, <1>6 DEF HandlerEnds, HandlerFails
<1>7. CASE BeforeClose(r)
  <2> DEFINE b == browserOf[r]
  <2>1. CASE b \in registry
    <3>1. Begin({b}, "beforeClose", tasks)
      BY <1>7, <2>1 DEF BeforeClose
    <3> HIDE DEF b
    <3>2. Takes({b})
      BY <1>0, <2>1, <3>1, BeginLooks DEF Takes
    <3>3. {b} \in SUBSET registry
      BY <2>1
    <3> QED  BY <1>3, <1>7, <3>2, <3>3 DEF BeforeClose
  <2>2. CASE b \notin registry
    BY <1>3, <1>5, <1>7, <2>2 DEF BeforeClose
  <2> QED  BY <2>1, <2>2
<1> QED  BY <1>1, <1>2, <1>6, <1>7
\* A step of a destruction: only the attempt to remove its directory ends one.
LEMMA WorkRefines ==
    ASSUME IInv, PlaceOK, NEW t \in tasks, Work(t)
    PROVE  PlaceOK' /\ [Promise!Next]_(Promise!vars)
<1> DEFINE lives == [s \in Own |-> Life(s)]
<1> USE DEF sessionVars, requestVars, killVars
<1>0. t \in TaskSet /\ {} \in SUBSET Requests
  BY DEF IInv, TypeOK, TaskSet
<1>1. ASSUME t.at # "waiting", NEW at \in {"replay", "rmdir"}, tasks' = Moved(t, at),
             UNCHANGED <<requestVars, killed, dir, registry, phase>>
      PROVE  PlaceOK' /\ [Promise!Next]_(Promise!vars)
  <2> DEFINE u == [t EXCEPT !.at = at]
  <2>1. tasks' = (tasks \ {t}) \cup {u} /\ u.of = t.of /\ u.at # "waiting"
    BY <1>0, <1>1 DEF Moved, TaskSet
  <2> HIDE DEF u
  <2>2. Takes({})
    BY <1>1, <2>1 DEF Takes, UnderDestruction
  <2> QED  BY <1>0, <1>1, <2>2, TakesRefines DEF Named, Launching
<1>2. CASE BrowserClosed(t) \/ ReplayStopped(t)
  BY <1>1, <1>2 DEF BrowserClosed, ReplayStopped
<1>3. CASE RemoveUserDataDir(t)
  <2> DEFINE r == t.of
  <2>1. /\ r \in Requests /\ r \notin registry /\ tasks' = tasks \ {t} /\ t.at = "rmdir"
        /\ UNCHANGED <<requestVars, killed, registry, phase>>
        /\ dir' \in [Requests -> {"none", "present", "removed", "left"}]
        /\ \A s \in Requests : s # r \/ s \in ManualDir \/ dir[s] = "removed" => dir'[s] = dir[s]
        /\ r \notin ManualDir => Tried(r)'
    BY <1>0, <1>3 DEF RemoveUserDataDir, IInv, TypeOK, TasksOK, TaskSet, Tried
  <2>2. Known(r) /\ UnderDestruction(r) /\ dir[r] # "none"
    BY <2>1 DEF Known, UnderDestruction, PlaceOK
  <2> HIDE DEF r
  <2>3. PlaceOK'
    BY <2>1, <2>2 DEF PlaceOK, IInv, TypeOK, Early, Named, Known, Tried
  <2>4. \A s \in Own \ {r} : Life(s)' = Life(s)
    <3> SUFFICES ASSUME NEW s \in Own \ {r} PROVE Life(s)' = Life(s)
      OBVIOUS
    <3>1. t.of # s
      BY DEF r
    <3>2. dir'[s] = dir[s] /\ (UnderDestruction(s)' <=> UnderDestruction(s))
      BY <2>1, <3>1 DEF UnderDestruction, IInv, TypeOK, Own
    <3> QED  BY <2>1, <3>2 DEF Life
  \* Another destruction of the session may still be under way.
  <2>5. ASSUME r \in Own
        PROVE  /\ Life(r) \in {"ending", "removed"}
               /\ Life(r) = "removed" => Life(r)' = "removed"
               /\ Life(r)' \in {"removed", "left", "ending"}
    <3>1. Life(r) \in {"ending", "removed"}
      BY <2>1, <2>2, LifeIs
    <3>2. Life(r) = "removed" => Life(r)' = "removed"
      BY <2>1, <2>2, LifeIs DEF Life
    <3>3. Life(r)' \in {"removed", "left", "ending"}
      BY <2>1, <2>5 DEF Life, Tried, Own
    <3> QED  BY <3>1, <3>2, <3>3
  <2>6. ASSUME r \in Own, NEW to \in {"removed", "left"}, Life(r)' = to, Life(r) = "ending"
        PROVE  Promise!Clean(r)
    <3>1. lives' = [s \in Own |-> Life(s)']
      OBVIOUS
    <3>2. \A s \in Own : Life(s)' = IF s \in {r} THEN to ELSE lives[s]
      BY <2>4, <2>6
    <3>3. lives' = [s \in Own |-> IF s \in {r} THEN to ELSE lives[s]]
      BY <3>1, <3>2
    <3> QED  BY <2>1, <2>6, <3>3 DEF Promise!Clean, Promise!Move, Own
  <2>7. ASSUME r \in Own => Life(r)' = Life(r)
        PROVE  UNCHANGED Promise!vars
    <3>1. \A s \in Own : Life(s)' = Life(s)
      BY <2>4, <2>7
    <3> QED  BY <2>1, <3>1 DEF Promise!vars, Own
  <2> QED  BY <2>3, <2>5, <2>6, <2>7 DEF Promise!Next, Own
<1>4. CASE ReleaseResumes(t)
  <2> DEFINE r == t.by
             rest == tasks \ {t}
  <2>1. r \in Requests /\ rest \in SUBSET tasks /\ \A u \in tasks : u.at # "waiting" => u \in rest
    BY <1>4 DEF ReleaseResumes, IInv, TasksOK
  <2>2. DestroyForBrowser(r, rest)
    BY <1>4 DEF ReleaseResumes
  <2> HIDE DEF r, rest
  <2>3. PICK S \in SUBSET registry : Takes(S)
    BY <2>1, <2>2, ReleaseLooks DEF Takes
  <2>4. S \in SUBSET Requests /\ \A s \in S : Known(s)
    BY DEF IInv, TypeOK, Known
  <2> QED  BY <1>4, <2>3, <2>4, TakesRefines DEF ReleaseResumes, Named, Launching
<1> QED  BY <1>2, <1>3, <1>4 DEF Work

LEMMA CallersRefine ==
    ASSUME IInv, PlaceOK,
           \/ \E k \in Killers : KillNext(k) \/ \E S \in SUBSET registry : KillSessions(k, S)
           \/ WatchdogTick \/ Shutdown \/ ShutdownDestroys
    PROVE  PlaceOK' /\ [Promise!Next]_(Promise!vars)
<1> USE DEF requestVars, sessionVars, killVars
<1>0. /\ {} \in SUBSET Requests /\ registry \subseteq Requests
      /\ \A s \in registry : Known(s)
  BY DEF IInv, TypeOK, Known
<1>1. ASSUME NEW S \in SUBSET Requests, \A s \in S : Known(s), NEW by, Begin(S, by, tasks),
             UNCHANGED <<requestVars, dir, killed>>, phase' # "down" <=> phase # "down"
      PROVE  PlaceOK' /\ [Promise!Next]_(Promise!vars)
  <2>1. Takes(S)
    BY <1>1, BeginLooks DEF Takes
  <2> QED  BY <1>1, <2>1, TakesRefines DEF Named, Launching
<1>2. ASSUME NEW k \in Killers, KillNext(k) PROVE PlaceOK' /\ [Promise!Next]_(Promise!vars)
  <2>1. PICK s \in killLeft[k] : Begin({s}, k, tasks)
    BY <1>2 DEF KillNext
  <2>2. Known(s) /\ s \in Requests
    BY DEF IInv, TypeOK, KilledOK, Known
  <2> QED  BY <1>1, <1>2, <2>1, <2>2 DEF KillNext
<1>3. ASSUME NEW k \in Killers, NEW S \in SUBSET registry, KillSessions(k, S)
      PROVE  PlaceOK' /\ [Promise!Next]_(Promise!vars)
  <2>1. \A j \in Killers : killed'[j] \subseteq killed[j] \cup registry
    BY <1>3 DEF KillSessions, IInv, TypeOK
  <2>2. Takes({})
    BY <1>3, TakesNothing DEF KillSessions
  <2> QED  BY <1>0, <1>3, <2>1, <2>2, TakesRefines DEF KillSessions, Named, Launching
<1>4. CASE WatchdogTick
  BY <1>0, <1>1, <1>4 DEF WatchdogTick, Stale
<1>5. CASE ShutdownDestroys
  BY <1>0, <1>1, <1>5 DEF ShutdownDestroys
<1>6. CASE Shutdown
  <2> DEFINE cut == {t \in tasks : t.by = "watchdog"}
             new == {[t EXCEPT !.at = "rmdir"] : t \in cut}
  <2>1. /\ tasks' = (tasks \ cut) \cup new
        /\ phase = "up" /\ phase' = "stopping"
        /\ UNCHANGED <<requestVars, dir, killVars, registry>>
    BY <1>6 DEF Shutdown
  <2>2. ASSUME NEW t \in cut
        PROVE  LET u == [t EXCEPT !.at = "rmdir"]
               IN  u.of = t.of /\ u.at = "rmdir" /\ t.at # "waiting"
    BY SessionLifecycleAssumption DEF IInv, TypeOK, TasksOK, TaskSet
  <2>3. /\ \A u \in new : u.at = "rmdir" /\ \E t \in cut : t.of = u.of /\ t.at # "waiting"
        /\ \A t \in cut : \E u \in new : u.of = t.of
    BY <2>2
  <2> HIDE DEF new
  <2>4. Takes({})
    <3>1. \A s \in Requests : UnderDestruction(s)' => UnderDestruction(s)
      BY <2>1, <2>3 DEF UnderDestruction
    <3>2. \A s \in Requests : UnderDestruction(s) => UnderDestruction(s)'
      BY <2>1, <2>3 DEF UnderDestruction
    <3> QED  BY <2>1, <2>3, <3>1, <3>2 DEF Takes
  <2> QED  BY <1>0, <2>1, <2>4, TakesRefines DEF Named, Launching
<1> QED  BY <1>2, <1>3, <1>4, <1>5, <1>6

\* The end of the shutdown clears the registry, whatever was listed since its snapshot.
LEMMA ShutdownEndsRefines ==
    ASSUME IInv, PlaceOK, ShutdownEnds
    PROVE  PlaceOK' /\ [Promise!Next]_(Promise!vars)
<1> DEFINE lives == [s \in Own |-> Life(s)]
<1>1. /\ phase = "destroying" /\ phase' = "down" /\ registry' = {}
      /\ UNCHANGED <<requestVars, sessionVars, killVars, tasks>>
  BY DEF ShutdownEnds
<1>2. PlaceOK'
  BY <1>1 DEF PlaceOK, Early, Named, Known, requestVars, sessionVars, killVars
<1>3. ASSUME NEW s \in Own
      PROVE  Life(s)' = IF s \in Promise!At("listed") THEN "forgotten" ELSE Life(s)
  <2>1. s \in Promise!At("listed") <=> s \in registry
    BY LifeIs DEF Promise!At, Own
  <2>2. CASE s \in registry
    <3>1. Known(s) /\ Named(s) /\ ~Early(s) /\ dir[s] = "present" /\ ~UnderDestruction(s)
      BY <2>2 DEF Known, PlaceOK, Own, IInv, ListedOK, TasksOK, UnderDestruction
    <3> QED
      BY <1>1, <2>1, <2>2, <3>1
         DEF Life, Named, Early, UnderDestruction, requestVars, sessionVars
  <2>3. CASE s \notin registry
    BY <1>1, <2>1, <2>3 DEF Life, UnderDestruction, requestVars, sessionVars
  <2> QED  BY <2>2, <2>3
<1>4. lives' = [s \in Own |-> IF s \in Promise!At("listed") THEN "forgotten" ELSE lives[s]]
  <2>1. lives' = [s \in Own |-> Life(s)']
    OBVIOUS
  <2> QED  BY <1>3, <2>1
<1>5. Promise!ShutDown
  BY <1>1, <1>4 DEF Promise!ShutDown, Promise!Move, Own
<1> QED  BY <1>2, <1>5 DEF Promise!Next

\* The server implements SessionLife: whoever destroys a session, and whoever else does or
\* is interrupted, its destruction ends only with an attempt to remove its directory.
THEOREM Implementation == Spec => ImplementsSessionLife
<1>1. Init => PlaceOK /\ Promise!Init
  <2> SUFFICES ASSUME Init PROVE PlaceOK /\ Promise!Init
    OBVIOUS
  <2>1. NoBrowser \notin Requests
    BY SessionLifecycleAssumption
  <2>2. PlaceOK
    BY <2>1 DEF Init, PlaceOK, Named, Known
  <2>3. \A s \in Requests : Life(s) = "absent"
    BY DEF Init, Life, UnderDestruction
  <2> QED  BY <2>2, <2>3 DEF Init, Promise!Init
<1>2. IInv /\ PlaceOK /\ [Next]_vars => PlaceOK' /\ [Promise!Next]_(Promise!vars)
  <2> SUFFICES ASSUME IInv, PlaceOK, [Next]_vars
               PROVE  PlaceOK' /\ [Promise!Next]_(Promise!vars)
    OBVIOUS
  <2>1. ASSUME NEW r \in Requests, Serve(r) PROVE PlaceOK' /\ [Promise!Next]_(Promise!vars)
    BY <2>1, LaunchRefines, RequestRefines DEF Serve
  <2>2. ASSUME NEW t \in tasks, Work(t) PROVE PlaceOK' /\ [Promise!Next]_(Promise!vars)
    BY <2>2, WorkRefines
  <2>3. ASSUME \/ \E k \in Killers : KillNext(k) \/ \E S \in SUBSET registry : KillSessions(k, S)
               \/ WatchdogTick \/ Shutdown \/ ShutdownDestroys \/ ShutdownEnds
        PROVE  PlaceOK' /\ [Promise!Next]_(Promise!vars)
    BY <2>3, CallersRefine, ShutdownEndsRefines
  <2>4. ASSUME UNCHANGED <<requestVars, dir, registry, tasks, killed, phase>>
        PROVE  PlaceOK' /\ [Promise!Next]_(Promise!vars)
    <3>1. Takes({}) /\ {} \in SUBSET Requests
      BY <2>4, TakesNothing
    <3> QED  BY <2>4, <3>1, TakesRefines DEF Named, Launching, requestVars
  <2>5. ASSUME NEW s \in Requests, ChromeExits(s) \/ ChromeCrashes(s) \/ Ages(s)
        PROVE  UNCHANGED <<requestVars, dir, registry, tasks, killed, phase>>
    BY <2>5 DEF ChromeExits, ChromeCrashes, Ages, requestVars, killVars
  <2>6. CASE Rest \/ UNCHANGED vars
    BY <2>4, <2>6 DEF Rest, vars, requestVars
  <2> QED  BY <2>1, <2>2, <2>3, <2>4, <2>5, <2>6 DEF Next
<1> QED  BY <1>1, <1>2, Invariance, PTL DEF Spec, ImplementsSessionLife, Promise!Spec
=============================================================================

----------------------------- MODULE Cdp_proofs -----------------------------
(***************************************************************************)
(* The two ends of CDP in this process.  Towards Chrome, CdpConnection:    *)
(* its correlation map is right for any number of commands and any ids of  *)
(* a client's.  The invariant is the conjunction of the checked ones: an   *)
(* answer reaches the right call only because ids are fresh, and a call is *)
(* resumed once only because the map has its entry exactly while it waits. *)
(* Towards a client, CdpProxy: its flush runs once and its answer comes    *)
(* last because each needs the first Browser.close, or the end of a proxy  *)
(* that had none.                                                          *)
(***************************************************************************)
EXTENDS CdpConnection, CdpProxy, TLAPS

IInv ==
    /\ TypeOK
    /\ ResumedOnce
    /\ PendingMatchesCallers
    /\ AnswersMatch
    /\ NoneWaitsAfterDispose
    /\ IdsFresh

LEMMA InitIInv ==
    ASSUME CdpConnectionAssumption, Init
    PROVE  IInv
<1>1. TypeOK
  BY DEF CdpConnectionAssumption, Init, TypeOK, Ids, Outcomes
<1>2. ResumedOnce /\ PendingMatchesCallers /\ AnswersMatch /\ NoneWaitsAfterDispose
  BY DEF Init, ResumedOnce, PendingMatchesCallers, AnswersMatch, NoneWaitsAfterDispose
<1>3. IdsFresh
  BY DEF CdpConnectionAssumption, Init, IdsFresh
<1> QED BY <1>1, <1>2, <1>3 DEF IInv

-----------------------------------------------------------------------------
(* Each action preserves the invariant                                     *)

LEMMA SendIInv ==
    ASSUME CdpConnectionAssumption, IInv,
           NEW c \in Commands, Send(c)
    PROVE  IInv'
<1>1. TypeOK'
  BY DEF IInv, TypeOK, Ids, Outcomes, Send, WithEntry
<1>2. ResumedOnce'
  BY DEF IInv, TypeOK, Ids, Outcomes, ResumedOnce, Send, WithEntry
<1>3. PendingMatchesCallers'
  BY DEF IInv, TypeOK, Ids, ResumedOnce, PendingMatchesCallers, IdsFresh, Send,
         WithEntry
<1>4. AnswersMatch'
  BY DEF IInv, TypeOK, Ids, PendingMatchesCallers, AnswersMatch, IdsFresh, Send,
         WithEntry
<1>5. NoneWaitsAfterDispose'
  BY DEF IInv, AnswersMatch, NoneWaitsAfterDispose, Send
<1>6. IdsFresh'
  BY DEF IInv, TypeOK, Ids, NoneWaitsAfterDispose, IdsFresh, Send, WithEntry
<1> QED BY <1>1, <1>2, <1>3, <1>4, <1>5, <1>6 DEF IInv

LEMMA SendThrowsIInv ==
    ASSUME CdpConnectionAssumption, IInv,
           NEW c \in Commands, SendThrows(c)
    PROVE  IInv'
<1>1. TypeOK'
  BY DEF IInv, TypeOK, Ids, Outcomes, SendThrows, Resume, Without
<1>2. ResumedOnce'
  BY DEF IInv, TypeOK, Ids, Outcomes, ResumedOnce, SendThrows, Resume, Without
<1>3. PendingMatchesCallers'
  BY DEF IInv, TypeOK, Ids, ResumedOnce, PendingMatchesCallers, IdsFresh, SendThrows,
         Resume, Without
<1>4. AnswersMatch'
  BY DEF IInv, TypeOK, Ids, PendingMatchesCallers, AnswersMatch, IdsFresh, SendThrows,
         Resume, Without
<1>5. NoneWaitsAfterDispose'
  BY DEF IInv, AnswersMatch, NoneWaitsAfterDispose, SendThrows, Resume
<1>6. IdsFresh'
  BY DEF IInv, TypeOK, Ids, NoneWaitsAfterDispose, IdsFresh, SendThrows, Without
<1> QED BY <1>1, <1>2, <1>3, <1>4, <1>5, <1>6 DEF IInv

LEMMA SendRefusedIInv ==
    ASSUME CdpConnectionAssumption, IInv,
           NEW c \in Commands, SendRefused(c)
    PROVE  IInv'
<1>1. TypeOK'
  BY DEF IInv, TypeOK, Outcomes, SendRefused, Resume
<1>2. ResumedOnce'
  BY DEF IInv, TypeOK, Outcomes, ResumedOnce, SendRefused, Resume
<1>3. PendingMatchesCallers'
  BY DEF IInv, ResumedOnce, PendingMatchesCallers, SendRefused, Resume
<1>4. AnswersMatch'
  BY DEF IInv, PendingMatchesCallers, AnswersMatch, SendRefused, Resume
<1>5. NoneWaitsAfterDispose'
  BY DEF IInv, AnswersMatch, NoneWaitsAfterDispose, SendRefused, Resume
<1>6. IdsFresh'
  BY DEF IInv, NoneWaitsAfterDispose, IdsFresh, SendRefused, Resume
<1> QED BY <1>1, <1>2, <1>3, <1>4, <1>5, <1>6 DEF IInv

LEMMA InterruptIInv ==
    ASSUME CdpConnectionAssumption, IInv,
           NEW c \in Commands, Interrupt(c)
    PROVE  IInv'
<1>1. TypeOK'
  BY DEF IInv, TypeOK, Outcomes, Interrupt, Without
<1>2. ResumedOnce'
  BY DEF IInv, TypeOK, Outcomes, ResumedOnce, Interrupt, Without
<1>3. PendingMatchesCallers'
  BY DEF IInv, TypeOK, ResumedOnce, PendingMatchesCallers, IdsFresh, Interrupt, Without
<1>4. AnswersMatch'
  BY DEF IInv, TypeOK, PendingMatchesCallers, AnswersMatch, IdsFresh, Interrupt, Without
<1>5. NoneWaitsAfterDispose'
  BY DEF IInv, AnswersMatch, NoneWaitsAfterDispose, Interrupt
<1>6. IdsFresh'
  BY DEF IInv, NoneWaitsAfterDispose, IdsFresh, Interrupt, Without
<1> QED BY <1>1, <1>2, <1>3, <1>4, <1>5, <1>6 DEF IInv

LEMMA CommandTimeoutIInv ==
    ASSUME CdpConnectionAssumption, IInv,
           NEW e \in pending, CommandTimeout(e[1], e[2])
    PROVE  IInv'
<1>1. TypeOK'
  BY DEF IInv, TypeOK, Outcomes, CommandTimeout, Resume, Without
<1>2. ResumedOnce'
  BY DEF IInv, TypeOK, Outcomes, ResumedOnce, PendingMatchesCallers, CommandTimeout,
         Resume, Without
<1>3. PendingMatchesCallers'
  BY DEF IInv, ResumedOnce, PendingMatchesCallers, IdsFresh, CommandTimeout, Resume,
         Without
<1>4. AnswersMatch'
  BY DEF IInv, PendingMatchesCallers, AnswersMatch, IdsFresh, CommandTimeout, Resume,
         Without
<1>5. NoneWaitsAfterDispose'
  BY DEF IInv, AnswersMatch, NoneWaitsAfterDispose, CommandTimeout, Resume
<1>6. IdsFresh'
  BY DEF IInv, NoneWaitsAfterDispose, IdsFresh, CommandTimeout, Without
<1> QED BY <1>1, <1>2, <1>3, <1>4, <1>5, <1>6 DEF IInv

LEMMA HandleResponseIInv ==
    ASSUME CdpConnectionAssumption, IInv,
           NEW a \in answers, HandleResponse(a)
    PROVE  IInv'
<1> DEFINE C == {c \in Commands : <<a[1], c>> \in pending}
<1> DEFINE o == Outcome(C, a)
<1>a. o \in {"result", "gone", "clients", "misled"}
  BY DEF Outcome
<1>b. /\ pending' = Without(a[1])
      /\ Resume(C, o)
      /\ answers' = answers \ {a}
      /\ UNCHANGED <<nextId, disposed, socket, idOf, asked>>
  BY DEF HandleResponse
<1>c. \A c \in C : o = "misled" => a[2] # Client /\ c # a[2]
  <2> SUFFICES ASSUME NEW c \in C, o = "misled", a[2] = c
               PROVE  FALSE
    BY DEF Outcome
  <2>1. \A d \in C : d = c
    BY DEF IInv, IdsFresh
  <2> QED BY <2>1 DEF Outcome
<1>d. o = "clients" => a[2] = Client
  BY DEF Outcome
<1> HIDE DEF o
<1>1. TypeOK'
  BY <1>a, <1>b DEF IInv, TypeOK, Outcomes, Resume, Without
<1>2. ResumedOnce'
  BY <1>a, <1>b DEF IInv, TypeOK, Outcomes, ResumedOnce, PendingMatchesCallers, Resume,
         Without
<1>3. PendingMatchesCallers'
  BY <1>a, <1>b DEF IInv, ResumedOnce, PendingMatchesCallers, Resume, Without
<1>4. AnswersMatch'
  BY <1>b, <1>c, <1>d DEF IInv, TypeOK, PendingMatchesCallers, AnswersMatch, IdsFresh,
         Resume, Without
<1>5. NoneWaitsAfterDispose'
  BY DEF IInv, AnswersMatch, NoneWaitsAfterDispose, IdsFresh, HandleResponse, Resume,
         Without
<1>6. IdsFresh'
  BY DEF IInv, NoneWaitsAfterDispose, IdsFresh, HandleResponse, Resume, Without
<1> QED BY <1>1, <1>2, <1>3, <1>4, <1>5, <1>6 DEF IInv

LEMMA DrainPendingIInv ==
    ASSUME CdpConnectionAssumption, IInv,
           DrainPending
    PROVE  IInv'
<1>1. TypeOK'
  BY DEF IInv, TypeOK, Outcomes, DrainPending, Resume
<1>2. ResumedOnce'
  BY DEF IInv, TypeOK, Outcomes, ResumedOnce, PendingMatchesCallers, DrainPending,
         Resume
<1>3. PendingMatchesCallers'
  BY DEF IInv, TypeOK, ResumedOnce, PendingMatchesCallers, DrainPending, Resume
<1>4. AnswersMatch'
  BY DEF IInv, PendingMatchesCallers, AnswersMatch, DrainPending, Resume
<1>5. NoneWaitsAfterDispose'
  BY DEF IInv, AnswersMatch, NoneWaitsAfterDispose, DrainPending, Resume
<1>6. IdsFresh'
  BY DEF IInv, NoneWaitsAfterDispose, IdsFresh, DrainPending, Resume
<1> QED BY <1>1, <1>2, <1>3, <1>4, <1>5, <1>6 DEF IInv

LEMMA DisposeIInv ==
    ASSUME CdpConnectionAssumption, IInv,
           Dispose
    PROVE  IInv'
<1>1. TypeOK'
  BY DEF IInv, TypeOK, Outcomes, Dispose, Resume
<1>2. ResumedOnce'
  BY DEF IInv, TypeOK, Outcomes, ResumedOnce, PendingMatchesCallers, Dispose, Resume
<1>3. PendingMatchesCallers'
  BY DEF IInv, TypeOK, ResumedOnce, PendingMatchesCallers, Dispose, Resume
<1>4. AnswersMatch'
  BY DEF IInv, PendingMatchesCallers, AnswersMatch, Dispose, Resume
<1>5. NoneWaitsAfterDispose'
  BY DEF IInv, PendingMatchesCallers, AnswersMatch, NoneWaitsAfterDispose, Dispose,
         Resume
<1>6. IdsFresh'
  BY DEF IInv, PendingMatchesCallers, NoneWaitsAfterDispose, IdsFresh, Dispose, Resume
<1> QED BY <1>1, <1>2, <1>3, <1>4, <1>5, <1>6 DEF IInv

LEMMA ChromeAnswersIInv ==
    ASSUME CdpConnectionAssumption, IInv,
           NEW m \in asked, NEW kind \in {"result", "error"}, ChromeAnswers(m, kind)
    PROVE  IInv'
<1>1. TypeOK'
  BY DEF IInv, TypeOK, ChromeAnswers
<1>2. ResumedOnce'
  BY DEF IInv, TypeOK, ResumedOnce, ChromeAnswers
<1>3. PendingMatchesCallers'
  BY DEF IInv, ResumedOnce, PendingMatchesCallers, ChromeAnswers
<1>4. AnswersMatch'
  BY DEF IInv, PendingMatchesCallers, AnswersMatch, ChromeAnswers
<1>5. NoneWaitsAfterDispose'
  BY DEF IInv, AnswersMatch, NoneWaitsAfterDispose, ChromeAnswers
<1>6. IdsFresh'
  BY DEF IInv, NoneWaitsAfterDispose, IdsFresh, ChromeAnswers
<1> QED BY <1>1, <1>2, <1>3, <1>4, <1>5, <1>6 DEF IInv

LEMMA ClientSendsIInv ==
    ASSUME CdpConnectionAssumption, IInv,
           NEW id \in ForeignIds, ClientSends(id)
    PROVE  IInv'
<1>1. TypeOK'
  BY DEF IInv, TypeOK, Ids, CdpConnectionAssumption, ClientSends
<1>2. ResumedOnce'
  BY DEF IInv, TypeOK, ResumedOnce, ClientSends
<1>3. PendingMatchesCallers'
  BY DEF IInv, ResumedOnce, PendingMatchesCallers, ClientSends
<1>4. AnswersMatch'
  BY DEF IInv, PendingMatchesCallers, AnswersMatch, ClientSends
<1>5. NoneWaitsAfterDispose'
  BY DEF IInv, AnswersMatch, NoneWaitsAfterDispose, ClientSends
<1>6. IdsFresh'
  BY DEF IInv, NoneWaitsAfterDispose, IdsFresh, ClientSends
<1> QED BY <1>1, <1>2, <1>3, <1>4, <1>5, <1>6 DEF IInv

LEMMA SocketClosesIInv ==
    ASSUME CdpConnectionAssumption, IInv,
           SocketCloses
    PROVE  IInv'
<1>1. TypeOK'
  BY DEF IInv, TypeOK, SocketCloses
<1>2. ResumedOnce'
  BY DEF IInv, TypeOK, ResumedOnce, SocketCloses
<1>3. PendingMatchesCallers'
  BY DEF IInv, ResumedOnce, PendingMatchesCallers, SocketCloses
<1>4. AnswersMatch'
  BY DEF IInv, PendingMatchesCallers, AnswersMatch, SocketCloses
<1>5. NoneWaitsAfterDispose'
  BY DEF IInv, AnswersMatch, NoneWaitsAfterDispose, SocketCloses
<1>6. IdsFresh'
  BY DEF IInv, NoneWaitsAfterDispose, IdsFresh, SocketCloses
<1> QED BY <1>1, <1>2, <1>3, <1>4, <1>5, <1>6 DEF IInv

\* Every call is resumed at most once, with the answer to its own command, and
\* the map has an entry exactly for the calls that wait.

LEMMA StepIInv ==
    ASSUME CdpConnectionAssumption, IInv, [Next]_vars
    PROVE  IInv'
<1>1. CASE UNCHANGED vars
  BY <1>1 DEF vars, IInv, TypeOK, ResumedOnce, PendingMatchesCallers, AnswersMatch,
              NoneWaitsAfterDispose, IdsFresh
<1>2. CASE Next
  BY <1>2, SendIInv, SendThrowsIInv, SendRefusedIInv, InterruptIInv, CommandTimeoutIInv,
     HandleResponseIInv, DrainPendingIInv, DisposeIInv, ChromeAnswersIInv, ClientSendsIInv,
     SocketClosesIInv
     DEF Next
<1> QED BY <1>1, <1>2

LEMMA Invariance == Spec => []IInv
<1>1. Init => IInv
  BY InitIInv, CdpConnectionAssumption
<1>2. IInv /\ [Next]_vars => IInv'
  BY StepIInv, CdpConnectionAssumption
<1> QED BY <1>1, <1>2, PTL DEF Spec

-----------------------------------------------------------------------------

\* However answers, timers, interruptions and teardown race, send's callback is
\* resumed at most once, and the map holds an entry exactly for the calls that
\* wait.
THEOREM Resumption == Spec => [](ResumedOnce /\ PendingMatchesCallers)
<1>1. IInv => ResumedOnce /\ PendingMatchesCallers
  BY DEF IInv
<1> QED BY <1>1, Invariance, PTL

\* A call is never given the answer to another command of the connection, and a
\* client's only if the client used the call's own id, at startId or above.
THEOREM Correlation == Spec => []AnswersMatch
<1>1. IInv => AnswersMatch
  BY DEF IInv
<1> QED BY <1>1, Invariance, PTL

\* With the ranges of ids apart, as the comment of startId asks, the answers to a
\* client's commands resume no call at all.
THEOREM DistinctRanges ==
    ASSUME \A id \in ForeignIds : id < StartId
    PROVE  Spec => [](\A c \in Commands : caller[c] \notin {"misled", "clients"})
<1>1. IInv => \A c \in Commands : caller[c] \notin {"misled", "clients"}
  BY CdpConnectionAssumption DEF IInv, TypeOK, Ids, AnswersMatch, CdpConnectionAssumption
<1> QED BY <1>1, Invariance, PTL

\* dispose leaves no call waiting, and none waits on a disposed connection.
THEOREM Disposal == Spec => []NoneWaitsAfterDispose
<1>1. IInv => NoneWaitsAfterDispose
  BY DEF IInv
<1> QED BY <1>1, Invariance, PTL

-----------------------------------------------------------------------------
(* The proxy between a client and Chrome                                   *)

\* All that was or will be given to the client's WebSocket, in order.
Sent == delivered \o outbound

\* A flush begins with the first Browser.close, or with the end of the proxy if
\* there was none.
FlushBegunOnce ==
    /\ Len(flushes) <= 1
    /\ flushes # <<>> => closeRequested \/ proxy = "closed"

\* Only the forwarder sends the answer, and it works for the first Browser.close.
AnswerIsNew ==
    /\ forwarder \in {"idle", "flushing"} => \A i \in 1..Len(Sent) : Sent[i] # "answer"
    /\ ~closeRequested => forwarder = "idle"

ProxyInv == ProxyTypeOK /\ FlushBegunOnce /\ AnswerIsNew /\ AnswerComesLast

\* What is delivered was next in the queue.
LEMMA DeliveredInOrder ==
    ASSUME NEW S, NEW d \in Seq(S), NEW o \in Seq(S), o # <<>>
    PROVE  Append(d, Head(o)) \o Tail(o) = d \o o
  OBVIOUS

\* What is offered comes after all the rest.
LEMMA OfferedLast ==
    ASSUME NEW S, NEW d \in Seq(S), NEW o \in Seq(S), NEW m \in S
    PROVE  d \o Append(o, m) = Append(d \o o, m)
  OBVIOUS

\* A queue that is shut down leaves what was delivered.
LEMMA ShutDown ==
    ASSUME NEW S, NEW d \in Seq(S), NEW o \in Seq(S)
    PROVE  /\ d \o <<>> = d
           /\ Len(d) <= Len(d \o o)
           /\ \A i \in 1..Len(d) : (d \o o)[i] = d[i]
  OBVIOUS

\* Sent may lose what the shutdown drops, at its end.
Cut == /\ Len(Sent') <= Len(Sent)
       /\ \A i \in 1..Len(Sent') : Sent'[i] = Sent[i]

LEMMA SentIsSeq ==
    ASSUME ProxyTypeOK
    PROVE  Sent \in Seq(Messages) /\ Len(Sent) \in Nat
  BY DEF ProxyTypeOK, Sent

LEMMA SameIsCut ==
    ASSUME ProxyTypeOK, delivered' = delivered, outbound' = outbound
    PROVE  Cut
  BY SentIsSeq DEF Sent, Cut

\* A step that sends nothing and begins no flush leaves the answer where it is.
LEMMA AnswerStays ==
    ASSUME ProxyInv, ProxyTypeOK', Cut, gaveUp' = gaveUp,
           closeRequested' = closeRequested,
           forwarder' = forwarder \/ (forwarder = "answering" /\ forwarder' = "done"),
           FlushUnderWay' => FlushUnderWay
    PROVE  AnswerIsNew' /\ AnswerComesLast'
  <1>1. Len(Sent) \in Nat /\ Len(Sent') \in Nat BY DEF ProxyInv, ProxyTypeOK, Sent
  <1>2. AnswerIsNew' BY <1>1 DEF ProxyInv, AnswerIsNew, Cut
  <1>3. AnswerComesLast'
    <2>1. ASSUME ~gaveUp', NEW i \in 1..Len(Sent'), Sent'[i] = "answer"
          PROVE  i = Len(Sent') /\ ~FlushUnderWay'
      <3>1. i \in 1..Len(Sent) /\ Sent[i] = "answer" BY <1>1, <2>1 DEF Cut
      <3>2. i = Len(Sent) /\ ~FlushUnderWay
        BY <2>1, <3>1 DEF ProxyInv, AnswerComesLast, Sent
      <3> QED BY <1>1, <2>1, <3>2 DEF Cut
    <2> QED BY <2>1 DEF AnswerComesLast, Sent
  <1> QED BY <1>2, <1>3

\* handleClose cuts what is left in the queue, and closes no proxy.
LEMMA HandleCloseCuts ==
    ASSUME ProxyTypeOK, HandleClose, delivered' = delivered
    PROVE  /\ Cut
           /\ proxy' \in {"connecting", "ready", "closing", "closed"}
           /\ clientInitiated' \in BOOLEAN
           /\ outbound' \in Seq(Messages) /\ (proxy' # "ready" => outbound' = <<>>)
           /\ lost' \subseteq Messages
           /\ proxy' = "closed" <=> proxy = "closed"
  <1>1. CASE proxy \in {"connecting", "ready"}
    <2>1. outbound' = <<>> /\ proxy' = "closing" /\ clientInitiated' \in BOOLEAN
      BY <1>1 DEF HandleClose, ProxyTypeOK
    <2>2. Range(outbound) \subseteq Messages BY DEF Range, ProxyTypeOK
    <2>3. lost' \subseteq Messages BY <1>1, <2>2 DEF HandleClose, ProxyTypeOK
    <2>4. Cut BY <2>1, ShutDown, SentIsSeq DEF Cut, Sent, ProxyTypeOK
    <2> QED BY <1>1, <2>1, <2>3, <2>4
  <1>2. CASE proxy \notin {"connecting", "ready"}
    BY <1>2, SameIsCut DEF HandleClose, closing, ProxyTypeOK
  <1> QED BY <1>1, <1>2

\* The actions that send nothing and begin no flush.
LEMMA QuietInv ==
    ASSUME ProxyInv, ProxyTypeOK', Cut, gaveUp' = gaveUp,
           closeRequested' = closeRequested, flushes' = flushes,
           proxy = "closed" => proxy' = "closed",
           forwarder' = forwarder \/ (forwarder = "answering" /\ forwarder' = "done"),
           FlushUnderWay' => FlushUnderWay
    PROVE  ProxyInv'
  <1>1. FlushBegunOnce' BY DEF ProxyInv, FlushBegunOnce
  <1> QED BY <1>1, AnswerStays DEF ProxyInv

\* CloseRoute and what it leaves.
LEMMA CloseRouteInv ==
    ASSUME ProxyInv, CloseRoute, UNCHANGED <<listed, closeRequested, delivered, flush,
               flushes, forwarder, gaveUp>>,
           client' \in {"open", "silent", "closing"}, chrome' = chrome
    PROVE  ProxyInv'
  <1>1. HandleClose \/ UNCHANGED <<proxy, clientInitiated, outbound, lost>>
    BY DEF CloseRoute, ResolveRoute, closing
  <1>2. route' \in {"idle", "waiting", "done"}
    BY DEF ProxyInv, CloseRoute, ResolveRoute, ending, ProxyTypeOK
  <1>3. handler' \in {"running", "resolved", "rejected"}
    BY DEF ProxyInv, CloseRoute, ResolveRoute, ending, ProxyTypeOK
  <1>4. /\ Cut
        /\ proxy' \in {"connecting", "ready", "closing", "closed"}
        /\ clientInitiated' \in BOOLEAN
        /\ outbound' \in Seq(Messages) /\ (proxy' # "ready" => outbound' = <<>>)
        /\ lost' \subseteq Messages
        /\ proxy' = "closed" <=> proxy = "closed"
    BY <1>1, HandleCloseCuts, SameIsCut DEF ProxyInv, ProxyTypeOK
  <1>5. ProxyTypeOK' BY <1>2, <1>3, <1>4 DEF ProxyInv, ProxyTypeOK
  <1> QED BY <1>4, <1>5, QuietInv DEF FlushUnderWay

LEMMA RouteResumesInv ==
    ASSUME ProxyInv, RouteResumes
    PROVE  ProxyInv'
  <1>1. HandleClose /\ UNCHANGED <<client, chrome, listed, closeRequested, delivered,
            flush, flushes, forwarder, gaveUp>>
    BY DEF RouteResumes, ResolveRoute, outside
  <1>2. route' = "done" /\ handler' \in {"running", "resolved", "rejected"}
    BY DEF ProxyInv, RouteResumes, ResolveRoute, ProxyTypeOK
  <1>3. ProxyTypeOK' BY <1>1, <1>2, HandleCloseCuts DEF ProxyInv, ProxyTypeOK
  <1> QED BY <1>1, <1>3, HandleCloseCuts, QuietInv DEF ProxyInv, FlushUnderWay

LEMMA ConnectFailsInv ==
    ASSUME ProxyInv, ConnectFails
    PROVE  ProxyInv'
  <1>1. HandleClose /\ UNCHANGED <<client, listed, closeRequested, delivered, flush,
            flushes, forwarder, gaveUp, route>>
    BY DEF ConnectFails
  <1>2. /\ chrome' \in {"running", "stalled", "exited", "crashed"}
        /\ handler' \in {"running", "resolved", "rejected"}
    BY DEF ProxyInv, ConnectFails, ProxyTypeOK
  <1>3. ProxyTypeOK' BY <1>1, <1>2, HandleCloseCuts DEF ProxyInv, ProxyTypeOK
  <1> QED BY <1>1, <1>3, HandleCloseCuts, QuietInv DEF ProxyInv, FlushUnderWay

LEMMA ProxyClosesInv ==
    ASSUME ProxyInv, ProxyCloses
    PROVE  ProxyInv'
  <1>1. HandleClose /\ UNCHANGED <<client, chrome, listed, closeRequested, delivered,
            flush, flushes, forwarder, gaveUp, route, handler>>
    BY DEF ProxyCloses, outside, ending
  <1>2. ProxyTypeOK' BY <1>1, HandleCloseCuts DEF ProxyInv, ProxyTypeOK
  <1> QED BY <1>1, <1>2, HandleCloseCuts, QuietInv DEF ProxyInv, FlushUnderWay

\* The actions that leave the proxy and its queue alone.
LEMMA AsideInv ==
    ASSUME ProxyInv,
           \/ ClientLeaves \/ ClientFallsSilent \/ ChromeKilled
           \/ SaveGivenUp \/ Forward \/ ChromeTrouble
           \/ SessionDestroyed
    PROVE  ProxyInv'
  <1>1. UNCHANGED <<proxy, clientInitiated, closeRequested, delivered, outbound, lost, flushes,
            gaveUp, route, handler>>
    BY DEF ClientLeaves, ClientFallsSilent, ChromeKilled, SaveGivenUp,
           Forward, ChromeTrouble, SessionDestroyed, closing,
           sending, ending, outside
  <1>2. /\ client' \in {"open", "silent", "closing"}
        /\ chrome' \in {"running", "stalled", "exited", "crashed"}
        /\ listed' \in BOOLEAN
        /\ flush' \in {"none", "killing", "saving", "done"}
        /\ FlushUnderWay' => FlushUnderWay
        /\ forwarder' = forwarder \/ (forwarder = "answering" /\ forwarder' = "done")
    BY DEF ProxyInv, ProxyTypeOK, FlushUnderWay,
           ClientLeaves, ClientFallsSilent, ChromeKilled, SaveGivenUp,
           Forward, ChromeTrouble, SessionDestroyed, outside
  <1>3. ProxyTypeOK' BY <1>1, <1>2 DEF ProxyInv, ProxyTypeOK
  <1> QED BY <1>1, <1>2, <1>3, SameIsCut, QuietInv DEF ProxyInv

\* The queue is empty until the proxy is connected.
LEMMA ConnectedInv ==
    ASSUME ProxyInv, Connected
    PROVE  ProxyInv'
  <1>1. /\ proxy = "connecting" /\ proxy' = "ready"
        /\ UNCHANGED <<client, chrome, listed, clientInitiated, closeRequested, delivered,
               outbound, lost, flush, flushes, forwarder, gaveUp, route, handler>>
    BY DEF Connected, outside, sending, ending
  <1>2. ProxyTypeOK' BY <1>1 DEF ProxyInv, ProxyTypeOK
  <1> QED BY <1>1, <1>2, SameIsCut, QuietInv DEF ProxyInv, FlushUnderWay

LEMMA DeliverInv ==
    ASSUME ProxyInv, Deliver
    PROVE  ProxyInv'
  <1>1. /\ UNCHANGED <<client, chrome, listed, proxy, clientInitiated, closeRequested, lost,
               flush, flushes, forwarder, gaveUp, route, handler>>
        /\ proxy = "ready"
    BY DEF Deliver, outside, closing, ending
  <1>2. outbound \in Seq(Messages) /\ outbound # <<>> /\ delivered \in Seq(Messages)
    BY DEF ProxyInv, ProxyTypeOK, Deliver
  <1>3. /\ delivered' = Append(delivered, Head(outbound)) /\ outbound' = Tail(outbound)
        /\ Head(outbound) \in Messages
    BY <1>2 DEF Deliver
  <1>4. Sent' = Sent BY <1>2, <1>3, DeliveredInOrder DEF Sent
  <1>5. Cut BY <1>4, SentIsSeq DEF ProxyInv, Cut
  <1>6. delivered' \in Seq(Messages) /\ outbound' \in Seq(Messages)
    BY <1>2, <1>3
  <1>7. ProxyTypeOK' BY <1>1, <1>6 DEF ProxyInv, ProxyTypeOK
  <1> QED BY <1>1, <1>5, <1>7, QuietInv DEF FlushUnderWay

\* Before the first Browser.close nothing was answered: a flush may begin.
LEMMA BeginFlushInv ==
    ASSUME ProxyInv, ~closeRequested, proxy # "closed", NEW by \in {"command", "disconnect"},
           BeginFlush(by), ProxyTypeOK', delivered' = delivered, outbound' = outbound,
           gaveUp' = gaveUp, forwarder' \in {"idle", "flushing"},
           closeRequested' \/ (proxy' = "closed" /\ forwarder' = "idle")
    PROVE  ProxyInv'
  <1>1. flushes = <<>> BY DEF ProxyInv, FlushBegunOnce
  <1>2. FlushBegunOnce' BY <1>1 DEF BeginFlush, FlushBegunOnce
  <1>3. Sent' = Sent BY DEF Sent
  <1>4. \A i \in 1..Len(Sent') : Sent'[i] # "answer" BY <1>3 DEF ProxyInv, AnswerIsNew
  <1>5. AnswerIsNew' BY <1>4 DEF AnswerIsNew
  <1>6. AnswerComesLast' BY <1>4 DEF AnswerComesLast, Sent
  <1> QED BY <1>2, <1>5, <1>6 DEF ProxyInv

LEMMA BrowserCloseInv ==
    ASSUME ProxyInv, BrowserClose
    PROVE  ProxyInv'
  <1>1. /\ UNCHANGED <<client, proxy, clientInitiated, delivered, outbound, lost, gaveUp, route,
               handler>>
        /\ proxy = "ready"
    BY DEF BrowserClose, closing, sending, ending
  <1>2. CASE closeRequested
    <2>1. UNCHANGED <<closeRequested, forwarder, flush, flushes, listed>>
      BY <1>2 DEF BrowserClose, flushing
    <2>2. chrome' \in {"running", "stalled", "exited", "crashed"}
      BY <1>2 DEF ProxyInv, ProxyTypeOK, BrowserClose
    <2>3. ProxyTypeOK' BY <1>1, <2>1, <2>2 DEF ProxyInv, ProxyTypeOK
    <2> QED BY <1>1, <2>1, <2>3, SameIsCut, QuietInv DEF ProxyInv, FlushUnderWay
  <1>3. CASE ~closeRequested
    <2>1. /\ closeRequested' = TRUE /\ forwarder' = "flushing" /\ chrome' = chrome
          /\ BeginFlush("command")
      BY <1>3 DEF BrowserClose
    <2>2. /\ flushes' \in Seq({"command", "disconnect"})
          /\ flush' \in {"none", "killing", "saving", "done"} /\ listed' = FALSE
      BY <2>1 DEF ProxyInv, ProxyTypeOK, BeginFlush
    <2>3. ProxyTypeOK' BY <1>1, <2>1, <2>2 DEF ProxyInv, ProxyTypeOK
    <2> QED BY <1>1, <1>3, <2>1, <2>3, BeginFlushInv
  <1> QED BY <1>2, <1>3 DEF ProxyInv, ProxyTypeOK

LEMMA ScopeClosedInv ==
    ASSUME ProxyInv, ScopeClosed
    PROVE  ProxyInv'
  <1>1. /\ UNCHANGED <<client, chrome, clientInitiated, closeRequested, delivered, outbound,
               lost, forwarder, gaveUp>>
        /\ proxy = "closing" /\ proxy' = "closed" /\ outbound' = <<>>
        /\ route' \in {"idle", "waiting", "done"}
        /\ handler' \in {"running", "resolved", "rejected"}
    BY DEF ProxyInv, ProxyTypeOK, ScopeClosed, sending, ending
  <1>2. CASE FlushesOnDisconnect
    <2>1. BeginFlush("disconnect") /\ ~closeRequested
      BY <1>2 DEF ScopeClosed, FlushesOnDisconnect
    <2>2. /\ flushes' \in Seq({"command", "disconnect"})
          /\ flush' \in {"none", "killing", "saving", "done"} /\ listed' = FALSE
      BY <2>1 DEF ProxyInv, ProxyTypeOK, BeginFlush
    <2>3. ProxyTypeOK' BY <1>1, <2>1, <2>2 DEF ProxyInv, ProxyTypeOK
    <2>4. forwarder = "idle" BY <2>1 DEF ProxyInv, AnswerIsNew
    <2> QED BY <1>1, <2>1, <2>3, <2>4, BeginFlushInv
  <1>3. CASE ~FlushesOnDisconnect
    <2>1. UNCHANGED <<flush, flushes, listed>> BY <1>3 DEF ScopeClosed, flushing
    <2>2. ProxyTypeOK' BY <1>1, <2>1 DEF ProxyInv, ProxyTypeOK
    <2> QED BY <1>1, <2>1, <2>2, SameIsCut, QuietInv DEF ProxyInv, FlushUnderWay
  <1> QED BY <1>2, <1>3

\* What an Offer does to the two ends of the queue.
LEMMA Offered ==
    ASSUME ProxyTypeOK, NEW m \in Messages, Offer(m), delivered' = delivered
    PROVE  /\ outbound' \in Seq(Messages) /\ (proxy # "ready" => outbound' = <<>>)
           /\ lost' \subseteq Messages
           /\ Sent' = Append(Sent, m) \/ Sent' = Sent
  <1>1. /\ delivered \in Seq(Messages) /\ outbound \in Seq(Messages)
        /\ lost \subseteq Messages /\ (proxy # "ready" => outbound = <<>>)
    BY DEF ProxyTypeOK
  <1>2. CASE proxy = "ready"
    <2>1. outbound' = Append(outbound, m) /\ lost' = lost BY <1>2 DEF Offer
    <2>2. Sent' = Append(Sent, m) BY <1>1, <2>1, OfferedLast DEF Sent
    <2> QED BY <1>1, <1>2, <2>1, <2>2
  <1>3. CASE proxy # "ready"
    <2>1. outbound' = outbound /\ lost' = lost \cup {m} BY <1>3 DEF Offer
    <2> QED BY <1>1, <1>3, <2>1 DEF Sent
  <1> QED BY <1>2, <1>3

\* The announcements come while the flush is under way, when nothing was answered.
LEMMA ReplaysSavedInv ==
    ASSUME ProxyInv, ReplaysSaved
    PROVE  ProxyInv'
  <1>1. /\ UNCHANGED <<client, chrome, listed, proxy, clientInitiated, closeRequested, delivered,
               flushes, forwarder, gaveUp, route, handler>>
        /\ flush = "saving" /\ flush' = "done" /\ Offer("tabReplayComplete")
    BY DEF ReplaysSaved, outside, closing, ending
  <1>2. ProxyTypeOK /\ "tabReplayComplete" \in Messages
    BY DEF ProxyInv, Messages
  <1>3. /\ outbound' \in Seq(Messages) /\ (proxy # "ready" => outbound' = <<>>)
        /\ lost' \subseteq Messages
        /\ Sent' = Append(Sent, "tabReplayComplete") \/ Sent' = Sent
    BY <1>1, <1>2, Offered
  <1>4. ProxyTypeOK' BY <1>1, <1>3 DEF ProxyInv, ProxyTypeOK
  <1>5. FlushBegunOnce' BY <1>1 DEF ProxyInv, FlushBegunOnce
  <1>6. Sent \in Seq(Messages) /\ Len(Sent) \in Nat BY <1>2, SentIsSeq
  <1>7. AnswerIsNew' BY <1>1, <1>3, <1>6 DEF ProxyInv, AnswerIsNew
  <1>8. ~gaveUp => \A i \in 1..Len(Sent) : Sent[i] # "answer"
    BY <1>1 DEF ProxyInv, AnswerComesLast, FlushUnderWay, Sent
  <1>9. ~gaveUp => \A i \in 1..Len(Sent') : Sent'[i] # "answer" BY <1>3, <1>6, <1>8
  <1>10. AnswerComesLast' BY <1>1, <1>9 DEF AnswerComesLast, Sent
  <1> QED BY <1>4, <1>5, <1>7, <1>10 DEF ProxyInv

\* The answer is the only one, and last; if the flush is not over, it was given up.
LEMMA AnswerInv ==
    ASSUME ProxyInv, Answer
    PROVE  ProxyInv'
  <1>1. /\ UNCHANGED <<client, chrome, listed, proxy, clientInitiated, closeRequested, delivered,
               flush, flushes, route, handler>>
        /\ forwarder = "flushing" /\ forwarder' = "answering" /\ Offer("answer")
        /\ gaveUp' = FlushUnderWay
    BY DEF Answer, outside, closing, ending
  <1>2. ProxyTypeOK /\ "answer" \in Messages
    BY DEF ProxyInv, Messages
  <1>3. /\ outbound' \in Seq(Messages) /\ (proxy # "ready" => outbound' = <<>>)
        /\ lost' \subseteq Messages
        /\ Sent' = Append(Sent, "answer") \/ Sent' = Sent
    BY <1>1, <1>2, Offered
  <1>4. ProxyTypeOK' BY <1>1, <1>3 DEF ProxyInv, ProxyTypeOK, FlushUnderWay
  <1>5. FlushBegunOnce' BY <1>1 DEF ProxyInv, FlushBegunOnce
  <1>6. AnswerIsNew' BY <1>1 DEF ProxyInv, AnswerIsNew
  <1>7. Sent \in Seq(Messages) /\ Len(Sent) \in Nat BY <1>2, SentIsSeq
  <1>8. \A i \in 1..Len(Sent) : Sent[i] # "answer" BY <1>1 DEF ProxyInv, AnswerIsNew
  <1>9. \A i \in 1..Len(Sent') : Sent'[i] = "answer" => i = Len(Sent') BY <1>3, <1>7, <1>8
  <1>10. ~gaveUp' => ~FlushUnderWay' BY <1>1 DEF FlushUnderWay
  <1>11. AnswerComesLast' BY <1>9, <1>10 DEF AnswerComesLast, Sent
  <1> QED BY <1>4, <1>5, <1>6, <1>11 DEF ProxyInv

LEMMA ProxyInvInit == ProxyInit => ProxyInv
  <1> SUFFICES ASSUME ProxyInit PROVE ProxyInv OBVIOUS
  <1>1. ProxyTypeOK
    <2>1. <<>> \in Seq(Messages) /\ <<>> \in Seq({"command", "disconnect"}) OBVIOUS
    <2>2. {} \subseteq Messages OBVIOUS
    <2> QED BY <2>1, <2>2 DEF ProxyInit, ProxyTypeOK
  <1>2. delivered = <<>> /\ outbound = <<>> BY DEF ProxyInit
  <1>3. Len(Sent) = 0 BY <1>2 DEF Sent
  <1>4. AnswerIsNew /\ AnswerComesLast
    BY <1>3 DEF ProxyInit, AnswerIsNew, AnswerComesLast, Sent
  <1>5. FlushBegunOnce BY DEF ProxyInit, FlushBegunOnce
  <1> QED BY <1>1, <1>4, <1>5 DEF ProxyInv

LEMMA ProxyStep ==
    ASSUME ProxyInv, [ProxyNext]_proxyVars
    PROVE  ProxyInv'
  <1>1. CASE ClientDrops
    <2>1. CloseRoute /\ client' = "closing" /\ UNCHANGED <<chrome, listed, closeRequested,
              delivered, flush, flushes, forwarder, gaveUp>>
      BY <1>1 DEF ClientDrops
    <2> QED BY <2>1, CloseRouteInv
  <1>2. CASE SocketEnds \/ ProcessEnds
    <2>1. CloseRoute /\ UNCHANGED <<client, chrome, listed, closeRequested, delivered, flush,
              flushes, forwarder, gaveUp>>
      BY <1>2 DEF SocketEnds, ProcessEnds, outside
    <2>2. client' \in {"open", "silent", "closing"} BY <2>1 DEF ProxyInv, ProxyTypeOK
    <2> QED BY <2>1, <2>2, CloseRouteInv
  <1>3. CASE UNCHANGED proxyVars
    <2>1. UNCHANGED <<client, chrome, listed, proxy, clientInitiated, closeRequested, outbound,
              delivered, lost, flush, flushes, forwarder, gaveUp, route, handler>>
      BY <1>3 DEF proxyVars
    <2>2. ProxyTypeOK' BY <2>1 DEF ProxyInv, ProxyTypeOK
    <2> QED BY <2>1, <2>2, SameIsCut, QuietInv DEF ProxyInv, FlushUnderWay
  <1>4. CASE Rest BY <1>3, <1>4 DEF Rest
  <1> QED BY <1>1, <1>2, <1>3, <1>4, ConnectedInv, ConnectFailsInv, BrowserCloseInv, AsideInv,
             ProxyClosesInv, ScopeClosedInv, RouteResumesInv, ReplaysSavedInv, DeliverInv,
             AnswerInv
          DEF ProxyNext, ClientActs, Close, Flush

LEMMA ProxyInvariance == ProxySpec => []ProxyInv
  BY ProxyInvInit, ProxyStep, PTL DEF ProxySpec

\* onBeforeClose runs at most once for a client, in whatever order its
\* Browser.close, its disconnection and the end of the proxy come.
THEOREM Flushed == ProxySpec => []FlushedOnce
<1>1. ProxyInv => FlushedOnce
  BY DEF ProxyInv, FlushBegunOnce, FlushedOnce
<1> QED BY <1>1, ProxyInvariance, PTL

\* The answer to Browser.close is the last message the client is sent, after the
\* end of the flush, unless the forwarder has given the flush up.
THEOREM AnsweredLast == ProxySpec => []AnswerComesLast
<1>1. ProxyInv => AnswerComesLast
  BY DEF ProxyInv
<1> QED BY <1>1, ProxyInvariance, PTL
=============================================================================

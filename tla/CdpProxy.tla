------------------------------ MODULE CdpProxy ------------------------------
(***************************************************************************)
(* One client's WebSocket from upgrade to the end of its handler: the      *)
(* CDPProxy between client and Chrome, the promise of proxyWebSocket that  *)
(* the request's limiter slot waits for, and onBeforeClose, which destroys *)
(* the session and saves its replays.                                      *)
(*                                                                         *)
(* handleClose stops both WebSockets and the outbound queue at once; the   *)
(* rest of the scope's finalizers, and then onClose, come later.           *)
(***************************************************************************)
EXTENDS Naturals, Sequences, SequencesExt

VARIABLES
    client,         \* the client's side, as clientWs.readyState knows it
    chrome,         \* the Chrome process; its WebSocket closes when it ends
    listed,         \* the session is in the registry, so that a close destroys it
    proxy,          \* the life of CDPProxy
    clientInitiated,\* what handleClose made of clientWs.readyState
    closeRequested,
    outbound,       \* clientOutbound: messages not yet given to the WebSocket
    delivered,      \* messages given to it
    lost,           \* history: messages that were dropped or left in the queue
    flush,          \* onBeforeClosePromise, step by step
    flushes,        \* history: the calls of onBeforeClose, by whom
    forwarder,      \* runBeforeCloseAndForward
    gaveUp,         \* its timeout has passed before the flush was over
    route,          \* the `close` callback of proxyWebSocket, which works once
    handler         \* the promise of proxyWebSocket

outside == <<client, chrome, listed>>
closing == <<proxy, clientInitiated>>
sending == <<outbound, delivered, lost>>
flushing == <<flush, flushes, listed>>
ending == <<route, handler>>
proxyVars == <<client, chrome, listed, proxy, clientInitiated, closeRequested, outbound,
          delivered, lost, flush, flushes, forwarder, gaveUp, route, handler>>

Messages == {"tabReplayComplete", "answer"}

ProxyTypeOK ==
    /\ client \in {"open", "silent", "closing"}
    /\ chrome \in {"running", "stalled", "exited", "crashed"}
    /\ listed \in BOOLEAN
    /\ proxy \in {"connecting", "ready", "closing", "closed"}
    /\ clientInitiated \in BOOLEAN
    /\ closeRequested \in BOOLEAN
    /\ outbound \in Seq(Messages) /\ (proxy # "ready" => outbound = <<>>)
    /\ delivered \in Seq(Messages) /\ lost \subseteq Messages
    /\ flush \in {"none", "killing", "saving", "done"}
    /\ flushes \in Seq({"command", "disconnect"})
    /\ forwarder \in {"idle", "flushing", "answering", "done"}
    /\ gaveUp \in BOOLEAN
    /\ route \in {"idle", "waiting", "done"}
    /\ handler \in {"running", "resolved", "rejected"}

ProxyInit ==
    /\ client = "open" /\ chrome = "running" /\ listed = TRUE
    /\ proxy = "connecting" /\ clientInitiated = FALSE /\ closeRequested = FALSE
    /\ outbound = <<>> /\ delivered = <<>> /\ lost = {}
    /\ flush = "none" /\ flushes = <<>> /\ forwarder = "idle" /\ gaveUp = FALSE
    /\ route = "idle" /\ handler = "running"

Gone == {"exited", "crashed"}
FlushUnderWay == flush \in {"killing", "saving"}

-----------------------------------------------------------------------------
(* The close of the proxy and of its route                                 *)

\* handleClose, once: both WebSockets are terminated, the queue is shut down.
HandleClose ==
    IF proxy \in {"connecting", "ready"}
    THEN /\ proxy' = "closing"
         /\ clientInitiated' = (proxy = "ready" /\ client = "closing")
         /\ outbound' = <<>>
         /\ lost' = lost \cup Range(outbound)
    ELSE UNCHANGED <<closing, outbound, lost>>

\* The end of the close callback: the proxy is closed, the promise resolved.
ResolveRoute ==
    /\ HandleClose
    /\ route' = "done"
    /\ handler' = IF handler = "running" THEN "resolved" ELSE handler

\* The close callback: it waits for an onBeforeClose under way.
CloseRoute ==
    IF route # "idle" THEN UNCHANGED <<ending, closing, outbound, lost>>
    ELSE IF FlushUnderWay
         THEN route' = "waiting" /\ UNCHANGED <<handler, closing, outbound, lost>>
         ELSE ResolveRoute

RouteResumes ==
    /\ route = "waiting" /\ ~FlushUnderWay
    /\ ResolveRoute
    /\ UNCHANGED <<outside, closeRequested, delivered, flush, flushes, forwarder, gaveUp>>

\* onBeforeClose is called: closeForBrowser destroys a session that is listed.
BeginFlush(by) ==
    /\ flushes' = Append(flushes, by)
    /\ flush' = IF listed THEN "killing" ELSE "done"
    /\ listed' = FALSE

\* A faulty test: whether Browser.close has begun a flush is not asked.
FlushesOnEveryDisconnect == clientInitiated

\* Whether the end of handleClose calls onBeforeClose.
FlushesOnDisconnect == clientInitiated /\ ~closeRequested

\* The finalizers are done: onClose ends the route, then a disconnection that
\* no Browser.close preceded begins the flush, which nobody waits for here.
ScopeClosed ==
    /\ proxy = "closing"
    /\ proxy' = "closed"
    /\ IF route # "idle" THEN UNCHANGED ending
       ELSE IF FlushUnderWay THEN route' = "waiting" /\ UNCHANGED handler
       ELSE /\ route' = "done"
            /\ handler' = IF handler = "running" THEN "resolved" ELSE handler
    /\ IF FlushesOnDisconnect
       THEN BeginFlush("disconnect")
       ELSE UNCHANGED flushing
    /\ UNCHANGED <<client, chrome, clientInitiated, closeRequested, sending, forwarder,
                   gaveUp>>

-----------------------------------------------------------------------------
(* Connecting                                                              *)

\* Chrome's WebSocket is open and the client's socket upgraded.
Connected ==
    /\ proxy = "connecting" /\ chrome \notin Gone
    /\ proxy' = "ready"
    /\ UNCHANGED <<outside, clientInitiated, closeRequested, sending, flush, flushes,
                   forwarder, gaveUp, ending>>

\* Either fails: the proxy and Chrome are closed, the promise rejected.
ConnectFails ==
    /\ proxy = "connecting"
    /\ HandleClose
    /\ chrome' = IF chrome \in Gone THEN chrome ELSE "exited"
    /\ handler' = IF handler = "running" THEN "rejected" ELSE handler
    /\ UNCHANGED <<client, listed, closeRequested, delivered, flush, flushes, forwarder,
                   gaveUp, route>>

-----------------------------------------------------------------------------
(* The client                                                              *)

\* Browser.close: the first one waits for onBeforeClose, every other command,
\* and so a second Browser.close, goes to Chrome at once.
BrowserClose ==
    /\ proxy = "ready" /\ client = "open"
    /\ IF closeRequested
       THEN /\ chrome' = IF chrome = "running" THEN "exited" ELSE chrome
            /\ UNCHANGED <<closeRequested, forwarder, flushing>>
       ELSE /\ closeRequested' = TRUE
            /\ forwarder' = "flushing"
            /\ BeginFlush("command")
            /\ UNCHANGED chrome
    /\ UNCHANGED <<client, closing, sending, gaveUp, ending>>

\* A close frame, after which the ends of WebSocket and socket are noticed.
ClientLeaves ==
    /\ proxy = "ready" /\ client = "open"
    /\ client' = "closing"
    /\ UNCHANGED <<chrome, listed, closing, closeRequested, sending, flush, flushes,
                   forwarder, gaveUp, ending>>

\* The socket ends without a close frame: the listeners of proxyWebSocket come
\* before those of the WebSocket, whose state is still OPEN.
ClientDrops ==
    /\ client # "closing"
    /\ client' = "closing"
    /\ CloseRoute
    /\ UNCHANGED <<chrome, listed, closeRequested, delivered, flush, flushes, forwarder,
                   gaveUp>>

ClientFallsSilent ==
    /\ client = "open"
    /\ client' = "silent"
    /\ UNCHANGED <<chrome, listed, closing, closeRequested, sending, flush, flushes,
                   forwarder, gaveUp, ending>>

SocketEnds ==
    /\ client = "closing" /\ route = "idle"
    /\ CloseRoute
    /\ UNCHANGED <<outside, closeRequested, delivered, flush, flushes, forwarder, gaveUp>>

\* A faulty proxy without heartbeats: only a WebSocket that closes is noticed.
ProxyClosesOnCloseOnly ==
    /\ proxy = "ready"
    /\ client = "closing" \/ chrome \in Gone
    /\ HandleClose
    /\ UNCHANGED <<outside, closeRequested, delivered, flush, flushes, forwarder, gaveUp,
                   ending>>

\* handleClose is called: the client's or Chrome's WebSocket has closed, or one
\* of them has not answered the pings of its heartbeat.
ProxyCloses ==
    /\ proxy = "ready"
    /\ client # "open" \/ chrome # "running"
    /\ HandleClose
    /\ UNCHANGED <<outside, closeRequested, delivered, flush, flushes, forwarder, gaveUp,
                   ending>>

-----------------------------------------------------------------------------
(* The flush: destroySession kills Chrome first, then saves the replays    *)

ChromeKilled ==
    /\ flush = "killing"
    /\ flush' = "saving"
    /\ chrome' = IF chrome \in Gone THEN chrome ELSE "exited"
    /\ UNCHANGED <<client, listed, closing, closeRequested, sending, flushes, forwarder,
                   gaveUp, ending>>

\* emitClientEvent, sendClientResponse: offered, or dropped after a shutdown.
Offer(m) ==
    IF proxy = "ready"
    THEN outbound' = Append(outbound, m) /\ UNCHANGED lost
    ELSE lost' = lost \cup {m} /\ UNCHANGED outbound

\* The tabs' scopes are closed and their replays announced.  (What others who
\* destroy the session announce is left out.)
ReplaysSaved ==
    /\ flush = "saving"
    /\ flush' = "done"
    /\ Offer("tabReplayComplete")
    /\ UNCHANGED <<outside, closing, closeRequested, delivered, flushes, forwarder, gaveUp,
                   ending>>

\* The stop of the replay fails, or takes longer than its timeout.
SaveGivenUp ==
    /\ flush = "saving"
    /\ flush' = "done"
    /\ UNCHANGED <<outside, closing, closeRequested, sending, flushes, forwarder, gaveUp,
                   ending>>

\* The consumer of the queue: the next message goes to the WebSocket.
Deliver ==
    /\ proxy = "ready" /\ outbound # <<>>
    /\ delivered' = Append(delivered, Head(outbound))
    /\ outbound' = Tail(outbound)
    /\ UNCHANGED <<outside, closing, closeRequested, lost, flush, flushes, forwarder,
                   gaveUp, ending>>

\* A faulty forwarder: the answer is not kept back for the flush.
AnswerAtOnce ==
    /\ forwarder = "flushing"
    /\ forwarder' = "answering"
    /\ Offer("answer")
    /\ UNCHANGED <<outside, closing, closeRequested, delivered, flush, flushes, gaveUp,
                   ending>>

\* runBeforeCloseAndForward goes on when the flush is over, or 75 s have passed.
Answer ==
    /\ forwarder = "flushing"
    /\ gaveUp' = FlushUnderWay
    /\ forwarder' = "answering"
    /\ Offer("answer")
    /\ UNCHANGED <<outside, closing, closeRequested, delivered, flush, flushes, ending>>

\* The answer is out of the queue: Browser.close is forwarded, if Chrome is there.
Forward ==
    /\ forwarder = "answering" /\ ~Contains(outbound, "answer")
    /\ forwarder' = "done"
    /\ chrome' = IF proxy = "ready" /\ chrome = "running" THEN "exited" ELSE chrome
    /\ UNCHANGED <<client, listed, closing, closeRequested, sending, flush, flushes,
                   gaveUp, ending>>

-----------------------------------------------------------------------------
(* Chrome, and the others who end sessions                                 *)

ChromeTrouble ==
    /\ chrome \in {"running", "stalled"}
    /\ chrome' \in {"stalled", "crashed"} \ {chrome}
    /\ UNCHANGED <<client, listed, closing, closeRequested, sending, flush, flushes,
                   forwarder, gaveUp, ending>>

\* The router's destroy, the watchdog, a kill or the shutdown.
SessionDestroyed ==
    /\ listed
    /\ listed' = FALSE
    /\ chrome' = IF chrome \in Gone THEN chrome ELSE "exited"
    /\ UNCHANGED <<client, closing, closeRequested, sending, flush, flushes, forwarder,
                   gaveUp, ending>>

\* The process has ended, which proxyWebSocket listens for.
ProcessEnds ==
    /\ chrome \in Gone /\ route = "idle"
    /\ CloseRoute
    /\ UNCHANGED <<outside, closeRequested, delivered, flush, flushes, forwarder, gaveUp>>

Rest == handler # "running" /\ proxy = "closed" /\ ~FlushUnderWay /\ UNCHANGED proxyVars

ClientActs == BrowserClose \/ ClientLeaves \/ ClientDrops \/ ClientFallsSilent
Close == SocketEnds \/ ProxyCloses \/ ScopeClosed \/ RouteResumes \/ ProcessEnds
Flush == ChromeKilled \/ ReplaysSaved \/ SaveGivenUp

ProxyNext ==
    \/ Connected \/ ConnectFails \/ ClientActs \/ Close \/ Flush
    \/ Deliver \/ Answer \/ Forward
    \/ ChromeTrouble \/ SessionDestroyed \/ Rest

\* The ends of sockets and processes are noticed, heartbeats are sent, the
\* connection is made or fails, and every wait of the flush has a timeout.
Fairness ==
    /\ WF_proxyVars(Connected \/ ConnectFails)
    /\ WF_proxyVars(SocketEnds) /\ WF_proxyVars(ProxyCloses) /\ WF_proxyVars(ScopeClosed)
    /\ WF_proxyVars(RouteResumes) /\ WF_proxyVars(ProcessEnds)
    /\ WF_proxyVars(ChromeKilled) /\ WF_proxyVars(ReplaysSaved \/ SaveGivenUp)

ProxySpec == ProxyInit /\ [][ProxyNext]_proxyVars /\ Fairness

-----------------------------------------------------------------------------
(* What the proxy and its route promise.                                   *)

\* onBeforeClose runs at most once for a client, whether its Browser.close or
\* its disconnection comes first.
FlushedOnce == ProxyTypeOK /\ Len(flushes) <= 1

\* The answer to Browser.close follows the announcement of the replays that its
\* flush has saved, unless the forwarder has given the flush up.
AnswerComesLast ==
    ~gaveUp => \A i \in 1..Len(delivered \o outbound) :
                   (delivered \o outbound)[i] = "answer" =>
                       i = Len(delivered \o outbound) /\ ~FlushUnderWay

\* Once the client or Chrome is gone, even without a word, the handler ends.
HandlerEnds == client # "open" \/ chrome # "running" ~> handler # "running"

-----------------------------------------------------------------------------
(* What comments claim and the code does not keep.                         *)

\* "Run onBeforeClose FIRST (saves replay, emits tabReplayComplete), THEN send
\* the Browser.close response so client WS stays open": a client that waits for
\* its Browser.close hears of the replays, if Chrome has not crashed.
ReplaysAnnounced ==
    closeRequested /\ client = "open" /\ chrome # "crashed" =>
        "tabReplayComplete" \notin lost
=============================================================================

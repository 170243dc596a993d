--------------------------- MODULE TargetRegistry ---------------------------
(***************************************************************************)
(* The registry of a session's targets: pages indexed by target and by CDP *)
(* session, and the two maps of iframes, with the events of Chrome that    *)
(* fill and empty them and the look-up that decides to which tab's replay  *)
(* an event of a CDP session belongs.                                      *)
(***************************************************************************)
EXTENDS Functions

CONSTANTS
    Pages,     \* page targets
    Iframes,   \* iframe targets
    Sessions,  \* CDP session ids, never used twice by Chrome
    NoPage

VARIABLES
    byTargetId,               \* page -> CDP session
    byCdpSessionId,           \* CDP session -> page
    iframeToCdpSession,       \* CDP session of an iframe -> that of its page
    iframeTargetToCdpSession, \* iframe -> its CDP session
    attaching,                \* handlers that await an iframe's resumption: its session
                              \* -> the session it is a frame of
    owner,                    \* Chrome: the page every session in use belongs to
    gone                      \* Chrome: targets destroyed

registryVars == <<byTargetId, byCdpSessionId, iframeToCdpSession, iframeTargetToCdpSession>>
vars == <<registryVars, attaching, owner, gone>>

Maps(A, B) == UNION {[D -> B] : D \in SUBSET A}

TypeOK ==
    /\ byTargetId \in Maps(Pages, Sessions)
    /\ byCdpSessionId \in Maps(Sessions, Pages)
    /\ iframeToCdpSession \in Maps(Sessions, Sessions)
    /\ iframeTargetToCdpSession \in Maps(Iframes, Sessions)
    /\ attaching \in Maps(Sessions, Sessions)
    /\ owner \in Maps(Sessions, Pages)
    /\ gone \subseteq Pages \cup Iframes

Empty == [x \in {} |-> x]

Init ==
    /\ byTargetId = Empty /\ byCdpSessionId = Empty
    /\ iframeToCdpSession = Empty /\ iframeTargetToCdpSession = Empty
    /\ attaching = Empty /\ owner = Empty /\ gone = {}

Put(map, k, v) == [x \in DOMAIN map \cup {k} |-> IF x = k THEN v ELSE map[x]]

Drop(map, k) == Restrict(map, DOMAIN map \ {k})

Fresh(s) == s \in Sessions \ DOMAIN owner

\* The sessions in use that are not an iframe's.
PageSessions == DOMAIN owner \ (DOMAIN iframeToCdpSession \cup DOMAIN attaching)

-----------------------------------------------------------------------------
(* What the handlers of Chrome's events do to the registry.                *)

\* A faulty add: a page that is attached again keeps its first session as key.
AddOnce(p, s) ==
    /\ byTargetId' = Put(byTargetId, p, s)
    /\ byCdpSessionId' = IF p \in DOMAIN byTargetId THEN byCdpSessionId
                         ELSE Put(byCdpSessionId, s, p)

\* add
Add(p, s) ==
    /\ byTargetId' = Put(byTargetId, p, s)
    /\ byCdpSessionId' = Put(byCdpSessionId, s, p)

\* A page is attached, also a second time: targetCreated asks for a session
\* of its own.
PageAttached(p, s) ==
    /\ Fresh(s) /\ p \notin gone
    /\ Add(p, s)
    /\ owner' = Put(owner, s, p)
    /\ UNCHANGED <<iframeToCdpSession, iframeTargetToCdpSession, attaching, gone>>

\* addIframe
AddIframe(s, parent) == iframeToCdpSession' = Put(iframeToCdpSession, s, parent)

\* An iframe is attached through a session of its page, and through each of them when
\* the page is attached twice.  One that waits for the debugger is told to run first, and
\* is a page's iframe only once it has answered.
IframeAttached(i, s, parent) ==
    /\ Fresh(s) /\ i \notin gone
    /\ parent \in PageSessions /\ owner[parent] \notin gone
    /\ iframeTargetToCdpSession' = Put(iframeTargetToCdpSession, i, s)
    /\ \/ AddIframe(s, parent) /\ UNCHANGED attaching
       \/ attaching' = Put(attaching, s, parent) /\ UNCHANGED iframeToCdpSession
    /\ owner' = Put(owner, s, owner[parent])
    /\ UNCHANGED <<byTargetId, byCdpSessionId, gone>>

\* Runtime.runIfWaitingForDebugger has been answered or has failed.
IframeResumed(s) ==
    /\ s \in DOMAIN attaching
    /\ AddIframe(s, attaching[s])
    /\ attaching' = Drop(attaching, s)
    /\ UNCHANGED <<byTargetId, byCdpSessionId, iframeTargetToCdpSession, owner, gone>>

\* remove: the page with the session it is registered under now.
Remove(p) ==
    IF p \in DOMAIN byTargetId
    THEN /\ byTargetId' = Drop(byTargetId, p)
         /\ byCdpSessionId' = Drop(byCdpSessionId, byTargetId[p])
         /\ iframeToCdpSession' = Drop(iframeToCdpSession, byTargetId[p])
    ELSE UNCHANGED <<byTargetId, byCdpSessionId, iframeToCdpSession>>

\* targetDestroyed: remove, then removeIframeTarget.
TargetDestroyed(t) ==
    /\ t \notin gone
    /\ gone' = gone \cup {t}
    /\ Remove(t)
    /\ iframeTargetToCdpSession' = Drop(iframeTargetToCdpSession, t)
    /\ UNCHANGED <<attaching, owner>>

\* clear, when the runtime of the session is disposed, which ends the handlers.
Clear ==
    /\ byTargetId' = Empty /\ byCdpSessionId' = Empty
    /\ iframeToCdpSession' = Empty /\ iframeTargetToCdpSession' = Empty
    /\ attaching' = Empty
    /\ gone' = Pages \cup Iframes
    /\ UNCHANGED owner

Next ==
    \/ \E p \in Pages, s \in Sessions : PageAttached(p, s)
    \/ \E i \in Iframes, s \in Sessions, parent \in Sessions : IframeAttached(i, s, parent)
    \/ \E s \in Sessions : IframeResumed(s)
    \/ \E t \in Pages \cup Iframes : TargetDestroyed(t)
    \/ Clear

Spec == Init /\ [][Next]_vars

-----------------------------------------------------------------------------

\* findTargetIdByCdpSession
PageOf(s) == IF s \in DOMAIN byCdpSessionId THEN byCdpSessionId[s] ELSE NoPage

\* handleCDPMessage: the tab to whose replay an event of session s goes.
Route(s) ==
    IF s \in DOMAIN iframeToCdpSession THEN PageOf(iframeToCdpSession[s]) ELSE PageOf(s)

\* No event is recorded in the replay of another tab, and every event of a
\* page, or of an iframe that has been told to run, is recorded as long as the
\* page is alive, also when it was attached twice or iframes came and went.
EventsReachTheirTab ==
    \A s \in DOMAIN owner :
        IF owner[s] \in gone \/ s \in DOMAIN attaching
        THEN Route(s) \in {NoPage, owner[s]}
        ELSE Route(s) = owner[s]

\* A page that is registered can be looked up by the session it has now, and
\* a page that was destroyed is not registered.
IndexesAgree ==
    /\ \A p \in DOMAIN byTargetId : PageOf(byTargetId[p]) = p
    /\ gone \cap DOMAIN byTargetId = {}

\* What keeps the look-ups right: a session is indexed as a page's or as an
\* iframe's and under its owner, an iframe hangs from a page's session, and
\* a page's session is indexed until the page is destroyed.
RegistryInv ==
    /\ \A s \in DOMAIN byCdpSessionId : s \in PageSessions /\ byCdpSessionId[s] = owner[s]
    /\ \A s \in DOMAIN attaching :
        /\ s \in DOMAIN owner \ DOMAIN iframeToCdpSession
        /\ attaching[s] \in PageSessions /\ owner[attaching[s]] = owner[s]
    /\ \A s \in DOMAIN iframeToCdpSession :
        /\ s \in DOMAIN owner
        /\ iframeToCdpSession[s] \in PageSessions /\ owner[iframeToCdpSession[s]] = owner[s]
    /\ \A s \in PageSessions : owner[s] \in gone \/ s \in DOMAIN byCdpSessionId
    /\ \A p \in DOMAIN byTargetId :
        p \notin gone /\ byTargetId[p] \in DOMAIN byCdpSessionId
        /\ byCdpSessionId[byTargetId[p]] = p

=============================================================================

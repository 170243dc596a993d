--------------------------- MODULE CdpConnection ---------------------------
(***************************************************************************)
(* One CdpConnection of src/shared/cdp-rpc.ts: the correlation map between *)
(* the commands that this process sends on a WebSocket and the answers     *)
(* that Chrome returns, in any order.  The same WebSocket may carry the    *)
(* commands of a client (cdp-proxy.ts forwards them as they are): nothing  *)
(* keeps the client's ids out of the range that starts at startId, and the *)
(* answers to them pass through handleResponse too.                        *)
(***************************************************************************)
EXTENDS Integers, FiniteSets

CONSTANTS
    Commands,   \* the calls of `send`
    StartId,    \* options.startId
    Client,     \* another sender on the same WebSocket
    ForeignIds  \* the ids it may give its commands

ASSUME CdpConnectionAssumption ==
    /\ IsFiniteSet(Commands)
    /\ StartId \in Nat
    /\ Client \notin Commands
    /\ ForeignIds \subseteq Nat

VARIABLES
    nextId,    \* CdpConnection.nextId
    pending,   \* CdpConnection.pending, the set of its <<id, command>> entries
    disposed,  \* CdpConnection.disposed
    socket,    \* the WebSocket's readyState is OPEN
    caller,    \* what each call of send has come to
    resumes,   \* how many times each call's `resume` was called
    idOf,      \* the id each command was sent with
    asked,     \* the <<id, sender>> commands Chrome has yet to answer
    answers    \* the <<id, sender, kind>> answers on their way back

vars == <<nextId, pending, disposed, socket, caller, resumes, idOf, asked, answers>>

Ids == Nat

\* "sent": suspended on its pending entry; the others are how it went on, with
\* the answer to another command in "misled" and to a client's in "clients".
Outcomes ==
    {"uncalled", "sent", "interrupted", "gone", "timeout", "result", "misled", "clients"}

TypeOK ==
    /\ nextId \in Ids
    /\ pending \subseteq Ids \X Commands
    /\ disposed \in BOOLEAN
    /\ socket \in BOOLEAN
    /\ caller \in [Commands -> Outcomes]
    /\ resumes \in [Commands -> Nat]
    /\ idOf \in [Commands -> Ids]
    /\ asked \subseteq Ids \X (Commands \cup {Client})
    /\ answers \subseteq Ids \X (Commands \cup {Client}) \X {"result", "error"}
    /\ \A m \in asked \cup answers : m[2] = Client => m[1] \in ForeignIds

Init ==
    /\ nextId = StartId
    /\ pending = {}
    /\ disposed = FALSE
    /\ socket = TRUE
    /\ caller = [c \in Commands |-> "uncalled"]
    /\ resumes = [c \in Commands |-> 0]
    /\ idOf = [c \in Commands |-> 0]
    /\ asked = {}
    /\ answers = {}

-----------------------------------------------------------------------------
\* Map.set(id, the entry of c)
WithEntry(id, c) == {e \in pending : e[1] # id} \cup {<<id, c>>}

Without(id) == {e \in pending : e[1] # id}

\* The calls of C are resumed.  One that was interrupted does not go on.
Resume(C, outcome) ==
    /\ caller' = [c \in Commands |->
                    IF c \in C /\ caller[c] # "interrupted" THEN outcome ELSE caller[c]]
    /\ resumes' = [c \in Commands |-> IF c \in C THEN resumes[c] + 1 ELSE resumes[c]]

\* What the answer a makes of the calls C that it is taken for.
Outcome(C, a) ==
    IF C = {a[2]} THEN IF a[3] = "result" THEN "result" ELSE "gone"
    ELSE IF a[2] = Client THEN "clients" ELSE "misled"

\* send: refused at once, or a timer, an entry and a message; ws.send may throw,
\* and then the entry is taken back.
Send(c) ==
    /\ caller[c] = "uncalled"
    /\ ~disposed /\ socket
    /\ nextId' = nextId + 1
    /\ pending' = WithEntry(nextId, c)
    /\ idOf' = [idOf EXCEPT ![c] = nextId]
    /\ asked' = asked \cup {<<nextId, c>>}
    /\ caller' = [caller EXCEPT ![c] = "sent"]
    /\ UNCHANGED <<disposed, socket, resumes, answers>>

SendThrows(c) ==
    /\ caller[c] = "uncalled"
    /\ ~disposed /\ socket
    /\ nextId' = nextId + 1
    /\ idOf' = [idOf EXCEPT ![c] = nextId]
    /\ pending' = Without(nextId)
    /\ Resume({c}, "gone")
    /\ UNCHANGED <<disposed, socket, asked, answers>>

SendRefused(c) ==
    /\ caller[c] = "uncalled"
    /\ disposed \/ ~socket
    /\ Resume({c}, "gone")
    /\ UNCHANGED <<nextId, pending, disposed, socket, idOf, asked, answers>>

\* The timer of the entry <<id, c>>, which the map still has.
CommandTimeoutDropsCall(id, c) ==
    /\ <<id, c>> \in pending
    /\ pending' = Without(id)
    /\ UNCHANGED <<nextId, disposed, socket, caller, resumes, idOf, asked, answers>>

CommandTimeout(id, c) ==
    /\ <<id, c>> \in pending
    /\ pending' = Without(id)
    /\ Resume({c}, "timeout")
    /\ UNCHANGED <<nextId, disposed, socket, idOf, asked, answers>>

\* The fiber that called send is interrupted: the finaliser drops its entry.
Interrupt(c) ==
    /\ caller[c] = "sent"
    /\ caller' = [caller EXCEPT ![c] = "interrupted"]
    /\ pending' = Without(idOf[c])
    /\ UNCHANGED <<nextId, disposed, socket, resumes, idOf, asked, answers>>

\* handleResponse: the answer of an entry resumes its call and no other; an
\* answer without an entry (late, or not ours) is left to the message handler.
HandleResponseAnyEntry(a) ==
    /\ a \in answers
    /\ answers' = answers \ {a}
    /\ \E e \in pending :
         /\ pending' = pending \ {e}
         /\ Resume({e[2]}, Outcome({e[2]}, a))
    /\ UNCHANGED <<nextId, disposed, socket, idOf, asked>>

HandleResponseKeepsEntry(a) ==
    LET C == {c \in Commands : <<a[1], c>> \in pending}
    IN  /\ a \in answers
        /\ answers' = answers \ {a}
        /\ Resume(C, Outcome(C, a))
        /\ UNCHANGED <<nextId, pending, disposed, socket, idOf, asked>>

HandleResponse(a) ==
    LET C == {c \in Commands : <<a[1], c>> \in pending}
    IN  /\ a \in answers
        /\ answers' = answers \ {a}
        /\ pending' = Without(a[1])
        /\ Resume(C, Outcome(C, a))
        /\ UNCHANGED <<nextId, disposed, socket, idOf, asked>>

\* drainPending, which the owners of a connection call before dispose.
DrainPending ==
    /\ pending' = {}
    /\ Resume({c \in Commands : \E e \in pending : e[2] = c}, "gone")
    /\ UNCHANGED <<nextId, disposed, socket, idOf, asked, answers>>

DisposeWithoutDrain ==
    /\ ~disposed
    /\ disposed' = TRUE
    /\ UNCHANGED <<nextId, pending, socket, caller, resumes, idOf, asked, answers>>

Dispose ==
    /\ ~disposed
    /\ disposed' = TRUE
    /\ pending' = {}
    /\ Resume({c \in Commands : \E e \in pending : e[2] = c}, "gone")
    /\ UNCHANGED <<nextId, socket, idOf, asked, answers>>

-----------------------------------------------------------------------------
(* The other senders on the WebSocket, and Chrome at its other end         *)

\* sendToBrowser: the proxy forwards the client's command with the client's id.
ClientSends(id) ==
    /\ socket
    /\ asked' = asked \cup {<<id, Client>>}
    /\ UNCHANGED <<nextId, pending, disposed, socket, caller, resumes, idOf, answers>>

ChromeAnswers(m, kind) ==
    /\ socket /\ m \in asked
    /\ asked' = asked \ {m}
    /\ answers' = answers \cup {<<m[1], m[2], kind>>}
    /\ UNCHANGED <<nextId, pending, disposed, socket, caller, resumes, idOf>>

SocketCloses ==
    /\ socket
    /\ socket' = FALSE
    /\ asked' = {} /\ answers' = {}
    /\ UNCHANGED <<nextId, pending, disposed, caller, resumes, idOf>>

Next ==
    \/ \E c \in Commands : Send(c) \/ SendThrows(c) \/ SendRefused(c) \/ Interrupt(c)
    \/ \E e \in pending : CommandTimeout(e[1], e[2])
    \/ \E a \in answers : HandleResponse(a)
    \/ \E m \in asked, kind \in {"result", "error"} : ChromeAnswers(m, kind)
    \/ DrainPending
    \/ Dispose
    \/ \E id \in ForeignIds : ClientSends(id)
    \/ SocketCloses

Spec == Init /\ [][Next]_vars

\* The timer that send sets fires unless its entry goes first; Chrome owes
\* nothing, and nobody is obliged to dispose the connection.
FairSpec == Spec /\ \A c \in Commands : WF_vars(CommandTimeout(idOf[c], c))

-----------------------------------------------------------------------------
(* Properties                                                              *)

\* However answers, timers, interruptions and teardown race, a call of send is
\* resumed at most once, and exactly once if it was neither interrupted nor
\* still waiting.
ResumedOnce ==
    \A c \in Commands :
        resumes[c] = IF caller[c] \in {"uncalled", "sent", "interrupted"} THEN 0 ELSE 1

\* A call is suspended exactly while the map has its entry, under its own id:
\* no entry outlives its call and no call waits without an entry.
PendingMatchesCallers ==
    /\ \A c \in Commands : caller[c] = "sent" <=> <<idOf[c], c>> \in pending
    /\ \A e \in pending : e[1] = idOf[e[2]]

\* No call is given the answer to another command of the connection, in whatever
\* order late answers, timers and calls come.  It may be given a client's, since
\* ids alone match, but only the answer to its very id: a client that keeps below
\* startId, which is a convention, misleads nobody.
AnswersMatch ==
    \A c \in Commands :
        /\ caller[c] # "misled"
        /\ caller[c] = "clients" => idOf[c] \in ForeignIds /\ StartId <= idOf[c]

\* After dispose no call waits on the connection, and none ever will.
NoneWaitsAfterDispose == disposed => pending = {} /\ \A c \in Commands : caller[c] # "sent"

\* A call that was sent goes on even if Chrome never answers.
EveryCallGoesOn == \A c \in Commands : caller[c] = "sent" ~> caller[c] # "sent"

\* Ids are not reused: what is pending, and what is unanswered or on its way of
\* the connection's own, was given out to its sender, which keeps a late answer
\* from resuming a later command.
IdsFresh ==
    /\ StartId <= nextId
    /\ \A e \in pending : e[1] < nextId
    /\ \A m \in asked : m[2] # Client => m[1] < nextId
    /\ \A a \in answers : a[2] # Client => a[1] < nextId
    /\ \A e \in pending :
         /\ StartId <= e[1]
         /\ \A f \in pending : e[1] = f[1] => e = f
         /\ \A m \in asked : e[1] = m[1] => m[2] \in {e[2], Client}
         /\ \A a \in answers : e[1] = a[1] => a[2] \in {e[2], Client}
=============================================================================

------------------------ MODULE TabRecording_proofs ------------------------
(***************************************************************************)
(* The registry of targets, the replay pipeline of a tab, and the two      *)
(* together.  The registry attributes every event to its tab; the pipeline *)
(* loses no event between its queue and its posts, keeps their order and   *)
(* takes only the steps of ReplayConsumer.  What each promises they keep   *)
(* together, and with it a tab's replay is made of its own events and of   *)
(* all of them, in order, for any number of pages, iframes, CDP sessions   *)
(* and events and any batch size.                                          *)
(***************************************************************************)
EXTENDS TabRecording, TLAPS

-----------------------------------------------------------------------------
(* The registry: its invariant, action by action.                          *)

\* Of the types, this matters to the invariant: an owner is a page.
OwnersArePages == \A s \in DOMAIN owner : owner[s] \in Pages

\* The empty map.
LEMMA EmptyFacts == DOMAIN Reg!Empty = {}
  BY DEF Reg!Empty

\* The invariant holds at first.
LEMMA RegistryInvInit == Reg!Init => Reg!RegistryInv
  BY EmptyFacts DEF Reg!Init, Reg!RegistryInv, Reg!PageSessions

LEMMA PageAttachedInv ==
    ASSUME Reg!RegistryInv, NEW p, NEW s, Reg!PageAttached(p, s)
    PROVE  Reg!RegistryInv'
  <1>1. s \notin DOMAIN owner /\ p \notin gone BY DEF Reg!PageAttached, Reg!Fresh
  <1>2. /\ s \notin DOMAIN byCdpSessionId /\ s \notin DOMAIN iframeToCdpSession
        /\ s \notin DOMAIN attaching
    BY <1>1 DEF Reg!RegistryInv, Reg!PageSessions
  <1>3. /\ DOMAIN byTargetId' = DOMAIN byTargetId \cup {p}
        /\ byTargetId'[p] = s
        /\ \A x \in DOMAIN byTargetId \ {p} : byTargetId'[x] = byTargetId[x]
    BY DEF Reg!PageAttached, Reg!Add, Reg!Put
  <1>4. /\ DOMAIN byCdpSessionId' = DOMAIN byCdpSessionId \cup {s}
        /\ byCdpSessionId'[s] = p
        /\ \A x \in DOMAIN byCdpSessionId : byCdpSessionId'[x] = byCdpSessionId[x]
    BY <1>2 DEF Reg!PageAttached, Reg!Add, Reg!Put
  <1>5. /\ DOMAIN owner' = DOMAIN owner \cup {s}
        /\ owner'[s] = p
        /\ \A x \in DOMAIN owner : owner'[x] = owner[x]
    BY <1>1 DEF Reg!PageAttached, Reg!Put
  <1>6. /\ iframeToCdpSession' = iframeToCdpSession /\ attaching' = attaching
        /\ gone' = gone
    BY DEF Reg!PageAttached
  <1>7. Reg!PageSessions' = Reg!PageSessions \cup {s} BY <1>2, <1>5, <1>6 DEF Reg!PageSessions
  <1>8. \A x \in DOMAIN byCdpSessionId' : x \in Reg!PageSessions' /\ byCdpSessionId'[x] = owner'[x]
    BY <1>1, <1>4, <1>5, <1>7 DEF Reg!RegistryInv, Reg!PageSessions
  <1>9. \A x \in DOMAIN attaching' :
            /\ x \in DOMAIN owner' \ DOMAIN iframeToCdpSession'
            /\ attaching'[x] \in Reg!PageSessions' /\ owner'[attaching'[x]] = owner'[x]
    BY <1>5, <1>6, <1>7 DEF Reg!RegistryInv, Reg!PageSessions
  <1>10. \A x \in DOMAIN iframeToCdpSession' :
            /\ x \in DOMAIN owner'
            /\ iframeToCdpSession'[x] \in Reg!PageSessions'
            /\ owner'[iframeToCdpSession'[x]] = owner'[x]
    BY <1>5, <1>6, <1>7 DEF Reg!RegistryInv, Reg!PageSessions
  <1>11. \A x \in Reg!PageSessions' : owner'[x] \in gone' \/ x \in DOMAIN byCdpSessionId'
    BY <1>4, <1>5, <1>6, <1>7 DEF Reg!RegistryInv, Reg!PageSessions
  <1>12. \A x \in DOMAIN byTargetId' :
            x \notin gone' /\ byTargetId'[x] \in DOMAIN byCdpSessionId'
            /\ byCdpSessionId'[byTargetId'[x]] = x
    BY <1>1, <1>3, <1>4, <1>6 DEF Reg!RegistryInv
  <1> QED BY <1>8, <1>9, <1>10, <1>11, <1>12 DEF Reg!RegistryInv

\* What addIframe does to its map, for a session that is not in it.
LEMMA AddIframeFacts ==
    ASSUME NEW s, NEW parent, s \notin DOMAIN iframeToCdpSession, Reg!AddIframe(s, parent)
    PROVE  /\ DOMAIN iframeToCdpSession' = DOMAIN iframeToCdpSession \cup {s}
           /\ iframeToCdpSession'[s] = parent
           /\ \A x \in DOMAIN iframeToCdpSession :
                 iframeToCdpSession'[x] = iframeToCdpSession[x]
  BY DEF Reg!AddIframe, Reg!Put

LEMMA IframeAttachedInv ==
    ASSUME Reg!RegistryInv, NEW i, NEW s, NEW parent, Reg!IframeAttached(i, s, parent)
    PROVE  Reg!RegistryInv'
  <1>1. s \notin DOMAIN owner /\ parent \in Reg!PageSessions
    BY DEF Reg!IframeAttached, Reg!Fresh
  <1>2. /\ s \notin DOMAIN byCdpSessionId /\ s \notin DOMAIN iframeToCdpSession
        /\ s \notin DOMAIN attaching /\ s # parent
    BY <1>1 DEF Reg!RegistryInv, Reg!PageSessions
  <1>3. \/ Reg!AddIframe(s, parent) /\ attaching' = attaching
        \/ attaching' = Reg!Put(attaching, s, parent) /\ iframeToCdpSession' = iframeToCdpSession
    BY DEF Reg!IframeAttached
  <1>4. /\ DOMAIN owner' = DOMAIN owner \cup {s}
        /\ owner'[s] = owner[parent]
        /\ \A x \in DOMAIN owner : owner'[x] = owner[x]
    BY <1>1 DEF Reg!IframeAttached, Reg!Put
  <1>5. byTargetId' = byTargetId /\ byCdpSessionId' = byCdpSessionId /\ gone' = gone
    BY DEF Reg!IframeAttached
  <1>6. /\ DOMAIN iframeToCdpSession' \cup DOMAIN attaching'
             = DOMAIN iframeToCdpSession \cup DOMAIN attaching \cup {s}
        /\ \A x \in DOMAIN attaching' :
              /\ x \in DOMAIN owner' \ DOMAIN iframeToCdpSession'
              /\ attaching'[x] \in Reg!PageSessions /\ owner'[attaching'[x]] = owner'[x]
        /\ \A x \in DOMAIN iframeToCdpSession' :
              /\ x \in DOMAIN owner'
              /\ iframeToCdpSession'[x] \in Reg!PageSessions
              /\ owner'[iframeToCdpSession'[x]] = owner'[x]
    <2>1. CASE Reg!AddIframe(s, parent) /\ attaching' = attaching
      <3>1. /\ DOMAIN iframeToCdpSession' = DOMAIN iframeToCdpSession \cup {s}
            /\ iframeToCdpSession'[s] = parent
            /\ \A x \in DOMAIN iframeToCdpSession :
                  iframeToCdpSession'[x] = iframeToCdpSession[x]
        BY <1>2, <2>1, AddIframeFacts
      <3> QED BY <1>1, <1>2, <1>4, <2>1, <3>1 DEF Reg!RegistryInv, Reg!PageSessions
    <2>2. CASE attaching' = Reg!Put(attaching, s, parent)
               /\ iframeToCdpSession' = iframeToCdpSession
      <3>1. /\ DOMAIN attaching' = DOMAIN attaching \cup {s}
            /\ attaching'[s] = parent
            /\ \A x \in DOMAIN attaching : attaching'[x] = attaching[x]
        BY <1>2, <2>2 DEF Reg!Put
      <3> QED BY <1>1, <1>2, <1>4, <2>2, <3>1 DEF Reg!RegistryInv, Reg!PageSessions
    <2> QED BY <1>3, <2>1, <2>2
  <1>7. Reg!PageSessions' = Reg!PageSessions BY <1>1, <1>4, <1>6 DEF Reg!PageSessions
  <1>8. \A x \in DOMAIN byCdpSessionId' : x \in Reg!PageSessions' /\ byCdpSessionId'[x] = owner'[x]
    BY <1>4, <1>5, <1>7 DEF Reg!RegistryInv, Reg!PageSessions
  <1>9. \A x \in Reg!PageSessions' : owner'[x] \in gone' \/ x \in DOMAIN byCdpSessionId'
    BY <1>4, <1>5, <1>7 DEF Reg!RegistryInv, Reg!PageSessions
  <1>10. \A x \in DOMAIN byTargetId' :
            x \notin gone' /\ byTargetId'[x] \in DOMAIN byCdpSessionId'
            /\ byCdpSessionId'[byTargetId'[x]] = x
    BY <1>5 DEF Reg!RegistryInv
  <1> QED BY <1>6, <1>7, <1>8, <1>9, <1>10 DEF Reg!RegistryInv

LEMMA IframeResumedInv ==
    ASSUME Reg!RegistryInv, NEW s, Reg!IframeResumed(s)
    PROVE  Reg!RegistryInv'
  <1>1. /\ s \in DOMAIN attaching /\ s \notin DOMAIN iframeToCdpSession
        /\ s \in DOMAIN owner /\ attaching[s] \in Reg!PageSessions
        /\ owner[attaching[s]] = owner[s]
    BY DEF Reg!IframeResumed, Reg!RegistryInv
  <1>2. /\ DOMAIN iframeToCdpSession' = DOMAIN iframeToCdpSession \cup {s}
        /\ iframeToCdpSession'[s] = attaching[s]
        /\ \A x \in DOMAIN iframeToCdpSession :
              iframeToCdpSession'[x] = iframeToCdpSession[x]
    BY <1>1, AddIframeFacts DEF Reg!IframeResumed
  <1>3. /\ DOMAIN attaching' = DOMAIN attaching \ {s}
        /\ \A x \in DOMAIN attaching' : attaching'[x] = attaching[x]
    BY DEF Reg!IframeResumed, Reg!Drop, Reg!Restrict
  <1>4. /\ byTargetId' = byTargetId /\ byCdpSessionId' = byCdpSessionId
        /\ owner' = owner /\ gone' = gone
    BY DEF Reg!IframeResumed
  <1>5. Reg!PageSessions' = Reg!PageSessions BY <1>1, <1>2, <1>3, <1>4 DEF Reg!PageSessions
  <1>6. \A x \in DOMAIN attaching' :
            /\ x \in DOMAIN owner' \ DOMAIN iframeToCdpSession'
            /\ attaching'[x] \in Reg!PageSessions' /\ owner'[attaching'[x]] = owner'[x]
    BY <1>2, <1>3, <1>4, <1>5 DEF Reg!RegistryInv
  <1>7. \A x \in DOMAIN iframeToCdpSession' :
            /\ x \in DOMAIN owner'
            /\ iframeToCdpSession'[x] \in Reg!PageSessions'
            /\ owner'[iframeToCdpSession'[x]] = owner'[x]
    BY <1>1, <1>2, <1>4, <1>5 DEF Reg!RegistryInv
  <1> QED BY <1>4, <1>5, <1>6, <1>7 DEF Reg!RegistryInv

LEMMA TargetDestroyedInv ==
    ASSUME Reg!RegistryInv, NEW t, Reg!TargetDestroyed(t)
    PROVE  Reg!RegistryInv'
  <1>1. /\ gone' = gone \cup {t} /\ owner' = owner /\ attaching' = attaching
        /\ Reg!Remove(t)
    BY DEF Reg!TargetDestroyed
  <1>2. CASE t \in DOMAIN byTargetId
    <2> DEFINE old == byTargetId[t]
    <2>1. /\ old \in DOMAIN byCdpSessionId /\ byCdpSessionId[old] = t
          /\ old \notin DOMAIN iframeToCdpSession /\ owner[old] = t
      BY <1>2 DEF Reg!RegistryInv, Reg!PageSessions
    <2>2. /\ DOMAIN byTargetId' = DOMAIN byTargetId \ {t}
          /\ \A x \in DOMAIN byTargetId' : byTargetId'[x] = byTargetId[x]
      BY <1>1, <1>2 DEF Reg!Remove, Reg!Drop, Reg!Restrict
    <2>3. /\ DOMAIN byCdpSessionId' = DOMAIN byCdpSessionId \ {old}
          /\ \A x \in DOMAIN byCdpSessionId' : byCdpSessionId'[x] = byCdpSessionId[x]
      BY <1>1, <1>2 DEF Reg!Remove, Reg!Drop, Reg!Restrict
    <2>4. /\ DOMAIN iframeToCdpSession' = DOMAIN iframeToCdpSession
          /\ \A x \in DOMAIN iframeToCdpSession' :
                iframeToCdpSession'[x] = iframeToCdpSession[x]
      BY <1>1, <1>2, <2>1 DEF Reg!Remove, Reg!Drop, Reg!Restrict
    <2> HIDE DEF old
    <2>5. Reg!PageSessions' = Reg!PageSessions BY <1>1, <2>4 DEF Reg!PageSessions
    <2>6. \A x \in DOMAIN byCdpSessionId' :
              x \in Reg!PageSessions' /\ byCdpSessionId'[x] = owner'[x]
      BY <1>1, <2>3, <2>5 DEF Reg!RegistryInv
    <2>7. \A x \in DOMAIN attaching' :
              /\ x \in DOMAIN owner' \ DOMAIN iframeToCdpSession'
              /\ attaching'[x] \in Reg!PageSessions' /\ owner'[attaching'[x]] = owner'[x]
      BY <1>1, <2>4, <2>5 DEF Reg!RegistryInv
    <2>8. \A x \in DOMAIN iframeToCdpSession' :
              /\ x \in DOMAIN owner'
              /\ iframeToCdpSession'[x] \in Reg!PageSessions'
              /\ owner'[iframeToCdpSession'[x]] = owner'[x]
      BY <1>1, <2>4, <2>5 DEF Reg!RegistryInv
    <2>9. \A x \in Reg!PageSessions' : owner'[x] \in gone' \/ x \in DOMAIN byCdpSessionId'
      BY <1>1, <2>1, <2>3, <2>5 DEF Reg!RegistryInv
    <2>10. \A x \in DOMAIN byTargetId' :
              x \notin gone' /\ byTargetId'[x] \in DOMAIN byCdpSessionId'
              /\ byCdpSessionId'[byTargetId'[x]] = x
      BY <1>1, <2>1, <2>2, <2>3 DEF Reg!RegistryInv
    <2> QED BY <2>6, <2>7, <2>8, <2>9, <2>10 DEF Reg!RegistryInv
  <1>3. CASE t \notin DOMAIN byTargetId
    <2>1. /\ byTargetId' = byTargetId /\ byCdpSessionId' = byCdpSessionId
          /\ iframeToCdpSession' = iframeToCdpSession
      BY <1>1, <1>3 DEF Reg!Remove
    <2> QED BY <1>1, <1>3, <2>1 DEF Reg!RegistryInv, Reg!PageSessions
  <1> QED BY <1>2, <1>3

LEMMA RegistryInvStep ==
    ASSUME Reg!RegistryInv, OwnersArePages, [Reg!Next]_(Reg!vars)
    PROVE  Reg!RegistryInv'
  <1>1. ASSUME NEW p \in Pages, NEW s \in Sessions, Reg!PageAttached(p, s) PROVE Reg!RegistryInv'
    BY <1>1, PageAttachedInv
  <1>2. ASSUME NEW i \in Iframes, NEW s \in Sessions, NEW parent \in Sessions,
               Reg!IframeAttached(i, s, parent)
        PROVE  Reg!RegistryInv'
    BY <1>2, IframeAttachedInv
  <1>3. ASSUME NEW t \in Pages \cup Iframes, Reg!TargetDestroyed(t) PROVE Reg!RegistryInv'
    BY <1>3, TargetDestroyedInv
  <1>4. CASE Reg!Clear
    BY <1>4, EmptyFacts DEF Reg!Clear, Reg!RegistryInv, Reg!PageSessions, OwnersArePages
  <1>5. CASE UNCHANGED Reg!vars BY <1>5 DEF Reg!vars, Reg!registryVars, Reg!RegistryInv, Reg!PageSessions
  <1>6. ASSUME NEW s \in Sessions, Reg!IframeResumed(s) PROVE Reg!RegistryInv'
    BY <1>6, IframeResumedInv
  <1> QED BY <1>1, <1>2, <1>3, <1>4, <1>5, <1>6 DEF Reg!Next

-----------------------------------------------------------------------------
(* The types of the registry.                                              *)

LEMMA PutTyped ==
    ASSUME NEW A, NEW B, NEW map \in Reg!Maps(A, B), NEW k \in A, NEW v \in B
    PROVE  Reg!Put(map, k, v) \in Reg!Maps(A, B)
  <1>1. PICK D \in SUBSET A : map \in [D -> B] BY DEF Reg!Maps
  <1>2. Reg!Put(map, k, v) \in [D \cup {k} -> B] BY <1>1 DEF Reg!Put
  <1> QED BY <1>2 DEF Reg!Maps

LEMMA DropTyped ==
    ASSUME NEW A, NEW B, NEW map \in Reg!Maps(A, B), NEW k
    PROVE  Reg!Drop(map, k) \in Reg!Maps(A, B)
  <1>1. PICK D \in SUBSET A : map \in [D -> B] BY DEF Reg!Maps
  <1>2. Reg!Drop(map, k) \in [D \ {k} -> B] BY <1>1 DEF Reg!Drop, Reg!Restrict
  <1> QED BY <1>2 DEF Reg!Maps

LEMMA EmptyTyped == ASSUME NEW A, NEW B PROVE Reg!Empty \in Reg!Maps(A, B)
  <1>1. Reg!Empty \in [{} -> B] BY DEF Reg!Empty
  <1> QED BY <1>1 DEF Reg!Maps

LEMMA ValueTyped ==
    ASSUME NEW A, NEW B, NEW map \in Reg!Maps(A, B), NEW k \in DOMAIN map
    PROVE  k \in A /\ map[k] \in B
  BY DEF Reg!Maps

\* Every step keeps the maps what they are.
LEMMA RegistryTypes == ASSUME Reg!TypeOK, [Reg!Next]_(Reg!vars) PROVE Reg!TypeOK'
  <1> USE DEF Reg!TypeOK
  <1>1. ASSUME NEW p \in Pages, NEW s \in Sessions, Reg!PageAttached(p, s) PROVE Reg!TypeOK'
    BY <1>1, PutTyped DEF Reg!PageAttached, Reg!Add
  <1>2. ASSUME NEW i \in Iframes, NEW s \in Sessions, NEW parent \in Sessions,
               Reg!IframeAttached(i, s, parent)
        PROVE  Reg!TypeOK'
    <2>1. owner[parent] \in Pages BY <1>2, ValueTyped DEF Reg!IframeAttached, Reg!PageSessions
    <2>2. /\ owner' \in Reg!Maps(Sessions, Pages)
          /\ iframeTargetToCdpSession' \in Reg!Maps(Iframes, Sessions)
      BY <1>2, <2>1, PutTyped DEF Reg!IframeAttached
    <2>3. /\ iframeToCdpSession' \in Reg!Maps(Sessions, Sessions)
          /\ attaching' \in Reg!Maps(Sessions, Sessions)
      BY <1>2, PutTyped DEF Reg!IframeAttached, Reg!AddIframe
    <2> QED BY <1>2, <2>2, <2>3 DEF Reg!IframeAttached
  <1>3. ASSUME NEW s \in Sessions, Reg!IframeResumed(s) PROVE Reg!TypeOK'
    <2>1. attaching[s] \in Sessions BY <1>3, ValueTyped DEF Reg!IframeResumed
    <2> QED BY <1>3, <2>1, PutTyped, DropTyped DEF Reg!IframeResumed, Reg!AddIframe
  <1>4. ASSUME NEW t \in Pages \cup Iframes, Reg!TargetDestroyed(t) PROVE Reg!TypeOK'
    BY <1>4, DropTyped DEF Reg!TargetDestroyed, Reg!Remove
  <1>5. CASE Reg!Clear BY <1>5, EmptyTyped DEF Reg!Clear
  <1>6. CASE UNCHANGED Reg!vars BY <1>6 DEF Reg!vars, Reg!registryVars
  <1> QED BY <1>1, <1>2, <1>3, <1>4, <1>5, <1>6 DEF Reg!Next

-----------------------------------------------------------------------------
(* What the composition uses of the registry.                              *)

\* The registry is well typed and right about its look-ups.
RegInv == Reg!TypeOK /\ Reg!RegistryInv

\* The invariant keeps events in their tab, and the two indexes in agreement.
LEMMA RegistryPromises == Reg!RegistryInv => Reg!EventsReachTheirTab /\ Reg!IndexesAgree
  <1> SUFFICES ASSUME Reg!RegistryInv PROVE Reg!EventsReachTheirTab /\ Reg!IndexesAgree
    OBVIOUS
  <1>1. ASSUME NEW s \in DOMAIN owner, s \in DOMAIN iframeToCdpSession
        PROVE  IF owner[s] \in gone \/ s \in DOMAIN attaching
               THEN Reg!Route(s) \in {NoPage, owner[s]} ELSE Reg!Route(s) = owner[s]
    BY <1>1 DEF Reg!Route, Reg!PageOf, Reg!RegistryInv
  <1>2. ASSUME NEW s \in DOMAIN owner, s \notin DOMAIN iframeToCdpSession
        PROVE  IF owner[s] \in gone \/ s \in DOMAIN attaching
               THEN Reg!Route(s) \in {NoPage, owner[s]} ELSE Reg!Route(s) = owner[s]
    BY <1>2 DEF Reg!Route, Reg!PageOf, Reg!RegistryInv, Reg!PageSessions
  <1>3. Reg!EventsReachTheirTab BY <1>1, <1>2 DEF Reg!EventsReachTheirTab
  <1>4. Reg!IndexesAgree BY DEF Reg!IndexesAgree, Reg!PageOf, Reg!RegistryInv
  <1> QED BY <1>3, <1>4

LEMMA RegistryStart == Reg!Init => RegInv
  <1>1. Reg!Init => Reg!TypeOK BY EmptyTyped DEF Reg!Init, Reg!TypeOK
  <1> QED BY <1>1, RegistryInvInit DEF RegInv

LEMMA RegistryKept == ASSUME RegInv, [Reg!Next]_(Reg!vars) PROVE RegInv'
  <1>1. OwnersArePages BY ValueTyped DEF RegInv, Reg!TypeOK, OwnersArePages
  <1> QED BY <1>1, RegistryTypes, RegistryInvStep DEF RegInv

-----------------------------------------------------------------------------
(* The pipeline: what is counted.                                          *)

\* Counting needs the sequences and counters to be such, and that there is a
\* batch only while a post is under way.
Shape ==
    /\ queue \in Seq(Nat) /\ accumulated \in Seq(Nat) /\ batch \in Seq(Nat)
    /\ offered \in Nat /\ totalFlushed \in Nat
    /\ at # "posting" => batch = <<>>

Inv == Shape /\ CountsEveryEvent

\* flush moves the gathered events into a batch and loses none.
LEMMA FlushMoves ==
    ASSUME Inv, NEW events \in Seq(Nat), at # "posting", Flush(events)
    PROVE  /\ accumulated' \in Seq(Nat) /\ batch' \in Seq(Nat)
           /\ Len(accumulated') + Len(batch') = Len(events)
           /\ at' = "posting"
  BY DEF Flush

LEMMA OfferStep == ASSUME Inv, Offer PROVE Inv'
  BY DEF Inv, Shape, CountsEveryEvent, Offer, serverVars

LEMMA TakeStep == ASSUME Inv, Take PROVE Inv'
  <1> DEFINE events == Append(accumulated, Head(queue))
  <1>1. /\ queue \in Seq(Nat) /\ accumulated \in Seq(Nat) /\ batch = <<>>
        /\ queue # <<>> /\ at # "posting" /\ offered \in Nat /\ totalFlushed \in Nat
        /\ offered = Len(queue) + Len(accumulated) + totalFlushed
        /\ Len(queue) \in Nat /\ Len(accumulated) \in Nat
    BY DEF Inv, Shape, CountsEveryEvent, Take
  <1>2. /\ events \in Seq(Nat) /\ Len(events) = Len(accumulated) + 1
        /\ queue' \in Seq(Nat) /\ Len(queue') = Len(queue) - 1
        /\ offered' = offered /\ totalFlushed' = totalFlushed
    BY <1>1 DEF Take
  <1>3. Flush(events) \/ (accumulated' = events /\ batch' = batch /\ at' = at)
    BY DEF Take
  <1> HIDE DEF events
  <1>4. CASE Flush(events)
    <2>0. Len(queue') \in Nat /\ Len(events) \in Nat BY <1>2
    <2>1. /\ accumulated' \in Seq(Nat) /\ batch' \in Seq(Nat)
          /\ Len(accumulated') + Len(batch') = Len(events) /\ at' = "posting"
      BY <1>1, <1>2, <1>4, FlushMoves
    <2>2. Len(accumulated') \in Nat /\ Len(batch') \in Nat BY <2>1
    <2>3. /\ offered = Len(queue) + Len(accumulated) + totalFlushed
          /\ Len(queue') = Len(queue) - 1 /\ Len(events) = Len(accumulated) + 1
          /\ offered' = offered /\ totalFlushed' = totalFlushed
          /\ Len(accumulated') + Len(batch') = Len(events)
          /\ Len(queue) \in Nat /\ Len(accumulated) \in Nat /\ totalFlushed \in Nat
      BY <1>1, <1>2, <2>1
    <2>4. offered' = Len(queue') + Len(accumulated') + Len(batch') + totalFlushed'
      BY <2>0, <2>2, <2>3
    <2> QED BY <1>1, <1>2, <2>1, <2>4 DEF Inv, Shape, CountsEveryEvent
  <1>5. CASE accumulated' = events /\ batch' = batch /\ at' = at
    <2>1. accumulated' \in Seq(Nat) /\ Len(accumulated') = Len(accumulated) + 1
      BY <1>2, <1>5
    <2>2. batch' = <<>> /\ Len(batch') = 0 /\ at' # "posting" BY <1>1, <1>5
    <2>3. offered' = Len(queue') + Len(accumulated') + Len(batch') + totalFlushed'
      BY <1>1, <1>2, <2>1, <2>2
    <2> QED BY <1>1, <1>2, <2>1, <2>2, <2>3 DEF Inv, Shape, CountsEveryEvent
  <1> QED BY <1>3, <1>4, <1>5

LEMMA PostedStep == ASSUME Inv, Posted PROVE Inv'
  BY DEF Inv, Shape, CountsEveryEvent, Posted

LEMMA FinishStep == ASSUME Inv, Finish PROVE Inv'
  <1>1. /\ queue' = queue /\ offered' = offered /\ totalFlushed' = totalFlushed
        /\ at # "posting" /\ batch = <<>>
    BY DEF Inv, Shape, Finish
  <1>2. CASE accumulated # <<>>
    <2>1. Flush(accumulated) BY <1>2 DEF Finish
    <2>2. /\ accumulated' \in Seq(Nat) /\ batch' \in Seq(Nat)
          /\ Len(accumulated') + Len(batch') = Len(accumulated) /\ at' = "posting"
      BY <1>1, <2>1, FlushMoves DEF Inv, Shape
    <2> QED BY <1>1, <2>2 DEF Inv, Shape, CountsEveryEvent
  <1>3. CASE accumulated = <<>>
    BY <1>1, <1>3 DEF Inv, Shape, CountsEveryEvent, Finish
  <1> QED BY <1>2, <1>3

LEMMA CountingStep == ASSUME Inv, [Next]_vars PROVE Inv'
  <1>1. CASE Offer BY <1>1, OfferStep
  <1>2. CASE End BY <1>2 DEF End, Inv, Shape, CountsEveryEvent
  <1>3. CASE Take BY <1>3, TakeStep
  <1>4. CASE Posted BY <1>4, PostedStep
  <1>5. CASE Finish BY <1>5, FinishStep
  <1>6. CASE UNCHANGED vars BY <1>6 DEF vars, Inv, Shape, CountsEveryEvent
  <1> QED BY <1>1, <1>2, <1>3, <1>4, <1>5, <1>6 DEF Next, Rest

\* Every event the queue accepted is in the queue, gathered, in the post under
\* way, or was posted and counted, whatever the batch size.
THEOREM Counting == Spec => []CountsEveryEvent
  <1>1. Init => Inv BY DEF Init, Inv, Shape, CountsEveryEvent
  <1>2. Inv /\ [Next]_vars => Inv' BY CountingStep
  <1>3. Inv => CountsEveryEvent BY DEF Inv
  <1> QED BY <1>1, <1>2, <1>3, PTL DEF Spec

-----------------------------------------------------------------------------
(* The order of the events.  They are numbered as the queue accepts them,  *)
(* so what is stored, posted, gathered and queued is increasing, and each  *)
(* of the four precedes the next.                                          *)

Increasing(s) == \A m, n \in 1..Len(s) : m < n => s[m] < s[n]

Precedes(s, t) == \A m \in 1..Len(s), n \in 1..Len(t) : s[m] < t[n]

AtMost(s, x) == \A m \in 1..Len(s) : s[m] <= x

OrderInv ==
    /\ queue \in Seq(Nat) /\ accumulated \in Seq(Nat)
    /\ batch \in Seq(Nat) /\ stored \in Seq(Nat)
    /\ offered \in Nat
    /\ Increasing(queue) /\ Increasing(accumulated) /\ Increasing(batch) /\ Increasing(stored)
    /\ Precedes(stored, batch) /\ Precedes(stored, accumulated) /\ Precedes(stored, queue)
    /\ Precedes(batch, accumulated) /\ Precedes(batch, queue) /\ Precedes(accumulated, queue)
    /\ AtMost(queue, offered) /\ AtMost(accumulated, offered)
    /\ AtMost(batch, offered) /\ AtMost(stored, offered)

\* An event that comes after all of a sequence may be appended to it.
LEMMA AppendOrdered ==
    ASSUME NEW s \in Seq(Nat), NEW x \in Nat, Increasing(s), \A m \in 1..Len(s) : s[m] < x
    PROVE  /\ Append(s, x) \in Seq(Nat) /\ Increasing(Append(s, x))
           /\ \A y \in Nat : x <= y => AtMost(Append(s, x), y)
           /\ \A t \in Seq(Nat) :
                /\ Precedes(t, s) /\ (\A m \in 1..Len(t) : t[m] < x) => Precedes(t, Append(s, x))
                /\ Precedes(s, t) /\ (\A m \in 1..Len(t) : x < t[m]) => Precedes(Append(s, x), t)
  BY DEF Increasing, Precedes, AtMost

\* The head of an increasing sequence precedes its tail.
LEMMA TailOrdered ==
    ASSUME NEW s \in Seq(Nat), s # <<>>, Increasing(s)
    PROVE  /\ Tail(s) \in Seq(Nat) /\ Increasing(Tail(s)) /\ Head(s) \in Nat
           /\ \A m \in 1..Len(Tail(s)) : Head(s) < Tail(s)[m]
           /\ \A y \in Nat : AtMost(s, y) => AtMost(Tail(s), y) /\ Head(s) <= y
           /\ \A t \in Seq(Nat) :
                Precedes(t, s) => Precedes(t, Tail(s)) /\ \A m \in 1..Len(t) : t[m] < Head(s)
  BY DEF Increasing, Precedes, AtMost

LEMMA ConcatOrdered ==
    ASSUME NEW s \in Seq(Nat), NEW t \in Seq(Nat),
           Increasing(s), Increasing(t), Precedes(s, t)
    PROVE  /\ s \o t \in Seq(Nat) /\ Increasing(s \o t)
           /\ \A y \in Nat : AtMost(s, y) /\ AtMost(t, y) => AtMost(s \o t, y)
           /\ \A u \in Seq(Nat) : Precedes(s, u) /\ Precedes(t, u) => Precedes(s \o t, u)
  <1>1. /\ s \o t \in Seq(Nat) /\ Len(s \o t) = Len(s) + Len(t)
        /\ Len(s) \in Nat /\ Len(t) \in Nat
    OBVIOUS
  <1>2. ASSUME NEW m \in 1..Len(s \o t)
        PROVE  \/ m \in 1..Len(s) /\ (s \o t)[m] = s[m]
               \/ m - Len(s) \in 1..Len(t) /\ (s \o t)[m] = t[m - Len(s)]
    BY <1>1, <1>2
  <1>3. Increasing(s \o t)
    <2> SUFFICES ASSUME NEW m \in 1..Len(s \o t), NEW n \in 1..Len(s \o t), m < n
                 PROVE  (s \o t)[m] < (s \o t)[n]
      BY DEF Increasing
    <2>1. CASE m \in 1..Len(s) /\ n \in 1..Len(s)
      BY <1>1, <1>2, <2>1 DEF Increasing
    <2>2. CASE m \in 1..Len(s) /\ n - Len(s) \in 1..Len(t)
      <3>1. (s \o t)[m] = s[m] /\ (s \o t)[n] = t[n - Len(s)] BY <1>1, <1>2, <2>2
      <3> QED BY <2>2, <3>1 DEF Precedes
    <2>3. CASE m - Len(s) \in 1..Len(t) /\ n - Len(s) \in 1..Len(t)
      <3>1. (s \o t)[m] = t[m - Len(s)] /\ (s \o t)[n] = t[n - Len(s)] BY <1>1, <1>2, <2>3
      <3>2. m - Len(s) < n - Len(s) BY <1>1
      <3> QED BY <2>3, <3>1, <3>2 DEF Increasing
    <2> QED BY <1>1, <1>2, <2>1, <2>2, <2>3
  <1>4. \A y \in Nat : AtMost(s, y) /\ AtMost(t, y) => AtMost(s \o t, y)
    BY <1>2 DEF AtMost
  <1>5. \A u \in Seq(Nat) : Precedes(s, u) /\ Precedes(t, u) => Precedes(s \o t, u)
    BY <1>2 DEF Precedes
  <1> QED BY <1>1, <1>3, <1>4, <1>5

LEMMA EmptyOrdered ==
    /\ <<>> \in Seq(Nat) /\ Increasing(<<>>)
    /\ \A y \in Nat : AtMost(<<>>, y)
    /\ \A t \in Seq(Nat) : Precedes(t, <<>>) /\ Precedes(<<>>, t)
  BY DEF Increasing, Precedes, AtMost

\* Moving all of the gathered events into the batch keeps the order.
LEMMA FlushOrdered ==
    ASSUME OrderInv, Shape, NEW events \in Seq(Nat), NEW rest \in Seq(Nat), at # "posting",
           Increasing(events), Precedes(stored, events), AtMost(events, offered),
           Increasing(rest), Precedes(stored, rest), Precedes(events, rest), AtMost(rest, offered),
           Flush(events), queue' = rest, UNCHANGED <<offered, stored>>
    PROVE  OrderInv'
  <1>1. batch' = events /\ accumulated' = <<>> /\ queue' = rest /\ stored' = stored
        /\ offered' = offered
    BY DEF Flush
  <1>2. /\ <<>> \in Seq(Nat) /\ Increasing(<<>>) /\ AtMost(<<>>, offered)
        /\ Precedes(stored, <<>>) /\ Precedes(events, <<>>) /\ Precedes(<<>>, rest)
    BY EmptyOrdered DEF OrderInv
  <1>3. stored \in Seq(Nat) /\ Increasing(stored) /\ AtMost(stored, offered) /\ offered \in Nat
    BY DEF OrderInv
  <1> QED BY <1>1, <1>2, <1>3 DEF OrderInv

LEMMA OrderStep == ASSUME Inv, OrderInv, [Next]_vars PROVE OrderInv'
  <1>1. CASE Offer
    <2>1. /\ \A m \in 1..Len(queue) : queue[m] < offered + 1
          /\ \A m \in 1..Len(accumulated) : accumulated[m] < offered + 1
          /\ \A m \in 1..Len(batch) : batch[m] < offered + 1
          /\ \A m \in 1..Len(stored) : stored[m] < offered + 1
      BY DEF OrderInv, AtMost
    <2>2. /\ queue' \in Seq(Nat) /\ Increasing(queue') /\ AtMost(queue', offered')
          /\ Precedes(stored, queue') /\ Precedes(batch, queue') /\ Precedes(accumulated, queue')
      <3>1. /\ queue' = Append(queue, offered + 1) /\ offered' = offered + 1
            /\ offered + 1 \in Nat /\ offered + 1 <= offered + 1
        BY <1>1 DEF OrderInv, Offer
      <3> QED BY <2>1, <3>1, AppendOrdered DEF OrderInv
    <2>3. /\ AtMost(accumulated, offered') /\ AtMost(batch, offered') /\ AtMost(stored, offered')
      BY <1>1, <2>1 DEF OrderInv, Offer, AtMost
    <2> QED BY <1>1, <2>2, <2>3 DEF OrderInv, Offer, serverVars
  <1>2. CASE Take
    <2> DEFINE events == Append(accumulated, Head(queue))
    <2>0. /\ queue # <<>> /\ queue' = Tail(queue) /\ UNCHANGED <<offered, stored>>
          /\ at # "posting" /\ Shape
          /\ Flush(events) \/ (accumulated' = events /\ UNCHANGED batch)
      BY <1>2 DEF Take, Inv, serverVars
    <2>1. /\ queue' \in Seq(Nat) /\ Increasing(queue') /\ Head(queue) \in Nat
          /\ \A m \in 1..Len(queue') : Head(queue) < queue'[m]
          /\ AtMost(queue', offered) /\ Head(queue) <= offered
          /\ Precedes(stored, queue') /\ Precedes(batch, queue') /\ Precedes(accumulated, queue')
          /\ \A m \in 1..Len(stored) : stored[m] < Head(queue)
          /\ \A m \in 1..Len(batch) : batch[m] < Head(queue)
          /\ \A m \in 1..Len(accumulated) : accumulated[m] < Head(queue)
      BY <2>0, TailOrdered DEF OrderInv
    <2>2. /\ events \in Seq(Nat) /\ Increasing(events) /\ AtMost(events, offered)
          /\ Precedes(stored, events) /\ Precedes(batch, events) /\ Precedes(events, queue')
      BY <2>1, AppendOrdered DEF OrderInv
    <2> HIDE DEF events
    <2>3. CASE Flush(events) BY <2>0, <2>1, <2>2, <2>3, FlushOrdered
    <2>4. CASE accumulated' = events /\ UNCHANGED batch
      BY <2>0, <2>1, <2>2, <2>4 DEF OrderInv
    <2> QED BY <2>0, <2>3, <2>4
  <1>3. CASE Posted
    <2>1. /\ stored \o batch \in Seq(Nat) /\ Increasing(stored \o batch)
          /\ AtMost(stored \o batch, offered)
          /\ Precedes(stored \o batch, accumulated) /\ Precedes(stored \o batch, queue)
      BY ConcatOrdered DEF OrderInv
    <2>2. /\ batch' = <<>> /\ UNCHANGED <<queue, accumulated, offered>>
          /\ stored' = stored \/ stored' = stored \o batch
      BY <1>3 DEF Posted
    <2>3. /\ stored' \in Seq(Nat) /\ Increasing(stored') /\ AtMost(stored', offered)
          /\ Precedes(stored', accumulated) /\ Precedes(stored', queue)
      BY <2>1, <2>2 DEF OrderInv
    <2> QED BY <2>2, <2>3, EmptyOrdered DEF OrderInv
  <1>4. CASE Finish
    <2>1. CASE accumulated # <<>>
      <3>1. Flush(accumulated) /\ at # "posting" /\ Shape /\ UNCHANGED <<queue, offered, stored>>
        BY <1>4, <2>1 DEF Finish, Inv, serverVars
      <3> QED BY <3>1, FlushOrdered DEF OrderInv
    <2>2. CASE accumulated = <<>> BY <1>4, <2>2 DEF Finish, OrderInv, serverVars
    <2> QED BY <2>1, <2>2
  <1>5. CASE End \/ UNCHANGED vars BY <1>5 DEF End, vars, serverVars, OrderInv
  <1> QED BY <1>1, <1>2, <1>3, <1>4, <1>5 DEF Next, Rest

-----------------------------------------------------------------------------
(* Types.  That the counter of flushed events stays in its range is due to *)
(* the counting.                                                           *)

LEMMA PipelineTypes == ASSUME TypeOK, Inv, Inv', [Next]_vars PROVE TypeOK'
  <1> USE DEF TypeOK, serverVars
  <1>1. CASE Offer
    <2>1. offered + 1 \in Events /\ offered + 1 \in 0..MaxEvents
      BY <1>1, ReplayPipelineAssumption DEF Offer, Events, ReplayPipelineAssumption
    <2> QED BY <1>1, <2>1 DEF Offer
  <1>2. CASE Take
    <2>1. Append(accumulated, Head(queue)) \in Seq(Events) /\ Tail(queue) \in Seq(Events)
      BY <1>2 DEF Take
    <2>2. /\ accumulated' \in Seq(Events) /\ batch' \in Seq(Events)
          /\ at' \in {"reading", "posting"}
      <3> DEFINE events == Append(accumulated, Head(queue))
      <3>1. Flush(events) \/ (accumulated' = events /\ UNCHANGED <<batch, at>>)
        BY <1>2 DEF Take
      <3>2. at = "reading" BY <1>2 DEF Take
      <3>3. events \in Seq(Events) /\ <<>> \in Seq(Events) /\ batch \in Seq(Events) BY <2>1
      <3> HIDE DEF events, TypeOK
      <3> QED BY <3>1, <3>2, <3>3 DEF Flush
    <2>3. /\ queue' = Tail(queue)
          /\ UNCHANGED <<ended, offered, replayCreated, totalFlushed, exists, stored>>
      BY <1>2 DEF Take
    <2> QED BY <2>1, <2>2, <2>3
  <1>3. CASE Posted
    <2>1. totalFlushed' \in 0..MaxEvents
      <3>1. /\ offered' = offered /\ totalFlushed' \in Nat
            /\ offered' = Len(queue') + Len(accumulated') + Len(batch') + totalFlushed'
            /\ Len(queue') \in Nat /\ Len(accumulated') \in Nat /\ Len(batch') \in Nat
        BY <1>3 DEF Posted, Inv, Shape, CountsEveryEvent
      <3> QED BY <3>1, ReplayPipelineAssumption DEF ReplayPipelineAssumption
    <2>2. stored \o batch \in Seq(Events) /\ <<>> \in Seq(Events) OBVIOUS
    <2>3. stored' \in Seq(Events) BY <1>3, <2>2 DEF Posted
    <2>4. exists' \in BOOLEAN BY <1>3, Zenon DEF Posted
    <2>5. /\ batch' = <<>> /\ UNCHANGED <<queue, ended, offered, accumulated>>
          /\ at' = "reading" /\ replayCreated' = TRUE
      BY <1>3 DEF Posted
    <2> QED BY <2>1, <2>2, <2>3, <2>4, <2>5
  <1>4. CASE Finish
    <2>1. accumulated' \in Seq(Events) /\ batch' \in Seq(Events) BY <1>4 DEF Finish, Flush
    <2>2. at' \in {"posting", "done"} BY <1>4 DEF Finish, Flush
    <2> QED BY <1>4, <2>1, <2>2 DEF Finish
  <1>5. CASE End \/ UNCHANGED vars BY <1>5 DEF End, vars
  <1> QED BY <1>1, <1>2, <1>3, <1>4, <1>5 DEF Next, Rest

-----------------------------------------------------------------------------
(* The consumer does, step by step, what the tab's scope relies on.  That  *)
(* a post takes something away needs more than the counting: a batch under *)
(* way is never empty.                                                     *)

PostsEvents == at = "posting" => batch # <<>>

LEMMA PostsEventsStep == ASSUME Inv, PostsEvents, [Next]_vars PROVE PostsEvents'
  <1>1. CASE Take
    <2> DEFINE events == Append(accumulated, Head(queue))
    <2>1. events \in Seq(Nat) /\ Len(events) = Len(accumulated) + 1 /\ Len(accumulated) \in Nat
      BY <1>1 DEF Take, Inv, Shape
    <2>2. Flush(events) \/ (accumulated' = events /\ UNCHANGED <<batch, at>>)
      BY <1>1 DEF Take
    <2>3. events # <<>> BY <2>1
    <2> HIDE DEF events
    <2> QED BY <2>2, <2>3 DEF PostsEvents, Flush
  <1>2. CASE Finish BY <1>2 DEF Finish, Flush, PostsEvents
  <1>3. CASE Offer \/ End \/ Posted \/ UNCHANGED vars
    BY <1>3 DEF Offer, End, Posted, vars, PostsEvents
  <1> QED BY <1>1, <1>2, <1>3 DEF Next, Rest

\* What left the tab's queue without being posted, and what posting does to it.
LEMMA ConsumerStep ==
    ASSUME Inv, PostsEvents, ended \in BOOLEAN, MaxEvents \in Nat, [Next]_vars
    PROVE  [Consumer!Next]_(Consumer!vars)
  <1> DEFINE pending == Len(queue) + Len(accumulated) + Len(batch)
  <1>0. /\ Len(queue) \in Nat /\ Len(accumulated) \in Nat /\ Len(batch) \in Nat
        /\ pending \in Nat /\ offered = pending + totalFlushed
        /\ offered \in Nat /\ totalFlushed \in Nat
        /\ at # "posting" => Len(batch) = 0
        /\ at = "posting" => Len(batch) > 0
    BY DEF Inv, Shape, CountsEveryEvent, PostsEvents
  <1>1. CASE Offer
    <2>1. pending < MaxEvents BY <1>0, <1>1 DEF Offer
    <2>2. Len(queue') = Len(queue) + 1 BY <1>1 DEF Offer, Inv, Shape
    <2>3. pending' = pending + 1 BY <1>0, <1>1, <2>2 DEF Offer
    <2>4. ~ended /\ UNCHANGED <<ended, at>> BY <1>1 DEF Offer
    <2> HIDE DEF pending
    <2>5. Consumer!Offer BY <2>1, <2>3, <2>4 DEF Consumer!Offer, pending
    <2> QED BY <2>5 DEF Consumer!Next
  <1>2. CASE End
    <2>1. Consumer!End BY <1>2 DEF End, Consumer!End
    <2> QED BY <2>1 DEF Consumer!Next
  <1>3. CASE Take
    <2> DEFINE events == Append(accumulated, Head(queue))
    <2>1. /\ events \in Seq(Nat) /\ Len(events) = Len(accumulated) + 1
          /\ Len(queue') = Len(queue) - 1 /\ at = "reading" /\ UNCHANGED ended
      BY <1>3 DEF Take, Inv, Shape
    <2>2. Flush(events) \/ (accumulated' = events /\ UNCHANGED <<batch, at>>)
      BY <1>3 DEF Take
    <2> HIDE DEF events
    <2>3. Len(accumulated') + Len(batch') = Len(events) /\ at' # "done"
      BY <1>0, <2>1, <2>2, FlushMoves
    <2>4. Len(accumulated') \in Nat /\ Len(batch') \in Nat
      BY <1>0, <2>1, <2>2, FlushMoves
    <2>5. /\ Len(batch) = 0 /\ Len(queue') \in Nat /\ Len(queue') = Len(queue) - 1
          /\ Len(accumulated') + Len(batch') = Len(accumulated) + 1
      <3>1. Len(batch) = 0 BY <1>0, <2>1
      <3>2. queue' \in Seq(Nat) BY <1>3 DEF Take, Inv, Shape
      <3> QED BY <2>1, <2>3, <3>1, <3>2
    <2>6. pending' = pending BY <1>0, <2>4, <2>5
    <2> QED BY <2>1, <2>3, <2>6 DEF Consumer!vars
  <1>4. CASE Posted
    <2>1. /\ UNCHANGED <<queue, accumulated, ended>> /\ Len(batch') = 0
          /\ at = "posting" /\ at' = "reading"
      BY <1>4 DEF Posted
    <2>2. pending' = pending - Len(batch) BY <1>0, <2>1
    <2>3. pending' \in 0..(pending - 1) BY <1>0, <2>1, <2>2
    <2>4. Consumer!Flush BY <2>1, <2>3 DEF Consumer!Flush
    <2> QED BY <2>4 DEF Consumer!Next
  <1>5. CASE Finish
    <2>1. at = "reading" /\ ended /\ Len(queue) = 0 /\ UNCHANGED <<ended, queue>>
      BY <1>5 DEF Finish
    <2>2. CASE accumulated # <<>>
      <3>1. Flush(accumulated) BY <1>5, <2>2 DEF Finish
      <3>2. /\ Len(accumulated') + Len(batch') = Len(accumulated) /\ at' # "done"
            /\ Len(accumulated') \in Nat /\ Len(batch') \in Nat
        BY <2>1, <3>1, FlushMoves DEF Inv, Shape
      <3>3. pending' = pending BY <1>0, <2>1, <3>2
      <3> QED BY <2>1, <3>2, <3>3 DEF Consumer!vars
    <2>3. CASE accumulated = <<>>
      <3>1. /\ at' = "done" /\ UNCHANGED <<accumulated, batch>> /\ Len(accumulated) = 0
        BY <1>5, <2>3 DEF Finish
      <3>2. pending = 0 /\ pending' = pending BY <1>0, <2>1, <3>1
      <3>3. Consumer!Finish BY <2>1, <3>1, <3>2 DEF Consumer!Finish
      <3> QED BY <3>3 DEF Consumer!Next
    <2> QED BY <2>2, <2>3
  <1>6. CASE UNCHANGED vars BY <1>6 DEF vars, Consumer!vars
  <1> QED BY <1>1, <1>2, <1>3, <1>4, <1>5, <1>6 DEF Next, Rest

\* Every step of the consumer is one that ReplayConsumer allows, or none at all: what the
\* queue accepted is posted before the consumer says it is done, and nothing is accepted
\* after the queue has ended.
THEOREM Consumes == Spec => Consumer!Init /\ [][Consumer!Next]_(Consumer!vars)
  <1> DEFINE Steps == Inv /\ PostsEvents /\ TypeOK
  <1>1. Init => Steps /\ Consumer!Init
    <2>1. 0 \in 0..MaxEvents /\ <<>> \in Seq(Events) /\ <<>> \in Seq(Nat) /\ Len(<<>>) = 0
      BY ReplayPipelineAssumption DEF ReplayPipelineAssumption
    <2>2. Init => Inv /\ PostsEvents
      BY <2>1 DEF Init, Inv, Shape, CountsEveryEvent, PostsEvents
    <2>3. Init => TypeOK BY <2>1 DEF Init, TypeOK
    <2>4. Init => Consumer!Init BY <2>1 DEF Init, Consumer!Init
    <2> QED BY <2>2, <2>3, <2>4
  <1>2. Steps /\ [Next]_vars => Steps'
    BY CountingStep, PostsEventsStep, PipelineTypes
  <1>3. Steps /\ [Next]_vars => [Consumer!Next]_(Consumer!vars)
    BY ConsumerStep, ReplayPipelineAssumption DEF TypeOK, ReplayPipelineAssumption
  <1> HIDE DEF Steps
  <1> QED BY <1>1, <1>2, <1>3, PTL DEF Spec

-----------------------------------------------------------------------------
(* Every step of the composition is a step of the registry or leaves it    *)
(* alone, and the same of the pipeline.                                    *)

LEMMA RegistryStep == [RecordingNext]_recordingVars => [Reg!Next]_(Reg!vars)
  <1> SUFFICES ASSUME [RecordingNext]_recordingVars PROVE Reg!Next \/ UNCHANGED Reg!vars
    OBVIOUS
  <1>1. ASSUME NEW p \in Pages, NEW s \in Sessions, PageAttached(p, s) PROVE Reg!Next
    BY <1>1 DEF PageAttached, Reg!Next
  <1>2. ASSUME NEW i \in Iframes, NEW s \in Sessions, NEW q \in Sessions, IframeAttached(i, s, q)
        PROVE  Reg!Next
    BY <1>2 DEF IframeAttached, Reg!Next
  <1>3. ASSUME NEW s \in Sessions, IframeResumed(s) PROVE Reg!Next
    BY <1>3 DEF IframeResumed, Reg!Next
  <1>4. ASSUME NEW t \in Pages \cup Iframes, TargetDestroyed(t) PROVE Reg!Next
    BY <1>4 DEF TargetDestroyed, Reg!Next
  <1>5. CASE RemoveTab
    BY <1>5, TabRecordingAssumption DEF RemoveTab, Reg!Next, TabRecordingAssumption
  <1>6. CASE Clear BY <1>6 DEF Clear, Reg!Next
  <1>7. CASE Activate \/ EndQueue \/ Consume \/ Over \/ UNCHANGED recordingVars
    BY <1>7 DEF Activate, EndQueue, Consume, Over, recordingVars, regVars, Reg!vars, Reg!registryVars
  <1>8. ASSUME NEW s, Event(s) PROVE UNCHANGED Reg!vars
    BY <1>8 DEF Event, regVars, Reg!vars, Reg!registryVars
  <1> QED BY <1>1, <1>2, <1>3, <1>4, <1>5, <1>6, <1>7, <1>8 DEF RecordingNext

LEMMA PipelineStep == [RecordingNext]_recordingVars => [Next]_vars
  <1> SUFFICES ASSUME [RecordingNext]_recordingVars PROVE Next \/ UNCHANGED vars
    OBVIOUS
  <1> USE DEF Unrecorded
  <1>1. ASSUME NEW s, Event(s) PROVE Next \/ UNCHANGED vars
    BY <1>1 DEF Event, Next
  <1>2. CASE EndQueue \/ Consume BY <1>2 DEF EndQueue, Consume, Next
  <1>3. CASE Activate \/ RemoveTab \/ Clear \/ Over \/ UNCHANGED recordingVars
    BY <1>3 DEF Activate, RemoveTab, Clear, Over, recordingVars
  <1> QED BY <1>1, <1>2, <1>3 DEF RecordingNext, PageAttached, IframeAttached, IframeResumed,
                                 TargetDestroyed

-----------------------------------------------------------------------------
(* The invariant: those of the two parts; a tab whose queue is open is     *)
(* alive, because its removal follows the end of its queue; the consumer   *)
(* is done only when the queue has ended.                                  *)

QueueInv ==
    /\ QueueOpen => Tab \notin gone
    /\ at = "done" => ended
    /\ misplaced = FALSE /\ missed = FALSE

RecordingInv == RegInv /\ TypeOK /\ Inv /\ OrderInv /\ QueueInv

LEMMA RecordingStart == RecordingInit => RecordingInv
  <1> SUFFICES ASSUME RecordingInit PROVE RecordingInv
    OBVIOUS
  <1>1. RegInv BY RegistryStart DEF RecordingInit
  <1>2. Inv BY DEF RecordingInit, Init, Inv, Shape, CountsEveryEvent
  <1>3. TypeOK
    <2>1. 0 \in 0..MaxEvents /\ <<>> \in Seq(Events)
      BY ReplayPipelineAssumption DEF ReplayPipelineAssumption
    <2> QED BY <2>1 DEF RecordingInit, Init, TypeOK
  <1>4. OrderInv BY EmptyOrdered DEF RecordingInit, Init, OrderInv
  <1>5. QueueInv BY DEF RecordingInit, Init, Reg!Init, QueueInv, QueueOpen
  <1> QED BY <1>1, <1>2, <1>3, <1>4, <1>5 DEF RecordingInv

\* What the registry's invariant says of the session of an event.
LEMMA EventRouted ==
    ASSUME RegInv, QueueInv, NEW s \in DOMAIN owner, QueueOpen
    PROVE  /\ Reg!Route(s) = Tab => owner[s] = Tab
           /\ owner[s] = Tab /\ s \notin DOMAIN attaching => Reg!Route(s) = Tab
  <1>1. Reg!EventsReachTheirTab BY RegistryPromises DEF RegInv
  <1>2. Tab # NoPage BY TabRecordingAssumption DEF TabRecordingAssumption
  <1> QED BY <1>1, <1>2 DEF Reg!EventsReachTheirTab, QueueInv

LEMMA QueueStep == ASSUME RecordingInv, [RecordingNext]_recordingVars PROVE QueueInv'
  <1> USE DEF QueueInv, QueueOpen
  <1>0. QueueInv BY DEF RecordingInv
  <1>1. ASSUME NEW s \in Sessions, Event(s) PROVE QueueInv'
    <2>1. s \in DOMAIN owner BY <1>1 DEF Event
    <2>2. UNCHANGED <<gone, activated, ended, at>> BY <1>1 DEF Event, Offer, vars, serverVars, regVars
    <2>3. misplaced' = FALSE /\ missed' = FALSE
      BY <1>0, <1>1, <2>1, EventRouted DEF Event, RecordingInv
    <2> QED BY <1>0, <2>2, <2>3
  <1>2. CASE EndQueue BY <1>0, <1>2 DEF EndQueue, End, regVars, serverVars
  <1>3. CASE Consume
    BY <1>0, <1>3 DEF Consume, Take, Posted, Finish, Flush, regVars, serverVars
  <1>4. CASE Activate
    <2>1. Tab \notin gone
      <3>1. Reg!IndexesAgree BY RegistryPromises DEF RegInv, RecordingInv
      <3> QED BY <1>4, <3>1 DEF Activate, Reg!IndexesAgree
    <2> QED BY <1>0, <1>4, <2>1 DEF Activate, vars, regVars
  <1> USE DEF Unrecorded, vars
  <1>5. CASE RemoveTab BY <1>0, <1>5 DEF RemoveTab
  <1>6. CASE Clear BY <1>0, <1>6 DEF Clear
  <1>7. ASSUME NEW t \in Pages \cup Iframes, TargetDestroyed(t) PROVE QueueInv'
    BY <1>0, <1>7 DEF TargetDestroyed, Reg!TargetDestroyed
  <1>8. CASE Over \/ UNCHANGED recordingVars BY <1>0, <1>8 DEF Over, recordingVars, regVars
  <1>9. ASSUME UNCHANGED gone, Unrecorded PROVE QueueInv' BY <1>0, <1>9
  <1> QED
    BY <1>1, <1>2, <1>3, <1>4, <1>5, <1>6, <1>7, <1>8, <1>9
       DEF RecordingNext, PageAttached, IframeAttached, IframeResumed,
           Reg!PageAttached, Reg!IframeAttached, Reg!IframeResumed

LEMMA RecordingStep == ASSUME RecordingInv, [RecordingNext]_recordingVars PROVE RecordingInv'
  <1>1. RegInv' BY RegistryStep, RegistryKept DEF RecordingInv
  <1>2. Inv' /\ OrderInv' /\ TypeOK'
    BY PipelineStep, CountingStep, OrderStep, PipelineTypes DEF RecordingInv
  <1> QED BY <1>1, <1>2, QueueStep DEF RecordingInv

-----------------------------------------------------------------------------
(* The theorems.                                                           *)

LEMMA Always == RecordingSpec => []RecordingInv
  <1>1. RecordingInv /\ [RecordingNext]_recordingVars => RecordingInv' BY RecordingStep
  <1> QED BY RecordingStart, <1>1, PTL DEF RecordingSpec

\* A tab's replay holds the events of its page and of its page's iframes and no others, in
\* the order in which they came, and its queue misses none while it is open, whatever
\* attachments, removals and failing posts come in between.
THEOREM Recording == RecordingSpec => []ReplayIsTheTabs
  <1>1. RecordingInv => ReplayIsTheTabs
    BY DEF RecordingInv, RegInv, OrderInv, Increasing, QueueInv, ReplayIsTheTabs
  <1> QED BY Always, <1>1, PTL

\* While the pipeline runs, handleCDPMessage finds for every event the tab it belongs to.
THEOREM Routed == RecordingSpec => []EventsReachTheirTab
  <1>1. RecordingInv => EventsReachTheirTab
    BY RegistryPromises DEF RecordingInv, RegInv, EventsReachTheirTab
  <1> QED BY Always, <1>1, PTL

\* While the pipeline runs, the registry's two indexes agree.
THEOREM Indexed == RecordingSpec => []IndexesAgree
  <1>1. RecordingInv => IndexesAgree
    BY RegistryPromises DEF RecordingInv, RegInv, IndexesAgree
  <1> QED BY Always, <1>1, PTL

\* Fed by the registry, the consumer loses no event between its queue and its posts.
THEOREM Counted == RecordingSpec => []CountsEveryEvent
  <1>1. RecordingInv => CountsEveryEvent BY DEF RecordingInv, Inv
  <1> QED BY Always, <1>1, PTL

\* Fed by the registry, the consumer still does only what ReplayConsumer allows, which is
\* what the scope of the tab relies on when it drains the replay.
THEOREM Consuming == RecordingSpec => Consumer!Init /\ [][Consumer!Next]_(Consumer!vars)
  <1> DEFINE Steps == RecordingInv /\ PostsEvents
  <1>1. RecordingInit => Steps /\ Consumer!Init
    <2>1. Len(<<>>) = 0 OBVIOUS
    <2>2. RecordingInit => PostsEvents /\ Consumer!Init
      BY <2>1 DEF RecordingInit, Init, PostsEvents, Consumer!Init
    <2> QED BY <2>2, RecordingStart
  <1>2. Steps /\ [RecordingNext]_recordingVars => Steps'
    BY RecordingStep, PipelineStep, PostsEventsStep DEF RecordingInv
  <1>3. Steps /\ [RecordingNext]_recordingVars => [Consumer!Next]_(Consumer!vars)
    BY PipelineStep, ConsumerStep, ReplayPipelineAssumption
       DEF RecordingInv, TypeOK, ReplayPipelineAssumption
  <1> HIDE DEF Steps
  <1> QED BY <1>1, <1>2, <1>3, PTL DEF RecordingSpec
=============================================================================

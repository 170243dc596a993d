------------------------- MODULE ClickPipeline_proofs -------------------------
(***************************************************************************)
(* The safety properties of a dispatch of the solver, for any widgets of   *)
(* the page and of other tabs and any numbers of attempts and polls.       *)
(***************************************************************************)
EXTENDS ClickPipeline, TLAPS

-----------------------------------------------------------------------------
(* The inductive invariant.                                                *)

\* The awaits of an attempt that has its widget.
Clicking == {"coords", "listen", "pressing", "holding", "releasing", "verify"}

\* Whatever is aimed at, has a press on its way or was pressed, is the page's own.
OwnInv ==
    /\ pc \in Clicking \cup {"checkbox"} => local.target \in OwnWidgets
    /\ ClicksOwnPage

\* The button is down only inside the uninterruptible region; the connection is the
\* dispatch's; an interrupted fiber is in such a region or at its end.
RegionInv ==
    /\ held => pc \in {"pressing", "holding"}
    /\ pc \notin {"open", "over"} => "solver_isolated" \in sockets
    /\ stopping => pc \in Uninterruptible \cup {"over"}

\* A heartbeat outlives its search for the checkbox only if the detection is over, which it
\* then stays; no attempt gets as far as a widget after that.
BeatInv ==
    /\ active.aborted => active.latch
    /\ pc = "checkbox" => heartbeats \subseteq {loop.attempt}
    /\ pc # "checkbox" /\ heartbeats # {} => active.aborted \/ Done
    /\ QuietClick

\* A mark is the last thing a dispatch does, before there can be a successor.
MarkInv ==
    /\ registered = "next" => stopping
    /\ pc = "verify" => local.pressed
    /\ listener.flag \subseteq listener.landed
    /\ delivered # {} => pc = "over"
    /\ CreditIsEarned

Inv == TypeOK /\ OwnInv /\ RegionInv /\ BeatInv /\ MarkInv

-----------------------------------------------------------------------------
(* Types, by the parts of the state.                                       *)

Pcs == Uninterruptible \cup
        {"retry", "dom", "frame", "targets", "byFrame", "byParent", "checkbox", "coords",
         "listen", "verify", "over"}
LoopRec == [attempt : 0 .. MaxClickAttempts - 1, last : 0 .. MaxClickAttempts - 1,
            misses : 0 .. MaxNoCheckbox]
LocalRec == [anchor : OwnWidgets \cup {NoWidget}, framed : BOOLEAN,
             listed : SUBSET Widgets, poll : 0 .. MaxPolls,
             target : Widgets \cup {NoWidget}, pressed : BOOLEAN]
ActiveRec == [aborted : BOOLEAN, latch : BOOLEAN, resolution : {"pending", "solved", "failed"}]
ChromeRec == [state : [Widgets -> {"new", "live", "gone"}], shown : OwnWidgets \cup {NoWidget}]
ListenerRec == [armed : SUBSET Widgets, flag : SUBSET Widgets,
                due : SUBSET Widgets, landed : SUBSET Widgets]
Sockets == {"solver_isolated", "clean_page"}
Attempts == 0 .. MaxClickAttempts - 1
Outcomes == {"none", "Clicked", "NoClick", "Aborted"}

LEMMA Types ==
    TypeOK <=> /\ kind \in {"turnstile", "interstitial"} /\ pc \in Pcs
               /\ loop \in LoopRec /\ local \in LocalRec
               /\ stopping \in BOOLEAN /\ held \in BOOLEAN /\ outcome \in Outcomes
               /\ sockets \subseteq Sockets /\ heartbeats \subseteq Attempts
               /\ active \in ActiveRec
               /\ registered \in {"own", "next", "none"} /\ delivered \subseteq {"own", "next"}
               /\ chrome \in ChromeRec /\ listener \in ListenerRec
  BY DEF TypeOK, Pcs, LoopRec, LocalRec, ActiveRec, ChromeRec, ListenerRec, Sockets, Attempts,
         Outcomes

LEMMA NextTypes ==
    ASSUME kind' \in {"turnstile", "interstitial"}, pc' \in Pcs,
           loop' \in LoopRec, local' \in LocalRec,
           stopping' \in BOOLEAN, held' \in BOOLEAN, outcome' \in Outcomes,
           sockets' \subseteq Sockets, heartbeats' \subseteq Attempts,
           active' \in ActiveRec,
           registered' \in {"own", "next", "none"}, delivered' \subseteq {"own", "next"},
           chrome' \in ChromeRec, listener' \in ListenerRec
    PROVE  TypeOK'
  BY Zenon DEF TypeOK, Pcs, LoopRec, LocalRec, ActiveRec, ChromeRec, ListenerRec, Sockets, Attempts,
         Outcomes

-----------------------------------------------------------------------------
(* How an attempt goes on and ends.                                        *)

LEMMA NothingTyped == Nothing \in LocalRec
  BY PipelineAssumption DEF Nothing, LocalRec, PipelineAssumption

\* An attempt that fails ends the dispatch or begins another attempt.
LEMMA FailedAttempt ==
    ASSUME TypeOK, NEW result, AttemptFails(result)
    PROVE  /\ pc' \in {"over", "retry"}
           /\ loop' \in LoopRec /\ local' \in LocalRec /\ outcome' \in Outcomes
           /\ registered' \in {registered, "none"}
  <1>1. loop \in LoopRec /\ local \in LocalRec /\ outcome \in Outcomes BY Types
  <1>2. CASE pc' = "over"
    BY <1>1, <1>2 DEF AttemptFails, Return, Outcomes
  <1>3. CASE pc' = "retry"
    <2>1. /\ ~(loop.attempt >= Last(result)) /\ ~(Misses(result) >= MaxNoCheckbox)
          /\ loop' = [attempt |-> loop.attempt + 1, last |-> Last(result),
                      misses |-> Misses(result)]
          /\ local' = Nothing /\ UNCHANGED <<outcome, registered>>
      BY <1>3 DEF AttemptFails, Return
    <2>2. /\ MaxClickAttempts \in Nat \ {0, 1} /\ MaxNoCheckbox \in Nat \ {0}
          /\ loop.attempt \in 0 .. MaxClickAttempts - 1 /\ loop.last \in 0 .. MaxClickAttempts - 1
          /\ loop.misses \in 0 .. MaxNoCheckbox
      BY <1>1, PipelineAssumption DEF LoopRec, PipelineAssumption
    <2>3. Last(result) \in 0 .. MaxClickAttempts - 1 BY <2>2 DEF Last
    <2>4. loop.attempt + 1 \in 0 .. MaxClickAttempts - 1 BY <2>1, <2>2, <2>3
    <2>5. Misses(result) \in 0 .. MaxNoCheckbox BY <2>1, <2>2 DEF Misses
    <2> QED BY <1>1, <1>3, <2>1, <2>3, <2>4, <2>5, NothingTyped DEF LoopRec
  <1> QED BY <1>2, <1>3 DEF AttemptFails, Return

LEMMA Returned ==
    ASSUME NEW result \in Outcomes, Return(result)
    PROVE  /\ pc' = "over" /\ loop' = loop /\ local' = local /\ outcome' \in Outcomes
           /\ registered' \in {registered, "none"}
  BY DEF Return

LEMMA ScopesKeep ==
    ASSUME sockets \subseteq Sockets, NEW opened \in SUBSET Sockets, Scopes(opened)
    PROVE  /\ sockets' \subseteq Sockets
           /\ "solver_isolated" \in sockets \/ ("solver_isolated" \in opened /\ pc' # "retry")
                => pc' = "over" \/ "solver_isolated" \in sockets'
  BY DEF Scopes, Sockets

\* What a step of the fiber has to show.
LEMMA FiberMoves ==
    ASSUME Inv, pc # "over",
           pc' \in Pcs, loop' \in LoopRec, local' \in LocalRec, outcome' \in Outcomes,
           registered' \in {registered, "none"},
           NEW opened \in SUBSET Sockets, Scopes(opened),
           pc = "open" => "solver_isolated" \in opened /\ pc' # "retry",
           pc' # "open",
           NEW beating \in SUBSET Attempts, Beats(beating),
           UNCHANGED <<kind, stopping, active, chrome>>,
           held' \in BOOLEAN, held' => pc' \in {"pressing", "holding"},
           stopping => pc' \in Uninterruptible \cup {"over"},
           pc' \in Clicking \cup {"checkbox"} => local'.target \in OwnWidgets,
           pc' = "verify" => local'.pressed,
           pc' = "checkbox" => beating \subseteq {loop'.attempt},
           pc' \in Clicking => beating = {},
           pc' # "checkbox" /\ beating # {} => active.aborted \/ Done,
           listener' \in ListenerRec, ClicksOwnPage', listener'.flag \subseteq listener'.landed,
           delivered' \subseteq {"own", "next"}, delivered' # {} => pc' = "over", CreditIsEarned'
    PROVE  Inv'
  <1>1. /\ kind \in {"turnstile", "interstitial"} /\ stopping \in BOOLEAN /\ active \in ActiveRec
        /\ registered \in {"own", "next", "none"} /\ chrome \in ChromeRec
        /\ sockets \subseteq Sockets
    BY Types DEF Inv
  <1>2. heartbeats' = (IF pc' = "over" THEN {} ELSE beating) BY DEF Beats
  <1>3. sockets' \subseteq Sockets BY <1>1, ScopesKeep
  <1>4. TypeOK'
    BY <1>1, <1>2, <1>3, NextTypes
  <1>5. OwnInv' BY DEF OwnInv
  <1>6. RegionInv'
    <2>1. pc' \notin {"open", "over"} => "solver_isolated" \in sockets'
      <3>1. pc # "open" => "solver_isolated" \in sockets BY DEF Inv, RegionInv
      <3> QED BY <1>1, <3>1, ScopesKeep
    <2> QED BY <2>1 DEF RegionInv
  <1>7. BeatInv'
    BY <1>2 DEF Inv, BeatInv, QuietClick, Done, Clicking
  <1>8. MarkInv'
    BY DEF Inv, MarkInv
  <1> QED BY <1>4, <1>5, <1>6, <1>7, <1>8 DEF Inv

\* A step of the fiber that touches neither the button nor the marks.
LEMMA FiberGoes ==
    ASSUME Inv, pc # "over", Still,
           pc' \in Pcs, loop' \in LoopRec, local' \in LocalRec, outcome' \in Outcomes,
           registered' \in {registered, "none"},
           NEW opened \in SUBSET Sockets, Scopes(opened),
           pc = "open" => "solver_isolated" \in opened /\ pc' # "retry",
           pc' # "open",
           NEW beating \in SUBSET Attempts, Beats(beating),
           held => pc' \in {"pressing", "holding"},
           stopping => pc' \in Uninterruptible \cup {"over"},
           pc' \in Clicking \cup {"checkbox"} => local'.target \in OwnWidgets,
           pc' = "verify" => local'.pressed,
           pc' = "checkbox" => beating \subseteq {loop'.attempt},
           pc' \in Clicking => beating = {},
           pc' # "checkbox" /\ beating # {} => active.aborted \/ Done
    PROVE  Inv'
  <1>1. /\ UNCHANGED <<kind, stopping, held, active, delivered, chrome, listener>>
        /\ held \in BOOLEAN /\ listener \in ListenerRec /\ delivered \subseteq {"own", "next"}
        /\ delivered = {} /\ ClicksOwnPage /\ listener.flag \subseteq listener.landed
    BY Types DEF Still, Inv, OwnInv, MarkInv
  <1>2. ClicksOwnPage' /\ CreditIsEarned' /\ listener'.flag \subseteq listener'.landed
    BY <1>1 DEF ClicksOwnPage, CreditIsEarned
  <1> QED BY <1>1, <1>2, FiberMoves

LEMMA FiberReturns ==
    ASSUME Inv, pc # "over", Still, ~held, NEW result \in Outcomes, Return(result),
           NEW opened \in SUBSET Sockets, Scopes(opened), pc = "open" => "solver_isolated" \in opened,
           NEW beating, Beats(beating)
    PROVE  Inv'
  <1>1. /\ pc' = "over" /\ loop' \in LoopRec /\ local' \in LocalRec /\ outcome' \in Outcomes
        /\ registered' \in {registered, "none"}
    BY Types, Returned DEF Inv
  <1>2. Beats({}) BY <1>1 DEF Beats
  <1>3. pc' \in Pcs /\ pc' \notin Clicking \cup {"checkbox", "open", "retry", "verify"}
    BY <1>1 DEF Pcs, Clicking
  <1> QED BY <1>1, <1>2, <1>3, FiberGoes

LEMMA FiberFails ==
    ASSUME Inv, pc \notin {"open", "over"}, Still, ~held, ~stopping,
           NEW result, AttemptFails(result), Scopes({}),
           NEW beating \in SUBSET Attempts, Beats(beating),
           beating # {} => active.aborted \/ Done
    PROVE  Inv'
  <1>1. /\ pc' \in {"over", "retry"}
        /\ loop' \in LoopRec /\ local' \in LocalRec /\ outcome' \in Outcomes
        /\ registered' \in {registered, "none"}
    BY FailedAttempt DEF Inv
  <1>2. pc' \in Pcs /\ pc' \notin Clicking \cup {"checkbox", "open", "verify"}
    BY <1>1 DEF Pcs, Clicking
  <1>3. {} \in SUBSET Sockets OBVIOUS
  <1> QED BY <1>1, <1>2, <1>3, FiberGoes

\* At an await that may be interrupted nothing has been, and the button is up.
LEMMA AtRest ==
    ASSUME Inv, pc \notin Uninterruptible \cup {"over"}
    PROVE  /\ ~stopping /\ ~held
           /\ pc # "checkbox" => heartbeats \in SUBSET Attempts
           /\ pc # "checkbox" /\ heartbeats # {} => active.aborted \/ Done
  BY Types DEF Inv, RegionInv, BeatInv, Uninterruptible

\* The fiber goes on to an await before it has a widget.
LEMMA FiberSearches ==
    ASSUME Inv, pc \notin {"over", "checkbox"}, Still, ~held, NEW next, Goto(next),
           next \in {"clean", "dom", "frame", "targets", "byFrame", "byParent"},
           stopping => next = "clean", local' \in LocalRec,
           NEW opened \in SUBSET Sockets, Scopes(opened), pc = "open" => "solver_isolated" \in opened,
           Beats(heartbeats) \/ (Beats({}))
    PROVE  Inv'
  <1>1. /\ pc' = next /\ loop' \in LoopRec /\ outcome' \in Outcomes /\ registered' = registered
        /\ heartbeats \in SUBSET Attempts
        /\ heartbeats # {} => active.aborted \/ Done
    BY Types DEF Goto, Inv, BeatInv
  <1>2. /\ pc' \in Pcs /\ pc' \notin Clicking \cup {"checkbox", "open", "retry", "verify"}
        /\ pc' = "clean" => pc' \in Uninterruptible
    BY <1>1 DEF Pcs, Clicking, Uninterruptible
  <1>3. {} \in SUBSET Attempts OBVIOUS
  <1> QED BY <1>1, <1>2, <1>3, FiberGoes

-----------------------------------------------------------------------------
(* The steps of the dispatch, up to the widget.                            *)

LEMMA OpenStep == ASSUME Inv, Open PROVE Inv'
  <1>1. /\ pc = "open" /\ Scopes({"solver_isolated"}) /\ Beats({}) /\ Still
        /\ {"solver_isolated"} \in SUBSET Sockets /\ ~held /\ local \in LocalRec
    BY Types DEF Open, Sockets, Inv, RegionInv
  <1>2. CASE Return("Aborted")
    <2>1. "Aborted" \in Outcomes BY DEF Outcomes
    <2> QED BY <1>1, <1>2, <2>1, FiberReturns
  <1>3. CASE ~stopping /\ Goto("clean") /\ UNCHANGED local
    <2>1. local' \in LocalRec BY <1>1, <1>3
    <2> QED BY <1>1, <1>3, <2>1, FiberSearches
  <1> QED BY <1>2, <1>3 DEF Open

LEMMA RetryStep == ASSUME Inv, Retry PROVE Inv'
  <1>1. /\ pc = "retry" /\ Goto("clean") /\ Scopes({}) /\ Beats(heartbeats) /\ Still
        /\ {} \in SUBSET Sockets /\ local' \in LocalRec
    BY Types DEF Retry, Inv
  <1>2. ~stopping /\ ~held BY <1>1, AtRest DEF Uninterruptible
  <1> QED BY <1>1, <1>2, FiberSearches

LEMMA OpenCleanStep == ASSUME Inv, OpenClean PROVE Inv'
  <1> DEFINE opened == IF pc' = "dom" THEN {"clean_page"} ELSE {}
  <1>1. /\ pc = "clean" /\ Scopes(opened) /\ Beats(heartbeats) /\ Still /\ ~held
        /\ opened \in SUBSET Sockets /\ local \in LocalRec
    BY Types DEF OpenClean, Sockets, Inv, RegionInv
  <1> HIDE DEF opened
  <1>2. CASE stopping
    <2>1. Return("Aborted") /\ "Aborted" \in Outcomes BY <1>2 DEF OpenClean, Outcomes
    <2> QED BY <1>1, <2>1, FiberReturns
  <1>3. CASE ~stopping
    <2>1. PICK next \in {"dom", "frame"} : Goto(next) /\ UNCHANGED local
      BY <1>3 DEF OpenClean
    <2>2. local' \in LocalRec BY <1>1, <2>1
    <2> QED BY <1>1, <1>3, <2>1, <2>2, FiberSearches
  <1> QED BY <1>2, <1>3

LEMMA SearchStep == ASSUME Inv, PageTraversal \/ PageFrame \/ Targets PROVE Inv'
  <1>1. /\ pc \in {"dom", "frame", "targets"} /\ Scopes({}) /\ Beats(heartbeats) /\ Still
        /\ {} \in SUBSET Sockets
        /\ Goto("frame") \/ Goto("targets") \/ Goto("byFrame")
    BY DEF PageTraversal, PageFrame, Targets
  <1>2. ~stopping /\ ~held BY <1>1, AtRest DEF Uninterruptible
  <1>3. local' \in LocalRec
    <2>1. local \in LocalRec /\ chrome.shown \in OwnWidgets \cup {NoWidget}
      BY Types DEF Inv, ChromeRec
    <2>2. Live \in SUBSET Widgets BY DEF Live
    <2>3. CASE PageTraversal BY <2>1, <2>3 DEF PageTraversal, LocalRec
    <2>4. CASE PageFrame BY <2>1, <2>4 DEF PageFrame, LocalRec
    <2>5. CASE Targets BY <2>1, <2>2, <2>5 DEF Targets, LocalRec
    <2> QED BY <2>3, <2>4, <2>5
  <1>4. PICK next \in {"frame", "targets", "byFrame"} : Goto(next) BY <1>1
  <1> QED BY <1>1, <1>2, <1>3, <1>4, FiberSearches

\* A widget of the page has been chosen.  The attempt's heartbeat begins, and is alone unless
\* the attempt fails at once.
LEMMA Matched ==
    ASSUME Inv, pc \in {"byFrame", "byParent"}, Still, Scopes({}),
           Beats(heartbeats \cup {loop.attempt}), NEW w \in OwnWidgets, Match(w)
    PROVE  Inv'
  <1>1. /\ ~stopping /\ ~held /\ heartbeats \in SUBSET Attempts
        /\ heartbeats # {} => active.aborted \/ Done
    BY AtRest DEF Uninterruptible
  <1>2. /\ loop \in LoopRec /\ local \in LocalRec /\ outcome \in Outcomes
        /\ heartbeats \cup {loop.attempt} \in SUBSET Attempts
    BY <1>1, Types DEF Inv, LoopRec, Attempts
  <1>3. CASE active.aborted \/ Done
    <2>1. AttemptFails("NoCheckbox") BY <1>3 DEF Match
    <2> QED BY <1>1, <1>2, <1>3, <2>1, FiberFails
  <1>4. CASE ~(active.aborted \/ Done)
    <2>1. /\ pc' = "checkbox" /\ UNCHANGED <<loop, outcome, registered>>
          /\ local' = [local EXCEPT !.target = w]
      BY <1>4 DEF Match, Goto
    <2>2. local' \in LocalRec /\ local'.target = w BY <1>2, <2>1 DEF LocalRec, Widgets
    <2>3. heartbeats = {} BY <1>1, <1>4
    <2>4. Beats({loop.attempt}) /\ {loop.attempt} \in SUBSET Attempts
      BY <1>2, <2>3
    <2>5. pc' \in Pcs /\ pc' \notin Clicking /\ {} \in SUBSET Sockets
      BY <2>1 DEF Pcs, Clicking
    <2> QED BY <1>1, <1>2, <2>1, <2>2, <2>4, <2>5, FiberGoes
  <1> QED BY <1>3, <1>4

LEMMA ByFrameStep == ASSUME Inv, ByFrame PROVE Inv'
  <1>1. pc = "byFrame" /\ Scopes({}) /\ Still /\ {} \in SUBSET Sockets BY DEF ByFrame
  <1>2. ASSUME NEW w \in Live, w = local.anchor, Match(w), Beats(heartbeats \cup {loop.attempt})
        PROVE  Inv'
    <2>1. w \in OwnWidgets
      BY <1>2, Types, PipelineAssumption DEF Inv, LocalRec, Live, PipelineAssumption
    <2> QED BY <1>1, <1>2, <2>1, Matched
  <1>3. CASE Goto("byParent") /\ UNCHANGED local /\ Beats(heartbeats)
    <2>1. local' \in LocalRec BY <1>3, Types DEF Inv
    <2>2. ~stopping /\ ~held BY <1>1, AtRest DEF Uninterruptible
    <2> QED BY <1>1, <1>3, <2>1, <2>2, FiberSearches
  <1> QED BY <1>2, <1>3 DEF ByFrame

LEMMA ByParentStep == ASSUME Inv, ByParent PROVE Inv'
  <1>1. pc = "byParent" /\ Scopes({}) /\ Still /\ {} \in SUBSET Sockets BY DEF ByParent
  <1>2. ASSUME NEW w \in Live \cap Children, Match(w), Beats(heartbeats \cup {loop.attempt})
        PROVE  Inv'
    BY <1>1, <1>2, Matched DEF Children
  <1>3. CASE NoMatch /\ Beats(heartbeats)
    <2>1. /\ ~stopping /\ ~held /\ heartbeats \in SUBSET Attempts
          /\ heartbeats # {} => active.aborted \/ Done
      BY <1>1, AtRest DEF Uninterruptible
    <2>2. CASE AttemptFails("NoCheckbox") BY <1>1, <1>3, <2>1, <2>2, FiberFails
    <2>3. CASE /\ local.poll + 1 < MaxPolls
               /\ Goto("targets") /\ local' = [local EXCEPT !.poll = @ + 1]
      <3>1. local \in LocalRec /\ MaxPolls \in Nat
        BY Types, PipelineAssumption DEF Inv, PipelineAssumption
      <3>2. local.poll + 1 \in 0 .. MaxPolls BY <2>3, <3>1 DEF LocalRec
      <3>3. local' \in LocalRec BY <2>3, <3>1, <3>2 DEF LocalRec
      <3> QED BY <1>1, <1>3, <2>1, <2>3, <3>3, FiberSearches
    <2> QED BY <1>3, <2>2, <2>3 DEF NoMatch
  <1> QED BY <1>2, <1>3 DEF ByParent

-----------------------------------------------------------------------------
(* The checkbox and the click.                                             *)

\* With its widget found the fiber goes on to an await of the click, in silence.
LEMMA FiberClicks ==
    ASSUME Inv, pc \in Clicking \cup {"checkbox"}, Still,
           NEW next \in Clicking, Goto(next), Scopes({}), Beats({}),
           local' \in LocalRec, local'.target = local.target,
           held => next \in {"pressing", "holding"},
           stopping => next \in Uninterruptible,
           next = "verify" => local'.pressed
    PROVE  Inv'
  <1>1. /\ pc' = next /\ loop' \in LoopRec /\ outcome' \in Outcomes /\ registered' = registered
    BY Types DEF Goto, Inv
  <1>2. /\ pc # "over" /\ pc # "open" /\ local.target \in OwnWidgets
        /\ next # "checkbox" /\ next # "open"
    BY DEF Clicking, Inv, OwnInv
  <1>3. pc' \in Pcs BY <1>1 DEF Pcs, Clicking, Uninterruptible
  <1>4. {} \in SUBSET Attempts /\ {} \in SUBSET Sockets OBVIOUS
  <1> QED BY <1>1, <1>2, <1>3, <1>4, FiberGoes

LEMMA CheckboxStep == ASSUME Inv, Checkbox PROVE Inv'
  <1>1. /\ pc = "checkbox" /\ Scopes({}) /\ Still
        /\ heartbeats \subseteq {loop.attempt} /\ heartbeats \in SUBSET Attempts
        /\ heartbeats \ {loop.attempt} = {}
    BY Types DEF Checkbox, Inv, BeatInv
  <1>2. ~stopping /\ ~held BY <1>1, AtRest DEF Uninterruptible
  <1>3. CASE Goto("coords") /\ UNCHANGED local /\ Beats(heartbeats \ {loop.attempt})
    <2>1. "coords" \in Clicking /\ local' \in LocalRec BY <1>3, Types DEF Clicking, Inv
    <2>2. Beats({}) BY <1>1, <1>3
    <2> QED BY <1>1, <1>2, <1>3, <2>1, <2>2, FiberClicks
  <1>4. CASE (active.aborted \/ Done) /\ AttemptFails("NoCheckbox") /\ Beats(heartbeats)
    BY <1>1, <1>2, <1>4, FiberFails
  <1>5. CASE AttemptFails("NoCheckbox") /\ Beats(heartbeats \ {loop.attempt})
    <2>1. Beats({}) /\ {} \in SUBSET Attempts BY <1>1, <1>5
    <2> QED BY <1>1, <1>2, <1>5, <2>1, FiberFails
  <1> QED BY <1>3, <1>4, <1>5 DEF Checkbox

\* While the widget is clicked no heartbeat runs.
LEMMA Silent == ASSUME Inv, pc \in Clicking PROVE heartbeats = {}
  BY DEF Inv, BeatInv, QuietClick, Clicking

LEMMA CoordsStep == ASSUME Inv, Coords PROVE Inv'
  <1>1. pc = "coords" /\ Scopes({}) /\ Beats(heartbeats) /\ Still BY DEF Coords
  <1>2. ~stopping /\ ~held BY <1>1, AtRest DEF Uninterruptible
  <1>3. heartbeats = {} /\ pc \in Clicking BY <1>1, Silent DEF Clicking
  <1>4. ASSUME NEW result, AttemptFails(result) PROVE Inv'
    <2>1. {} \in SUBSET Attempts OBVIOUS
    <2> QED BY <1>1, <1>2, <1>3, <1>4, <2>1, FiberFails
  <1>5. CASE Goto("listen") /\ UNCHANGED local
    <2>1. "listen" \in Clicking /\ local' \in LocalRec BY <1>5, Types DEF Clicking, Inv
    <2> QED BY <1>1, <1>2, <1>3, <1>5, <2>1, FiberClicks
  <1> QED BY <1>4, <1>5 DEF Coords

LEMMA PressStep == ASSUME Inv, Press PROVE Inv'
  <1>1. /\ pc = "listen" /\ pc' = "pressing" /\ held' = TRUE /\ Scopes({}) /\ Beats(heartbeats)
        /\ UNCHANGED <<loop, local, outcome, registered, kind, stopping, active, delivered, chrome>>
    BY DEF Press, Goto
  <1>2. /\ loop \in LoopRec /\ local \in LocalRec /\ outcome \in Outcomes
        /\ listener \in ListenerRec /\ delivered = {}
    BY <1>1, Types DEF Inv, MarkInv
  <1>3. /\ local.target \in OwnWidgets /\ heartbeats = {} /\ ClicksOwnPage
        /\ listener.flag \subseteq listener.landed
    BY <1>1, Silent DEF Inv, OwnInv, MarkInv, Clicking
  <1>4. PICK live \in {{local.target} \cap Live}, installed \in {{local.target} \cap Live, {}} :
          listener' = [listener EXCEPT !.armed = @ \cup installed,
                                       !.flag = @ \ installed, !.due = @ \cup live]
    BY DEF Press
  <1>5. live \subseteq OwnWidgets /\ installed \subseteq OwnWidgets
    BY <1>3
  <1>6. /\ listener' \in ListenerRec /\ listener'.landed = listener.landed
        /\ listener'.due = listener.due \cup live /\ listener'.flag = listener.flag \ installed
    BY <1>2, <1>4, <1>5 DEF ListenerRec, Widgets
  <1>7. /\ ClicksOwnPage' /\ listener'.flag \subseteq listener'.landed
        /\ CreditIsEarned' /\ delivered' \subseteq {"own", "next"}
    BY <1>1, <1>2, <1>3, <1>5, <1>6 DEF ClicksOwnPage, CreditIsEarned
  <1>8. /\ pc' \in Pcs /\ pc' \in Uninterruptible /\ {} \in SUBSET Attempts
        /\ {} \in SUBSET Sockets
    BY <1>1 DEF Pcs, Uninterruptible
  <1>9. Beats({}) BY <1>1, <1>3
  <1> QED BY <1>1, <1>2, <1>3, <1>6, <1>7, <1>8, <1>9, FiberMoves

LEMMA PressedStep == ASSUME Inv, Pressed PROVE Inv'
  <1>1. pc = "pressing" /\ Goto("holding") /\ Scopes({}) /\ Beats(heartbeats) /\ Still
    BY DEF Pressed
  <1>2. PICK ok \in BOOLEAN : local' = [local EXCEPT !.pressed = ok]
    BY DEF Pressed, Answers
  <1>3. local' \in LocalRec /\ local'.target = local.target
    BY <1>2, Types DEF Inv, LocalRec
  <1>4. /\ heartbeats = {} /\ pc \in Clicking /\ "holding" \in Clicking
        /\ "holding" \in Uninterruptible
    BY <1>1, Silent DEF Clicking, Uninterruptible
  <1> QED BY <1>1, <1>3, <1>4, FiberClicks

LEMMA ReleaseStep == ASSUME Inv, Release PROVE Inv'
  <1>1. /\ pc = "holding" /\ pc' = "releasing" /\ held' = FALSE /\ Scopes({}) /\ Beats(heartbeats)
        /\ UNCHANGED <<loop, local, outcome, registered, kind, stopping, active, delivered, chrome,
                       listener>>
    BY DEF Release, Goto
  <1>2. /\ loop \in LoopRec /\ local \in LocalRec /\ outcome \in Outcomes
        /\ listener \in ListenerRec /\ delivered = {}
        /\ local.target \in OwnWidgets /\ heartbeats = {}
        /\ ClicksOwnPage /\ listener.flag \subseteq listener.landed
    BY <1>1, Silent, Types DEF Inv, OwnInv, MarkInv, Clicking
  <1>3. /\ ClicksOwnPage' /\ listener'.flag \subseteq listener'.landed
        /\ CreditIsEarned' /\ delivered' \subseteq {"own", "next"}
    BY <1>1, <1>2 DEF ClicksOwnPage, CreditIsEarned
  <1>4. /\ pc' \in Pcs /\ pc' \in Uninterruptible /\ {} \in SUBSET Attempts
        /\ {} \in SUBSET Sockets
    BY <1>1 DEF Pcs, Uninterruptible
  <1>5. Beats({}) BY <1>1, <1>2
  <1> QED BY <1>1, <1>2, <1>3, <1>4, <1>5, FiberMoves

\* The mark is made on this detection, which has no successor yet, for a click of which both
\* halves were accepted.
LEMMA VerifiedStep ==
    ASSUME Inv, pc \in Clicking, ~stopping, ~held, Verified, Scopes({}), Beats(heartbeats),
           local.pressed, local.target \in listener.landed \/ Done,
           UNCHANGED <<kind, stopping, held, active, chrome, listener>>
    PROVE  Inv'
  <1>1. /\ loop \in LoopRec /\ local \in LocalRec /\ listener \in ListenerRec
        /\ local.target \in OwnWidgets /\ heartbeats = {} /\ held \in BOOLEAN
        /\ ClicksOwnPage /\ listener.flag \subseteq listener.landed
        /\ pc # "over" /\ pc # "open" /\ delivered = {}
        /\ registered \in {"own", "none"}
    BY Silent, Types DEF Inv, OwnInv, MarkInv, Clicking
  <1>2. PICK result \in {"Aborted", "Clicked"} : Return(result) BY DEF Verified
  <1>3. /\ pc' = "over" /\ loop' = loop /\ local' = local /\ outcome' \in Outcomes
        /\ registered' \in {registered, "none"}
    BY <1>2, Returned DEF Outcomes
  <1>4. delivered' \in {{}, {"own"}} BY <1>1 DEF Verified, Mark
  <1>5. CreditIsEarned' BY <1>1, <1>3, <1>4 DEF CreditIsEarned, Done
  <1>6. ClicksOwnPage' /\ listener'.flag \subseteq listener'.landed BY <1>1 DEF ClicksOwnPage
  <1>7. /\ pc' \in Pcs /\ pc' \notin Clicking \cup {"checkbox", "open", "retry", "verify"}
        /\ {} \in SUBSET Attempts /\ {} \in SUBSET Sockets
        /\ delivered' \subseteq {"own", "next"}
    BY <1>3, <1>4 DEF Pcs, Clicking
  <1>8. Beats({}) BY <1>1
  <1> QED BY <1>1, <1>3, <1>5, <1>6, <1>7, <1>8, FiberMoves

LEMMA ReleasedStep == ASSUME Inv, Released PROVE Inv'
  <1>1. /\ pc = "releasing" /\ Scopes({}) /\ Beats(heartbeats) /\ ~held
        /\ UNCHANGED <<kind, stopping, held, active, chrome, listener>>
        /\ heartbeats = {} /\ pc \in Clicking
        /\ {} \in SUBSET Sockets /\ {} \in SUBSET Attempts
    BY Silent DEF Released, Inv, RegionInv, Clicking
  <1>2. CASE stopping
    <2>1. Return("Aborted") /\ Still /\ "Aborted" \in Outcomes
      BY <1>1, <1>2 DEF Released, Still, Outcomes
    <2> QED BY <1>1, <2>1, FiberReturns
  <1>3. CASE ~stopping
    <2>1. CASE local.pressed /\ Done /\ Verified BY <1>1, <1>3, <2>1, VerifiedStep
    <2>2. CASE local.pressed /\ Goto("verify") /\ UNCHANGED <<local, delivered>>
      <3>1. "verify" \in Clicking /\ local' \in LocalRec /\ Still
        BY <1>1, <2>2, Types DEF Clicking, Inv, Still
      <3> QED BY <1>1, <1>3, <2>2, <3>1, FiberClicks
    <2>3. CASE AttemptFails("ClickFailed") /\ UNCHANGED delivered
      <3>1. Still BY <1>1, <2>3 DEF Still
      <3> QED BY <1>1, <1>3, <2>3, <3>1, FiberFails
    <2> QED BY <1>3, <2>1, <2>2, <2>3 DEF Released
  <1> QED BY <1>2, <1>3

LEMMA VerifyStep == ASSUME Inv, Verify PROVE Inv'
  <1>1. /\ pc = "verify" /\ Scopes({}) /\ Beats(heartbeats)
        /\ UNCHANGED <<kind, stopping, held, active, chrome, listener>>
        /\ heartbeats = {} /\ pc \in Clicking /\ {} \in SUBSET Attempts
    BY Silent DEF Verify, Clicking
  <1>2. ~stopping /\ ~held BY <1>1, AtRest DEF Uninterruptible
  <1>3. local.pressed /\ listener.flag \subseteq listener.landed BY <1>1 DEF Inv, MarkInv
  <1>4. CASE local.target \in listener.flag /\ Verified BY <1>1, <1>2, <1>3, <1>4, VerifiedStep
  <1>5. CASE AttemptFails("NotVerified") /\ UNCHANGED delivered
    <2>1. Still BY <1>1, <1>5 DEF Still
    <2> QED BY <1>1, <1>2, <1>5, <2>1, FiberFails
  <1> QED BY <1>4, <1>5 DEF Verify

-----------------------------------------------------------------------------
(* What happens meanwhile.                                                 *)

LEMMA HeartbeatEndsStep == ASSUME Inv, HeartbeatEnds PROVE Inv'
  <1>1. /\ heartbeats # {} /\ heartbeats' \subseteq heartbeats
        /\ UNCHANGED <<pc, loop, local, outcome, registered, sockets>> /\ Still
    BY DEF HeartbeatEnds
  <1> USE DEF Still
  <1>2. TypeOK'
    <2>1. heartbeats' \subseteq Attempts BY <1>1, Types DEF Inv
    <2> QED BY <1>1, <2>1, Types, NextTypes DEF Inv
  <1>3. OwnInv' BY <1>1 DEF Inv, OwnInv, ClicksOwnPage
  <1>4. RegionInv' BY <1>1 DEF Inv, RegionInv
  <1>5. BeatInv' BY <1>1 DEF Inv, BeatInv, QuietClick, Done
  <1>6. MarkInv' BY <1>1 DEF Inv, MarkInv, CreditIsEarned, Done
  <1> QED BY <1>2, <1>3, <1>4, <1>5, <1>6 DEF Inv

LEMMA StopStep == ASSUME Inv, Stop, UNCHANGED active PROVE Inv'
  <1>1. /\ pc # "over" /\ ~stopping /\ stopping' = TRUE
        /\ UNCHANGED <<kind, held, delivered, chrome, listener, active>>
    BY DEF Stop
  <1>2. /\ kind \in {"turnstile", "interstitial"} /\ pc \in Pcs
        /\ loop \in LoopRec /\ local \in LocalRec /\ held \in BOOLEAN /\ outcome \in Outcomes
        /\ sockets \subseteq Sockets /\ heartbeats \subseteq Attempts /\ active \in ActiveRec
        /\ registered \in {"own", "next", "none"} /\ delivered \subseteq {"own", "next"}
        /\ chrome \in ChromeRec /\ listener \in ListenerRec /\ TypeOK
        /\ OwnInv /\ RegionInv /\ BeatInv /\ MarkInv
    BY Types DEF Inv
  <1>3. CASE pc \in Uninterruptible
    <2>1. UNCHANGED <<pc, loop, local, outcome, registered, sockets, heartbeats>>
      BY <1>3 DEF Stop
    <2>2. TypeOK' BY <1>1, <1>2, <2>1, NextTypes
    <2>3. OwnInv' BY <1>1, <1>2, <2>1 DEF OwnInv, ClicksOwnPage
    <2>4. RegionInv' BY <1>1, <1>2, <1>3, <2>1 DEF RegionInv
    <2>5. BeatInv' BY <1>1, <1>2, <2>1 DEF BeatInv, QuietClick, Done
    <2>6. MarkInv' BY <1>1, <1>2, <2>1 DEF MarkInv, CreditIsEarned, Done
    <2> QED BY <2>2, <2>3, <2>4, <2>5, <2>6 DEF Inv
  <1>4. CASE pc \notin Uninterruptible
    <2>1. Return("Aborted") /\ Scopes({}) /\ Beats({}) /\ "Aborted" \in Outcomes
      BY <1>4 DEF Stop, Outcomes
    <2>2. /\ pc' = "over" /\ loop' = loop /\ local' = local /\ outcome' \in Outcomes
          /\ registered' \in {registered, "none"}
      BY <2>1, Returned
    <2>3. heartbeats' = {} /\ sockets' = {} /\ pc' \in Pcs
      BY <2>1, <2>2 DEF Beats, Scopes, Pcs
    <2>4. TypeOK' BY <1>1, <1>2, <2>2, <2>3, NextTypes
    <2>5. OwnInv' BY <1>1, <1>2, <2>2 DEF OwnInv, ClicksOwnPage, Clicking
    <2>6. RegionInv' BY <1>1, <1>2, <1>4, <2>2 DEF RegionInv, Uninterruptible
    <2>7. BeatInv' BY <1>1, <1>2, <2>2, <2>3 DEF BeatInv, QuietClick
    <2>8. MarkInv' BY <1>1, <1>2, <2>2 DEF MarkInv, CreditIsEarned
    <2> QED BY <2>4, <2>5, <2>6, <2>7, <2>8 DEF Inv
  <1> QED BY <1>3, <1>4

\* What a step of the page, or of the detection, has to show.
LEMMA Meanwhile ==
    ASSUME Inv, pc # "over", FiberQuiet, delivered' = delivered,
           active' \in ActiveRec, active'.aborted => active'.latch,
           active.aborted \/ Done => active'.aborted \/ Done',
           registered' \in {"own", "next", "none"}, registered' = "next" => stopping,
           chrome' \in ChromeRec, listener' \in ListenerRec,
           ClicksOwnPage', listener'.flag \subseteq listener'.landed
    PROVE  Inv'
  <1>1. /\ kind \in {"turnstile", "interstitial"} /\ pc \in Pcs
        /\ loop \in LoopRec /\ local \in LocalRec /\ held \in BOOLEAN /\ outcome \in Outcomes
        /\ stopping \in BOOLEAN
        /\ sockets \subseteq Sockets /\ heartbeats \subseteq Attempts
        /\ delivered = {}
        /\ OwnInv /\ RegionInv /\ BeatInv /\ MarkInv
    BY Types DEF Inv, MarkInv
  <1>2. UNCHANGED <<kind, pc, loop, local, stopping, outcome, sockets, heartbeats, held>>
    BY DEF FiberQuiet
  <1>3. TypeOK' BY <1>1, <1>2, NextTypes
  <1>4. OwnInv' BY <1>1, <1>2 DEF OwnInv
  <1>5. RegionInv' BY <1>1, <1>2 DEF RegionInv
  <1>6. BeatInv' BY <1>1, <1>2 DEF BeatInv, QuietClick
  <1>7. MarkInv' BY <1>1, <1>2 DEF MarkInv, CreditIsEarned
  <1> QED BY <1>3, <1>4, <1>5, <1>6, <1>7 DEF Inv

LEMMA Quiet ==
    ASSUME Inv
    PROVE  /\ active \in ActiveRec /\ chrome \in ChromeRec /\ listener \in ListenerRec
           /\ registered \in {"own", "next", "none"} /\ (registered = "next" => stopping)
           /\ active.aborted => active.latch
           /\ ClicksOwnPage /\ listener.flag \subseteq listener.landed
  BY Types DEF Inv, OwnInv, BeatInv, MarkInv

LEMMA DetectionStep == ASSUME Inv, Settled \/ Aborted \/ Successor PROVE Inv'
  <1>1. /\ pc # "over" /\ FiberQuiet /\ UNCHANGED <<delivered, chrome, listener>>
    BY DEF Settled, Aborted, Successor
  <1>2. ClicksOwnPage' BY <1>1, Quiet DEF ClicksOwnPage
  <1>3. CASE Settled
    <2>1. PICK r \in {"solved", "failed"} : active' = [active EXCEPT !.resolution = r]
      BY <1>3 DEF Settled
    <2>2. /\ active' \in ActiveRec /\ active'.aborted = active.aborted
          /\ active'.latch = active.latch /\ active'.resolution # "pending"
      BY <2>1, Quiet DEF ActiveRec
    <2>3. registered' = registered /\ Done' BY <1>3, <2>2 DEF Settled, Done
    <2> QED BY <1>1, <1>2, <2>2, <2>3, Quiet, Meanwhile
  <1>4. CASE Aborted
    <2>1. PICK retried \in {FALSE, kind = "turnstile"},
               r \in {active.resolution} \cup (IF Done THEN {} ELSE {"solved", "failed"}) :
            active' = [aborted |-> ~retried, latch |-> TRUE, resolution |-> r]
      BY <1>4 DEF Aborted
    <2>2. /\ ~active.latch /\ registered' \in {"own", "none"} BY <1>4 DEF Aborted
    <2>3. active' \in ActiveRec /\ active'.latch
      BY <2>1, Quiet DEF ActiveRec
    <2>4. Done => Done' BY <2>1 DEF Done
    <2>5. ~active.aborted BY <2>2, Quiet
    <2> QED BY <1>1, <1>2, <2>2, <2>3, <2>4, <2>5, Quiet, Meanwhile
  <1>5. CASE Successor
    <2>1. /\ stopping /\ registered' = "next" /\ active' = active /\ (Done => Done')
      BY <1>5 DEF Successor, Done
    <2> QED BY <1>1, <1>2, <2>1, Quiet, Meanwhile
  <1> QED BY <1>3, <1>4, <1>5

LEMMA WidgetStep ==
    ASSUME Inv, NEW w \in OwnWidgets, WidgetShown(w) \/ WidgetGone(w)
    PROVE  Inv'
  <1>1. /\ pc # "over" /\ FiberQuiet /\ UNCHANGED <<active, registered, delivered>>
        /\ Done => Done'
    BY DEF WidgetShown, WidgetGone, Done
  <1>2. w \in Widgets BY DEF Widgets
  <1>3. chrome' \in ChromeRec
    BY <1>2, Quiet DEF WidgetShown, WidgetGone, ChromeRec
  <1>4. /\ listener' \in ListenerRec /\ listener'.landed = listener.landed
        /\ listener'.due \subseteq listener.due /\ listener'.flag \subseteq listener.flag
    BY Quiet DEF WidgetShown, WidgetGone, ListenerRec
  <1>5. ClicksOwnPage' /\ listener'.flag \subseteq listener'.landed
    BY <1>4, Quiet DEF ClicksOwnPage
  <1> QED BY <1>1, <1>3, <1>4, <1>5, Quiet, Meanwhile

LEMMA MouseDownStep == ASSUME Inv, NEW w \in Widgets, MouseDown(w) PROVE Inv'
  <1>1. /\ pc # "over" /\ FiberQuiet /\ UNCHANGED <<active, registered, delivered, chrome>>
        /\ (Done => Done') /\ w \in listener.due
    BY DEF MouseDown, Done
  <1>2. /\ listener' \in ListenerRec /\ listener'.landed = listener.landed \cup {w}
        /\ listener'.due \subseteq listener.due /\ listener'.flag \subseteq listener.flag \cup {w}
    BY Quiet DEF MouseDown, ListenerRec
  <1>3. ClicksOwnPage' /\ listener'.flag \subseteq listener'.landed
    BY <1>1, <1>2, Quiet DEF ClicksOwnPage
  <1> QED BY <1>1, <1>2, <1>3, Quiet, Meanwhile

-----------------------------------------------------------------------------
(* The theorems.                                                           *)

LEMMA InvInit == Init => Inv
  <1> SUFFICES ASSUME Init PROVE Inv
    OBVIOUS
  <1>1. MaxClickAttempts \in Nat \ {0, 1} /\ MaxNoCheckbox \in Nat /\ NoWidget \notin Widgets
    BY PipelineAssumption DEF PipelineAssumption
  <1>2. TypeOK
    <2>1. loop \in LoopRec BY <1>1 DEF Init, LoopRec
    <2>2. local \in LocalRec BY NothingTyped DEF Init
    <2>3. active \in ActiveRec BY DEF Init, ActiveRec
    <2>4. chrome \in ChromeRec BY DEF Init, ChromeRec
    <2>5. listener \in ListenerRec BY DEF Init, ListenerRec
    <2>6. "open" \in Pcs /\ "none" \in Outcomes BY DEF Pcs, Uninterruptible, Outcomes
    <2> QED BY <2>1, <2>2, <2>3, <2>4, <2>5, <2>6, Types DEF Init
  <1>3. OwnInv BY DEF Init, OwnInv, Clicking, ClicksOwnPage
  <1>4. RegionInv BY DEF Init, RegionInv
  <1>5. BeatInv BY DEF Init, BeatInv, QuietClick
  <1>6. MarkInv BY DEF Init, MarkInv, CreditIsEarned
  <1> QED BY <1>2, <1>3, <1>4, <1>5, <1>6 DEF Inv

LEMMA FiberStepKeeps == ASSUME Inv, FiberStep PROVE Inv'
  BY OpenStep, RetryStep, OpenCleanStep, SearchStep, ByFrameStep, ByParentStep, CheckboxStep,
     CoordsStep, PressStep, PressedStep, ReleaseStep, ReleasedStep, VerifyStep DEF FiberStep

LEMMA InvStep == ASSUME Inv, [Next]_vars PROVE Inv'
  <1>1. CASE FiberStep BY <1>1, FiberStepKeeps
  <1>2. CASE HeartbeatEnds BY <1>2, HeartbeatEndsStep
  <1>3. CASE RaceLost \/ Cancelled BY <1>3, StopStep DEF RaceLost, Cancelled
  <1>4. CASE Settled \/ Aborted \/ Successor BY <1>4, DetectionStep
  <1>5. ASSUME NEW w \in OwnWidgets, WidgetShown(w) \/ WidgetGone(w) PROVE Inv'
    BY <1>5, WidgetStep
  <1>6. ASSUME NEW w \in Widgets, MouseDown(w) PROVE Inv'
    BY <1>6, MouseDownStep
  <1>7. CASE UNCHANGED vars
    <2> USE <1>7 DEF vars
    <2>1. TypeOK' BY Types, NextTypes DEF Inv
    <2>2. OwnInv' /\ RegionInv' BY DEF Inv, OwnInv, ClicksOwnPage, RegionInv
    <2>3. BeatInv' BY DEF Inv, BeatInv, QuietClick, Done
    <2>4. MarkInv' BY DEF Inv, MarkInv, CreditIsEarned, Done
    <2> QED BY <2>1, <2>2, <2>3, <2>4 DEF Inv
  <1> QED BY <1>1, <1>2, <1>3, <1>4, <1>5, <1>6, <1>7 DEF Next, Over

LEMMA InvAlways == Spec => []Inv
  <1>1. Inv /\ [Next]_vars => Inv' BY InvStep
  <1> QED BY InvInit, <1>1, PTL DEF Spec

\* No press is sent to, or lands on, a widget of another tab.
THEOREM OwnPage == Spec => []ClicksOwnPage
  <1>1. Inv => ClicksOwnPage BY DEF Inv, OwnInv
  <1> QED BY InvAlways, <1>1, PTL

\* However the dispatch ends, the button is not left down, and the release has its socket.
THEOREM Unheld == Spec => []NoButtonHeld
  <1>1. Inv => NoButtonHeld BY DEF Inv, RegionInv, NoButtonHeld
  <1> QED BY InvAlways, <1>1, PTL

\* A detection is credited with a click only for one that its own dispatch made on its page.
THEOREM Credited == Spec => []CreditIsEarned
  <1>1. Inv => CreditIsEarned BY DEF Inv, MarkInv
  <1> QED BY InvAlways, <1>1, PTL

\* No heartbeat evaluates in the challenge while it is being clicked.
THEOREM Quietly == Spec => []QuietClick
  <1>1. Inv => QuietClick BY DEF Inv, BeatInv
  <1> QED BY InvAlways, <1>1, PTL
=============================================================================

--------------------------- MODULE ScrapeOutcome ---------------------------
(***************************************************************************)
(* How the result of one ahrefs scrape is classified: the typed error that *)
(* executeAhrefsScrape builds from what the page showed (ahrefs-service,   *)
(* ahrefs-cdp), whether a failure is the egress's (ahrefs-session) and     *)
(* whether it rotates the session token (block-detection).                 *)
(*                                                                         *)
(* An observation is what one attempt saw:                                 *)
(*   page    what the page's result object held; "none" when no result     *)
(*           came before the 90 s wall or the solver's terminal failure,   *)
(*           "noDocument" when the interception did not complete, and      *)
(*           "crash" when executeAhrefsScrape failed with another error    *)
(*   status  for "none" the page's __apiCallStatus; for "noDocument"       *)
(*           whether any request was paused                                *)
(*   events  the solver reported at least one event (cf_events > 0)        *)
(*   tunnel  a request failed with a proxy-layer error (proxyWatch)        *)
(***************************************************************************)

Pages == {"ok", "cfError", "captchaError", "otherError", "listCfError",
          "listError", "none", "noDocument", "rateLimited", "crash"}
Statuses == {"", "not_called", "pending", "page_destroyed", "requests", "no_requests"}

Observation == [page : Pages, status : Statuses, events : BOOLEAN, tunnel : BOOLEAN]

Err(tag, why) == [tag |-> tag, why |-> why]
NoError == Err("none", "")
EgressDead == Err("ProxyEgressDeadError", "")

(* parseResult and the in-band catches of executeAhrefsScrape: every error *)
(* but "crash" becomes a failed output; "crash" is turned into one by the  *)
(* catch around executeAhrefsScrape, as a ScrapeInfraError or the typed    *)
(* error it carries (CdpSessionError, FetchEnableError).                   *)
parseResult(o) ==
  CASE o.page = "ok"           -> NoError
    [] o.page = "none"         -> Err("TurnstileTimeoutError", o.status)
    [] o.page = "cfError"      -> Err("ApiError", "cfBlocked")
    [] o.page = "captchaError" -> Err("ApiError", "InvalidCaptcha")
    [] o.page = "otherError"   -> Err("ApiError", "")
    [] o.page = "listCfError"  -> Err("BacklinksFetchFailed", "isCf")
    [] o.page = "listError"    -> Err("BacklinksFetchFailed", "")
    [] o.page = "noDocument"   -> Err("InterceptionTimeoutError", o.status)
    [] o.page = "rateLimited"  -> Err("RateLimitedError", "")
    [] o.page = "crash"        -> Err("ScrapeInfraError", "")

(* The outcomes that a fresh egress address can be expected to cure. *)
isBlockTrigger(e) ==
  \/ e.tag = "ApiError" /\ e.why \in {"cfBlocked", "InvalidCaptcha"}
  \/ e.tag = "BacklinksFetchFailed" /\ e.why = "isCf"
  \/ e.tag = "TurnstileTimeoutError" /\ e.why = "pending"
  \/ e.tag \in {"RateLimitedError", "ProxyEgressDeadError"}

\* a faulty isObservedProxyDeath: the scrape's own outcome is not looked at
isObservedProxyDeathAny(o) == o.tunnel
isObservedProxyDeath(o) == o.page # "ok" /\ o.tunnel

isEgressDeathCandidate(o) ==
  /\ ~o.events
  /\ \/ o.page = "none" /\ o.status = "not_called"
     \/ o.page = "noDocument" /\ o.status = "no_requests"

=============================================================================

-------------------------- MODULE SessionServices --------------------------
(***************************************************************************)
(* What a session serves besides cookies: its request context              *)
(* (src/net/url_request_context_getter.cc), the proxy configuration        *)
(* (thrust_session_proxy_config_service.cc), the targets of downloads      *)
(* (src/browser/dialog/download_manager_delegate*.cc), and the conversion  *)
(* of cookies (thrust_session_binding.cc).  The whole specification of a   *)
(* session, and its properties.                                            *)
(***************************************************************************)
EXTENDS ThrustSession

CONSTANTS
  Rules,          \* proxy configurations
  MaxConfigs,     \* bound on the changes of the proxy configuration
  Downloads,
  Workloads,      \* what is asked of a session in one behaviour
  Word,           \* an int has the values -Word..Word - 1 (2^31)
  Times           \* internal values of base::Time

ASSUME ServicesAssumption ==
  /\ Rules # {} /\ "none" \notin Rules /\ MaxConfigs \in Nat
  /\ Workloads \subseteq SUBSET {"cookies", "proxy", "downloads"}
  /\ Word \in Nat \ {0} /\ Times \subseteq Nat

VARIABLES
  workload,
  context,        \* url_request_context_: "unmade", "made" or "gone"
  fixed,          \* the rules of fixed_service_, "none" without one
  system,         \* the configuration of the system
  used,           \* what ProxyService, the observer, was told last
  setting,        \* the notification SetProxyRules or ClearProxyRules is
                  \*   about to send, "none" outside of them
  overtaken,      \* the system changed under rules, or under a clear
  configs,        \* changes so far
  target,         \* how far each download is
  inProgress,     \* the downloads that were not cancelled
  pages           \* the downloads whose page is still there

proxyVars == <<fixed, system, used, setting, overtaken, configs>>
downloadVars == <<target, inProgress, pages>>
servicesVars == <<workload, context, proxyVars, downloadVars>>
vars == <<sessionVars, servicesVars>>

Init ==
  /\ SessionInit
  /\ workload \in Workloads /\ context = "unmade"
  /\ fixed = "none" /\ system \in Rules /\ used = "none"
  /\ setting = "none" /\ overtaken = FALSE /\ configs = 0
  /\ target = [d \in Downloads |-> "none"]
  /\ inProgress = Downloads /\ pages = Downloads
-----------------------------------------------------------------------------
(***************************************************************************)
(* The request context, on the IO thread.                                  *)
(***************************************************************************)
OnIO == crashed = "no" /\ ~returning

GetLatestProxyConfig == IF fixed # "none" THEN fixed ELSE system

(* GetURLRequestContext, by whoever holds the getter.  ProxyService is     *)
(* created with the service, observes it and asks for the configuration.   *)
GetURLRequestContext ==
  /\ OnIO /\ getter # "gone" /\ context = "unmade"
  /\ IF session = "gone"
     THEN crashed' = "context" /\ UNCHANGED <<context, used>>
     ELSE context' = "made" /\ used' = GetLatestProxyConfig
          /\ UNCHANGED crashed
  /\ UNCHANGED <<cookieVars, lifeVars, workload, fixed, system, setting,
                 overtaken, configs, downloadVars>>

(* ExoResourceContext::GetHostResolver. *)
GetHostResolver ==
  /\ OnIO /\ resource
  /\ crashed' = IF getter = "gone" THEN "getter"
                ELSE IF context = "unmade" THEN "resolver" ELSE crashed
  /\ UNCHANGED <<cookieVars, lifeVars, servicesVars>>

(* ~ThrustSessionProxyConfigService writes into its parent_. *)
DestroyContext ==
  /\ getter' = "gone" /\ context' = "gone"
  /\ crashed' = IF context = "made" THEN "service" ELSE crashed

(* The getter goes by a task, or when its last other holder lets go.       *)
DeleteGetter ==
  /\ \/ NextTask({"~getter"})
     \/ OnIO /\ getter = "others" /\ UNCHANGED toIO
  /\ DestroyContext
  /\ UNCHANGED <<opCount, toUI, returning, invokes, request, clientVars, type,
                 session, registered, resource, workload, proxyVars,
                 downloadVars>>
-----------------------------------------------------------------------------
(***************************************************************************)
(* The proxy configuration.  SetProxyRules and ClearProxyRules run on the  *)
(* UI thread and replace fixed_service_ before they tell the observers;    *)
(* the IO thread may run in between.                                       *)
(***************************************************************************)
SetProxyRules ==
  /\ crashed = "no" /\ session = "alive" /\ registered /\ setting = "none"
  /\ configs < MaxConfigs /\ configs' = configs + 1
  /\ \E rules \in Rules : fixed' = rules /\ setting' = rules
  /\ UNCHANGED <<sessionVars, workload, context, system, used, overtaken,
                 downloadVars>>

ClearProxyRules ==
  /\ crashed = "no" /\ session = "alive" /\ registered /\ setting = "none"
  /\ configs < MaxConfigs /\ configs' = configs + 1
  /\ fixed' = "none" /\ setting' = system /\ overtaken' = FALSE
  /\ UNCHANGED <<sessionVars, workload, context, system, used, downloadVars>>

NotifyObservers_Nobody ==
  /\ crashed = "no" /\ setting # "none" /\ setting' = "none"
  /\ overtaken' = (overtaken /\ fixed = "none")
  /\ UNCHANGED <<sessionVars, workload, context, fixed, system, used, configs,
                 downloadVars>>

NotifyObservers ==
  /\ crashed = "no" /\ setting # "none" /\ setting' = "none"
  /\ used' = IF context = "made" THEN setting ELSE used
  /\ overtaken' = (overtaken /\ fixed = "none")
  /\ UNCHANGED <<sessionVars, workload, context, fixed, system, configs,
                 downloadVars>>

(* The observers are registered with the system's service too. *)
SystemChanges ==
  /\ OnIO /\ configs < MaxConfigs /\ configs' = configs + 1
  /\ system' \in Rules \ {system}
  /\ used' = IF context = "made" THEN system' ELSE used
  /\ overtaken' = (overtaken \/ fixed # "none" \/ setting # "none")
  /\ UNCHANGED <<sessionVars, workload, context, fixed, setting, downloadVars>>
-----------------------------------------------------------------------------
(***************************************************************************)
(* Downloads.  The delegate lives as long as its session.                  *)
(***************************************************************************)
Moves(d, from, to) ==
  /\ crashed = "no" /\ target[d] = from
  /\ target' = [target EXCEPT ![d] = to]

DetermineDownloadTarget(d) ==
  /\ session = "alive"
  /\ \E forced \in BOOLEAN :
       Moves(d, "none", IF forced THEN "chosen" ELSE "FILE")
  /\ UNCHANGED <<sessionVars, workload, context, proxyVars, inProgress, pages>>

(* On the FILE thread. *)
GenerateFilename(d) ==
  /\ Moves(d, "FILE", "UI")
  /\ UNCHANGED <<sessionVars, workload, context, proxyVars, inProgress, pages>>

(* A weak pointer; ChooseDownloadPath gives up a download that ended, and  *)
(* asks the page of the others for its window.                             *)
OnDownloadPathGenerated(d) ==
  /\ session # "dying" /\ crashed = "no" /\ target[d] = "UI"
  /\ IF session = "alive" /\ d \in inProgress /\ d \notin pages
     THEN crashed' = "page" /\ UNCHANGED target
     ELSE /\ Moves(d, "UI", IF session = "gone" \/ d \notin inProgress
                            THEN "dropped" ELSE "dialog")
          /\ UNCHANGED crashed
  /\ UNCHANGED <<cookieVars, lifeVars, workload, context, proxyVars,
                 inProgress, pages>>

(* The save dialog runs a loop of its own and then the callback. *)
DialogReturns(d) ==
  /\ Moves(d, "dialog", "chosen")
  /\ UNCHANGED <<sessionVars, workload, context, proxyVars, inProgress, pages>>

DownloadEnds(d) ==
  /\ crashed = "no" /\ d \in inProgress
  /\ inProgress' = inProgress \ {d}
  /\ UNCHANGED <<sessionVars, workload, context, proxyVars, target, pages>>

PageCloses(d) ==
  /\ crashed = "no" /\ d \in pages /\ pages' = pages \ {d}
  /\ UNCHANGED <<sessionVars, workload, context, proxyVars, target, inProgress>>
-----------------------------------------------------------------------------
(***************************************************************************)
(* The conversion of a cookie to a dictionary and back, as the client      *)
(* returns it: its numbers and flags (the strings pass unchanged).         *)
(***************************************************************************)
CanonicalCookies ==
  [creation : Times, expiry : Times, last_access : Times,
   secure : BOOLEAN, http_only : BOOLEAN, priority : 0..2]

Narrow_Unchecked(time) == time

Narrow(time) == ((time + Word) % (2 * Word)) - Word

Integer(n) == [type |-> "integer", integer |-> n, boolean |-> FALSE]
Boolean(b) == [type |-> "boolean", integer |-> 0, boolean |-> b]

ValueFromCanonicalCookie(cc) ==
  [creation |-> Integer(Narrow(cc.creation)),
   expiry |-> Integer(Narrow(cc.expiry)),
   last_access |-> Integer(Narrow(cc.last_access)),
   secure |-> Integer(IF cc.secure THEN 1 ELSE 0),
   http_only |-> Boolean(cc.http_only),
   prority |-> Integer(cc.priority)]

GetInteger(value, key) ==
  IF key \in DOMAIN value /\ value[key].type = "integer"
  THEN value[key].integer ELSE 0

GetBoolean(value, key) ==
  key \in DOMAIN value /\ value[key].type = "boolean" /\ value[key].boolean

CanonicalCookieFromValue(value) ==
  [creation |-> GetInteger(value, "creation"),
   expiry |-> GetInteger(value, "expiry"),
   last_access |-> GetInteger(value, "last_access"),
   secure |-> GetBoolean(value, "secure"),
   http_only |-> GetBoolean(value, "http_only"),
   priority |-> GetInteger(value, "priority")]
-----------------------------------------------------------------------------
UILoop ==
  /\ setting = "none"
  /\ UIThread \/ DestroySession
  /\ UNCHANGED servicesVars

(* A session destroyed on the IO thread takes its context along while its  *)
(* own members are still there.                                            *)
IOReturns ==
  /\ SendInvokeReturns
  /\ context' = IF getter' = "gone" THEN "gone" ELSE context
  /\ UNCHANGED <<workload, proxyVars, downloadVars>>

IOLoop ==
  \/ (Writes \/ RunsOnIO \/ DeleteResourceContext) /\ UNCHANGED servicesVars
  \/ IOReturns
  \/ DeleteGetter

Cookies == "cookies" \in workload /\ CookieNext /\ UNCHANGED servicesVars

Proxy ==
  /\ "proxy" \in workload
  /\ \/ SetProxyRules \/ ClearProxyRules \/ SystemChanges \/ GetHostResolver
     \/ GetURLRequestContext

DownloadProceeds(d) ==
  GenerateFilename(d) \/ OnDownloadPathGenerated(d) \/ DialogReturns(d)

Download(d) ==
  /\ "downloads" \in workload
  /\ \/ DetermineDownloadTarget(d) \/ DownloadProceeds(d)
     \/ DownloadEnds(d) \/ PageCloses(d)

Next ==
  \/ UILoop \/ IOLoop \/ NotifyObservers
  \/ Cookies \/ Proxy
  \/ \E d \in Downloads : Download(d)
  \/ ClientDeletes /\ UNCHANGED servicesVars

Spec == Init /\ [][Next]_vars

(* The loops of the threads run what they have, the client reads, and      *)
(* answers what it is asked, and a dialog is closed in the end.            *)
Fairness ==
  /\ WF_vars(UILoop) /\ WF_vars(IOLoop) /\ WF_vars(NotifyObservers)
  /\ WF_vars(ClientReads /\ UNCHANGED servicesVars)
  /\ \A r \in Requests : WF_vars(ClientAnswers(r) /\ UNCHANGED servicesVars)
  /\ \A d \in Downloads : WF_vars(DownloadProceeds(d))

FairSpec == Spec /\ Fairness
-----------------------------------------------------------------------------
(***************************************************************************)
(* Properties.                                                             *)
(***************************************************************************)
TypeOK ==
  /\ session \in {"alive", "dying", "gone"} /\ registered \in BOOLEAN
  /\ getter \in {"session", "released", "others", "gone"}
  /\ crashed \in {"no", "binding", "context", "getter", "resolver", "service",
                  "page"}
  /\ invokes \subseteq Requests /\ asked \subseteq invokes
  /\ \A r \in Requests : request[r].ran \in 0..1
  /\ context \in {"unmade", "made", "gone"}
  /\ fixed \in Rules \union {"none"} /\ used \in Rules \union {"none"}
  /\ registered => session = "alive"

(* The changes among some tasks are from..to - 1, in that order. *)
Run(tasks, from, to) ==
  LET Are == {i \in DOMAIN tasks : tasks[i].kind \in {"emit", "event"}}
  IN  /\ from <= to
      /\ {tasks[i].change : i \in Are} = from..to - 1
      /\ \A i, j \in Are : i < j => tasks[i].change < tasks[j].change

(* The changes of cookies reach the client in the order in which the       *)
(* network stack made them, and all of them as long as the session is      *)
(* registered: what it applied, what it was sent and what the two threads  *)
(* have queued are the operations 0, 1, 2... without a gap.                *)
ChangesInOrder ==
  /\ \A i \in DOMAIN seen : seen[i] = i - 1
  /\ \E sent, queued \in 0..opCount :
       /\ Run(written, Len(seen), sent)
       /\ Run(toIO, sent, queued)
       /\ registered => Run(toUI, queued, opCount)

(* The network stack reads its own writes: what the client answers a load  *)
(* includes every change reported before it, and a flush that completes    *)
(* was answered by a client that had applied them.  (An error is not told  *)
(* apart from an empty store: CookiesLoadCallback ignores it.)             *)
ReadsOwnWrites ==
  \A r \in Requests :
    (type = "client" /\ request[r].ran > 0 /\ request[r].ok) =>
      request[r].answer >= request[r].before

(* Every load is answered, that of a dummy store with no cookies, unless   *)
(* the session is deleted; a flush unless the client reports an error.     *)
RequestsAnswered ==
  \A r \in Requests :
    (request[r].kind # "none") ~>
      (\/ request[r].ran = 1
       \/ request[r].kind = "flush" /\ ~request[r].ok
       \/ ~registered /\ type = "client"
       \/ crashed # "no")

(* ProxyService uses what GetLatestProxyConfig says, once the call that    *)
(* changes the rules is over: neither a context made meanwhile nor an      *)
(* order of calls makes it miss a change.  The exception is a change of    *)
(* the system's configuration while rules are set or being cleared.        *)
ProxyFollowsRules ==
  (context = "made" /\ setting = "none" /\ ~overtaken) =>
    used = GetLatestProxyConfig

(* The getter that ~ThrustSession releases on the UI thread outlives the   *)
(* resource context, which points to it: their deletions are in order.     *)
ResourceContextGoesFirst ==
  [][(getter = "released" /\ getter' = "gone") => ~resource']_vars

(* Every download gets its target through the three threads, unless it is  *)
(* cancelled or its session deleted; until then it holds its bytes back.   *)
DownloadsTargeted ==
  \A d \in Downloads :
    (target[d] = "FILE") ~>
      (\/ target[d] = "chosen" \/ d \notin inProgress
       \/ session # "alive" \/ crashed # "no")

(* A cookie comes back as it was exactly when its times fit an int, it is  *)
(* not secure and its priority is the lowest; whatever the cookie, what    *)
(* comes back is stored and returned unchanged from then on.               *)
CookiesReturn ==
  \A cc \in CanonicalCookies :
    LET once == CanonicalCookieFromValue(ValueFromCanonicalCookie(cc))
    IN  /\ CanonicalCookieFromValue(ValueFromCanonicalCookie(once)) = once
        /\ \/ once = cc /\ ~cc.secure /\ cc.priority = 0
              /\ {cc.creation, cc.expiry, cc.last_access} \subseteq 0..Word-1
           \/ once # cc
              /\ \/ cc.secure \/ cc.priority # 0
                 \/ \E t \in {cc.creation, cc.expiry, cc.last_access} : t >= Word

(* The cookies of a session whose store is the client: what is lost on the *)
(* first way there and back is all that is ever lost, so that nothing      *)
(* drifts with each restart.                                               *)
CookiesSurvive == type = "client" => CookiesReturn

(* What the comment in ~ThrustSessionProxyConfigService is for: nobody     *)
(* accesses what was reclaimed.                                            *)
NoErroneousAccess == crashed # "service"

(* The client is a faithful store of cookies: it misses no change, sees    *)
(* them in order, and answers with them.                                   *)
CookiesInOrder == TypeOK /\ ChangesInOrder /\ ReadsOwnWrites

(* What the network stack and the downloads ask of a session is served,    *)
(* and its end takes nothing from under those still served.                *)
RequestsServed == RequestsAnswered /\ DownloadsTargeted /\ ResourceContextGoesFirst
=============================================================================

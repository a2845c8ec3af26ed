------------------------------ MODULE Sessions ------------------------------
(***************************************************************************)
(* A browser with its tabs, its stored token and its requests; the API,    *)
(* which signs tokens and asks the permission service before it serves a   *)
(* request, with the circuit breaker in front of that service; and the     *)
(* worker, which asks once more before it answers a query.                 *)
(***************************************************************************)
EXTENDS Naturals, FiniteSets

CONSTANTS
    Tabs,       \* tabs of one browser, with one localStorage
    Askers,     \* bound: those that do all of it; the others sign on and out
    MaxCalls,   \* bound: requests in progress that are not for the token of a tab
    Reqs,       \* numbers for requests in progress; the lowest that is free is taken
    None,       \* no token, no tab
    Tenants,
    DevTenants, \* those that /refresh signs for unasked: tenant-dev, and none in production
    Threshold,  \* failures in a row that open the breaker; 10 in the code
    MaxFailures,\* bound: the breaker counts on, to no effect
    MaxTime,    \* bound: lifetimes of tokens
    MaxEvents   \* bound: changes of grants, and failures

ASSUME SessionsAssumption ==
    /\ None \notin Tabs /\ Askers \subseteq Tabs /\ Tenants # {} /\ Reqs \subseteq Nat
    /\ DevTenants \subseteq Tenants /\ MaxTime \in Nat /\ {MaxEvents, MaxCalls} \subseteq Nat
    /\ Threshold \in Nat \ {0} /\ MaxFailures \in Nat /\ Threshold <= MaxFailures

VARIABLES
    now,        \* lifetimes of tokens that have passed
    storage,    \* the access_token in localStorage
    tabs,       \* the token of each tab's store; without one it shows the login page
    leaving,    \* tabs told to go to another page, which are still there
    req,        \* requests, from the click to the answer
    service,    \* the permission service: whether it answers, and its answers
    breaker,    \* the breaker of mint_ctx_token: failures in a row, and whether the
                \*   recovery time is over
    events,     \* number of events so far
    seen,       \* history: what was true at some moment of each request,
    overtaken   \*   tabs whose session another tab has replaced or ended

vars == <<now, storage, tabs, leaving, req, service, breaker, events, seen, overtaken>>
browser == <<storage, tabs, leaving>>

Idle == [kind |-> "none", pc |-> "idle", tab |-> None, token |-> None, tenant |-> None]

Init ==
    /\ now = 0 /\ storage = None /\ tabs = [t \in Tabs |-> None] /\ leaving = {}
    /\ req = [r \in Reqs |-> Idle]
    /\ service = [up |-> TRUE, banned |-> FALSE, tenants |-> Tenants]
    /\ breaker = [failures |-> 0, elapsed |-> FALSE] /\ events = 0
    /\ seen = [r \in Reqs |-> {}] /\ overtaken = {}

\* A token has its tenant and its time; two of one tenant and second are the same.
Sign(tenant) == [tenant |-> tenant, at |-> now]

Live(k) == k # None /\ k.at = now

Event == events < MaxEvents /\ events' = events + 1

Begin(r, request) ==
    /\ req[r].pc = "idle" /\ \A q \in Reqs : q < r => req[q].pc # "idle"
    /\ req' = [req EXCEPT ![r] = request]

Goto(r, pc) == req' = [req EXCEPT ![r].pc = pc]
\* A refusal carries nothing back.
Reject(r, pc) == req' = [req EXCEPT ![r].pc = pc, ![r].token = None, ![r].tenant = None]
Refuse(r) == Reject(r, "refused")
Grant(r) == Goto(r, "done")

Logins == {"login", "sso", "switch"}
Calls == {"call", "manage", "own", "query", "refresh"}
RoomForCalls == Cardinality({q \in Reqs : req[q].kind \in Calls}) < MaxCalls

Answered == {"done", "refused", "unauthenticated"}

\* Requests of a page that is gone have nobody to be answered to, and those for a token
\* leave nothing behind.
Left(rs, t) ==
    [r \in Reqs |-> IF rs[r].tab # t THEN rs[r]
                    ELSE IF rs[r].pc \in Answered \/ rs[r].kind \in Logins THEN Idle
                    ELSE [rs[r] EXCEPT !.tab = None]]

-----------------------------------------------------------------------------
(* The user.  A tab on its way to another page asks for no new token. *)

\* A request carries the token of the storage, which is not always that of the tab.  What it
\* asks for makes no difference before it is authenticated.
Ask(t, r) ==
    /\ t \in Askers /\ tabs[t] # None
    /\ RoomForCalls
    /\ Begin(r, [Idle EXCEPT !.kind = "call", !.pc = "authenticate", !.tab = t, !.token = storage])
    /\ UNCHANGED <<now, browser, service, breaker, events>>

\* The login page waits for one answer.
LoggingIn(t) == \E r \in Reqs : req[r].tab = t /\ req[r].kind \in {"login", "sso"}

\* The identity provider has accepted the password; a refusal changes nothing.
LogIn(t, r) ==
    /\ t \in Askers /\ t \notin leaving /\ tabs[t] = None /\ ~LoggingIn(t)
    /\ \E tenant \in Tenants :
        Begin(r, [Idle EXCEPT !.kind = "login", !.pc = "member", !.tab = t, !.tenant = tenant])
    /\ UNCHANGED <<now, browser, service, breaker, events>>

\* Single sign-on: the tenant is the one that the identity provider says.
SignOn(t, r) ==
    /\ t \notin leaving /\ tabs[t] = None /\ ~LoggingIn(t)
    /\ \E tenant \in Tenants :
        Begin(r, [Idle EXCEPT !.kind = "sso", !.pc = "done", !.tab = t, !.token = Sign(tenant)])
    /\ UNCHANGED <<now, browser, service, breaker, events>>

\* Switching without a password: the token of the tab must be valid.
SwitchTenant(t, r) ==
    /\ t \in Askers /\ t \notin leaving /\ Live(tabs[t])
    /\ \E tenant \in Tenants \ {tabs[t].tenant} :
        Begin(r, [Idle EXCEPT !.kind = "switch", !.pc = "member", !.tab = t, !.tenant = tenant])
    /\ UNCHANGED <<now, browser, service, breaker, events>>

\* Outside production, /refresh signs for a developer whoever asks; no page does.
Refresh(r) ==
    /\ RoomForCalls
    /\ \E tenant \in DevTenants :
        Begin(r, [Idle EXCEPT !.kind = "refresh", !.pc = "done", !.token = Sign(tenant)])
    /\ UNCHANGED <<now, browser, service, breaker, events>>

\* By the user, or by the timer: the token has expired, or an hour has passed without a
\* click or a key.  The page is told to go to that of the identity provider.
Logout(t) ==
    /\ tabs[t] # None
    /\ storage' = None /\ tabs' = [tabs EXCEPT ![t] = None] /\ leaving' = leaving \cup {t}
    /\ UNCHANGED <<now, req, service, breaker, events>>

\* A page is loaded: the tab is opened or loaded again, or goes where it was told to.  It
\* takes the token of the storage.
Load(t) ==
    /\ tabs' = [tabs EXCEPT ![t] = IF Live(storage) THEN storage ELSE None]
    /\ leaving' = leaving \ {t} /\ req' = Left(req, t)
    /\ UNCHANGED <<now, storage, service, breaker, events>>

\* The start page and the choice of a tenant, reached without a load, take it, too; without
\* one the store keeps its own.
Hydrate(t) ==
    /\ tabs[t] # None /\ Live(storage)
    /\ tabs' = [tabs EXCEPT ![t] = storage]
    /\ UNCHANGED <<now, storage, leaving, req, service, breaker, events>>

-----------------------------------------------------------------------------
(* The API *)

\* The user is banned, or the permission service does not say that it is not so.
Suspended == ~service.up \/ service.banned

\* To a change that needs a permission, to one of conversations or directories, which needs
\* none, or to a query.
Admit(r) ==
    \/ req' = [req EXCEPT ![r].kind = "manage", ![r].pc = "check"]
    \/ req' = [req EXCEPT ![r].kind = "own", ![r].pc = "done"]
    \/ req' = [req EXCEPT ![r].kind = "query", ![r].pc = "mint"]

\* Mutation: a permission service that does not answer is passed over.
AuthenticateOpen(r) ==
    /\ req[r].pc = "authenticate"
    /\ IF ~Live(req[r].token) THEN Reject(r, "unauthenticated")
       ELSE IF service.up /\ service.banned THEN Refuse(r)
       ELSE Admit(r)
    /\ UNCHANGED <<now, browser, service, breaker, events>>

\* The middleware: signature and expiry, and then whether the user is banned; both in one
\* stretch of the event loop.
Authenticate(r) ==
    /\ req[r].pc = "authenticate"
    /\ IF ~Live(req[r].token) THEN Reject(r, "unauthenticated")
       ELSE IF Suspended THEN Refuse(r)
       ELSE Admit(r)
    /\ UNCHANGED <<now, browser, service, breaker, events>>

\* No answer of the service is a refusal, which the breaker does not count: the client
\* catches the exception itself.
CheckPermission(r) ==
    /\ req[r].pc = "check"
    /\ IF service.up /\ req[r].token.tenant \in service.tenants THEN Grant(r) ELSE Refuse(r)
    /\ UNCHANGED <<now, browser, service, breaker, events>>

\* Mutation: the breaker stays open.
BreakerOpenForGood == breaker.failures >= Threshold

BreakerOpen == breaker.failures >= Threshold /\ ~breaker.elapsed

\* A failure counts, and opens the breaker again when it is tried out.
CountFailure ==
    breaker' = [failures |-> IF breaker.failures < MaxFailures THEN breaker.failures + 1
                             ELSE MaxFailures,
                elapsed |-> FALSE]

\* A success closes the breaker.  What a service that answers makes of a credential that has
\* expired, or of a banned user, is its own affair: a rejection counts as a failure.
MintCtxToken(r) ==
    /\ req[r].pc = "mint"
    /\ \/ BreakerOpen /\ Refuse(r) /\ UNCHANGED breaker
       \/ /\ ~BreakerOpen /\ service.up
          /\ Goto(r, "queued") /\ breaker' = [failures |-> 0, elapsed |-> FALSE]
       \/ /\ ~BreakerOpen /\ (Suspended \/ ~Live(req[r].token))
          /\ Refuse(r) /\ CountFailure
    /\ UNCHANGED <<now, browser, service, events>>

\* The recovery time of the breaker.
Elapse ==
    /\ BreakerOpen
    /\ breaker' = [breaker EXCEPT !.elapsed = TRUE]
    /\ UNCHANGED <<now, browser, req, service, events>>

\* The worker: the credential in the ctx_token may have expired by now; a banned user, or a
\* service that does not answer, gives no documents.
Retrieve(r) ==
    /\ req[r].pc = "queued"
    /\ IF Live(req[r].token) /\ ~Suspended THEN Grant(r) ELSE Refuse(r)
    /\ UNCHANGED <<now, browser, service, breaker, events>>

\* The ctx_token, which lasts ten minutes, expires in the queue.
ExpireInQueue(r) ==
    /\ req[r].pc = "queued" /\ Event /\ Refuse(r)
    /\ UNCHANGED <<now, browser, service, breaker>>

\* The user must be a member of the tenant if the permission service answers.
CheckMember(r) ==
    /\ req[r].pc = "member"
    /\ IF ~service.up \/ req[r].tenant \in service.tenants
       THEN req' = [req EXCEPT ![r].pc = "done", ![r].token = Sign(req[r].tenant)]
       ELSE Refuse(r)
    /\ UNCHANGED <<now, browser, service, breaker, events>>

-----------------------------------------------------------------------------
(* Answers *)

\* An answer, of which nothing is left.
Over(r) == req' = [req EXCEPT ![r] = Idle]

\* Mutation: an expired session does not take the user to the login page.
ReceiveInPlace(r) ==
    /\ req[r].pc \in Answered /\ Over(r)
    /\ CASE req[r].tab # None /\ req[r].pc = "done" /\ req[r].kind \in Logins ->
                /\ storage' = req[r].token /\ tabs' = [tabs EXCEPT ![req[r].tab] = req[r].token]
                /\ UNCHANGED leaving
         [] req[r].tab # None /\ req[r].pc = "unauthenticated" ->
                storage' = None /\ UNCHANGED <<tabs, leaving>>
         [] OTHER -> UNCHANGED browser
    /\ UNCHANGED <<now, service, breaker, events>>

\* A new token is stored; after a switch the page is told to go to the start.  A 401 removes
\* whatever token is stored, and if there was one the page is told to go to the login.  Until
\* it does, the store keeps its token and other answers arrive.
Receive(r) ==
    /\ req[r].pc \in Answered /\ Over(r)
    /\ CASE req[r].tab # None /\ req[r].pc = "done" /\ req[r].kind \in Logins ->
                /\ storage' = req[r].token /\ tabs' = [tabs EXCEPT ![req[r].tab] = req[r].token]
                /\ leaving' = IF req[r].kind = "switch" THEN leaving \cup {req[r].tab}
                              ELSE leaving
         [] req[r].tab # None /\ req[r].pc = "unauthenticated" /\ storage # None ->
                storage' = None /\ leaving' = leaving \cup {req[r].tab} /\ UNCHANGED tabs
         [] OTHER -> UNCHANGED browser
    /\ UNCHANGED <<now, service, breaker, events>>

-----------------------------------------------------------------------------
(* Events *)

\* The tokens signed so far expire.
Expire ==
    /\ now < MaxTime /\ now' = now + 1
    /\ UNCHANGED <<browser, req, service, breaker, events>>

Toggle(set, a) == IF a \in set THEN set \ {a} ELSE set \cup {a}

\* Grants and bans are made and withdrawn, and the permission service stops answering.
ChangeService ==
    /\ Event
    /\ \/ service.up /\ service' = [service EXCEPT !.up = FALSE]
       \/ service' = [service EXCEPT !.banned = ~@]
       \/ \E a \in Tenants : service' = [service EXCEPT !.tenants = Toggle(@, a)]
    /\ UNCHANGED <<now, browser, req, breaker>>

ComeBack ==
    /\ ~service.up /\ service' = [service EXCEPT !.up = TRUE]
    /\ UNCHANGED <<now, browser, req, breaker, events>>

-----------------------------------------------------------------------------

\* What is true for a request at a moment, of what matters to its kind.
Facts(r) ==
    {f \in CASE req[r].pc \in {"refused", "unauthenticated"} -> {}
             [] req[r].kind \in {"call", "query", "own"} -> {"clear"}
             [] req[r].kind = "manage" -> {"clear", "granted"}
             [] req[r].kind \in {"login", "switch"} -> {"member"}
             [] OTHER -> {} :
        CASE f = "clear" -> Live(req[r].token) /\ service.up /\ ~service.banned
          [] f = "granted" ->
                /\ req[r].token # None /\ service.up
                /\ req[r].token.tenant \in service.tenants
          [] f = "member" -> ~service.up \/ req[r].tenant \in service.tenants}

\* The history of a step of some tab; what a query has seen is forgotten in the queue.
Observe(t) ==
    /\ seen' = [r \in Reqs |->
            Facts(r)' \cup
            IF \/ req'[r].pc \in {"idle", "refused", "unauthenticated"}
               \/ req[r].pc = "mint" /\ req'[r].pc = "queued"
            THEN {} ELSE seen[r]]
    /\ overtaken' = {u \in Tabs :
            /\ tabs'[u] # None
            /\ \/ u \in overtaken /\ storage' # tabs'[u]
               \/ u # t /\ storage' # storage}

Use(t) ==
    \/ \E r \in Reqs :
        Ask(t, r) \/ LogIn(t, r) \/ SignOn(t, r) \/ SwitchTenant(t, r)
    \/ Logout(t) \/ Load(t) \/ Hydrate(t)

Serve(r) ==
    \/ Authenticate(r) \/ CheckPermission(r) \/ MintCtxToken(r) \/ Retrieve(r)
    \/ CheckMember(r) \/ Receive(r)

Next ==
    \/ \E t \in Tabs : Use(t) /\ Observe(t)
    \/ \E r \in Reqs : (Serve(r) \/ ExpireInQueue(r)) /\ Observe(req[r].tab)
    \/ \E r \in Reqs : Refresh(r) /\ Observe(None)
    \/ (Expire \/ ChangeService \/ ComeBack \/ Elapse) /\ Observe(None)

\* Requests are worked off, and the breaker's timer fires.
Fairness ==
    /\ \A r \in Reqs : WF_vars(Serve(r) /\ Observe(req[r].tab))
    /\ WF_vars(Elapse /\ Observe(None))

Spec == Init /\ [][Next]_vars /\ Fairness

-----------------------------------------------------------------------------
(* Properties *)

\* A request goes on only if at some moment since it was sent its token was valid, the user
\* not banned and the permission service there to say so; a change that needs a permission is
\* made only if it was granted at some moment; a query is answered only if the first holds
\* again at some moment after it was queued; and a token is signed for a tenant only if the
\* user was a member at some moment, or the service silent, or the identity provider named
\* the tenant, or it is a developer's.
AnswersWereEarned ==
    \A r \in Reqs :
        /\ req[r].pc \in {"mint", "check"} => "clear" \in seen[r]
        /\ req[r].pc = "done" =>
            CASE req[r].kind = "manage" -> {"clear", "granted"} \subseteq seen[r]
              [] req[r].kind \in {"query", "own"} -> "clear" \in seen[r]
              [] req[r].kind \in {"login", "switch"} -> "member" \in seen[r]
              [] req[r].kind = "refresh" -> req[r].token.tenant \in DevTenants
              [] OTHER -> TRUE

\* What a tab shows, and the tenant that its requests go to, belong to one session, however
\* late answers arrive, unless another tab has replaced or ended that session, or the tab is
\* on its way to another page.
TabShowsStored ==
    \A t \in Tabs :
        tabs[t] # None /\ t \notin leaving \cup overtaken => storage = tabs[t]

\* Once the permission service answers for good and the user is not banned, queries are
\* answered again and again if the user keeps asking them with a valid token, whatever has
\* failed, expired or opened the breaker before.
ServedAgain ==
    LET Query(pc) == \E r \in Reqs : req[r].kind = "query" /\ req[r].pc = pc /\ Live(req[r].token)
    IN  <>[](service.up /\ ~service.banned) /\ []<>Query("mint") => []<>Query("done")
=============================================================================

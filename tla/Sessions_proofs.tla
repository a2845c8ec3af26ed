-------------------------- MODULE Sessions_proofs --------------------------
(***************************************************************************)
(* Answers are earned, and tabs show what is stored, for any number of     *)
(* tabs, requests, tenants, expiries and events and any threshold.         *)
(***************************************************************************)
EXTENDS Sessions, TLAPS

Tokens == [tenant : Tenants, at : Nat]

Requests ==
    [kind : {"none", "call", "manage", "own", "query", "login", "sso", "switch", "refresh"},
     pc : {"idle", "authenticate", "check", "mint", "queued", "member"} \cup Answered,
     tab : Tabs \cup {None}, token : Tokens \cup {None}, tenant : Tenants \cup {None}]

\* The type invariant of the browser, the API and the breaker.
TypeOK ==
    /\ now \in Nat /\ events \in Nat
    /\ storage \in Tokens \cup {None} /\ tabs \in [Tabs -> Tokens \cup {None}]
    /\ leaving \subseteq Tabs /\ req \in [Reqs -> Requests]
    /\ service \in [up : BOOLEAN, banned : BOOLEAN, tenants : SUBSET Tenants]
    /\ breaker \in [failures : 0 .. MaxFailures, elapsed : BOOLEAN]
    /\ seen \in [Reqs -> SUBSET {"clear", "granted", "member"}] /\ overtaken \subseteq Tabs

\* What a request is doing fits its kind, and one that is past the middleware has a token.
KindFits(q) ==
    /\ q.pc = "authenticate" => q.kind = "call"
    /\ q.pc = "check" => q.kind = "manage" /\ q.token # None
    /\ q.pc \in {"mint", "queued"} => q.kind = "query"
    /\ q.pc = "member" => q.kind \in {"login", "switch"} /\ q.tenant \in Tenants

\* History has what is true now; with it, an answer that looks at the service now is earned.
EarnedInv ==
    /\ TypeOK
    /\ \A r \in Reqs : KindFits(req[r]) /\ Facts(r) \subseteq seen[r]
    /\ AnswersWereEarned

-----------------------------------------------------------------------------
(* Types *)

LEMMA IdleTyped ==
    /\ Idle \in Requests /\ KindFits(Idle)
    /\ Idle.pc = "idle" /\ Idle.kind = "none"
  BY DEF Idle, Requests, KindFits, Answered

LEMMA SignTyped ==
    ASSUME TypeOK, NEW tenant \in Tenants
    PROVE  Sign(tenant) \in Tokens
  BY DEF Sign, Tokens, TypeOK

LEMMA LeftTyped ==
    ASSUME NEW rs \in [Reqs -> Requests], \A r \in Reqs : KindFits(rs[r]), NEW t
    PROVE  /\ Left(rs, t) \in [Reqs -> Requests]
           /\ \A r \in Reqs :
                /\ KindFits(Left(rs, t)[r])
                /\ \/ Left(rs, t)[r] = Idle
                   \/ /\ Left(rs, t)[r].kind = rs[r].kind /\ Left(rs, t)[r].pc = rs[r].pc
                      /\ Left(rs, t)[r].token = rs[r].token
                      /\ Left(rs, t)[r].tenant = rs[r].tenant
<1>1. ASSUME NEW q \in Requests, KindFits(q)
      PROVE  LET l == [q EXCEPT !.tab = None]
             IN  /\ l \in Requests /\ KindFits(l) /\ l.kind = q.kind /\ l.pc = q.pc
                 /\ l.token = q.token /\ l.tenant = q.tenant
  BY <1>1 DEF Requests, KindFits
<1>2. ASSUME NEW r \in Reqs
      PROVE  \/ Left(rs, t)[r] = Idle
             \/ Left(rs, t)[r] = rs[r]
             \/ Left(rs, t)[r] = [rs[r] EXCEPT !.tab = None]
  BY <1>2 DEF Left
<1>3. DOMAIN Left(rs, t) = Reqs /\ Left(rs, t) = [r \in Reqs |-> Left(rs, t)[r]]
  BY DEF Left
<1>4. \A r \in Reqs : Left(rs, t)[r] \in Requests
  BY <1>1, <1>2, IdleTyped
<1>5. Left(rs, t) \in [Reqs -> Requests]
  BY <1>3, <1>4
<1>6. ASSUME NEW r \in Reqs
      PROVE  /\ KindFits(Left(rs, t)[r])
             /\ \/ Left(rs, t)[r] = Idle
                \/ /\ Left(rs, t)[r].kind = rs[r].kind /\ Left(rs, t)[r].pc = rs[r].pc
                   /\ Left(rs, t)[r].token = rs[r].token
                   /\ Left(rs, t)[r].tenant = rs[r].tenant
  <2>1. CASE Left(rs, t)[r] = Idle
    BY <2>1, IdleTyped
  <2>2. CASE Left(rs, t)[r] = rs[r]
    BY <2>2
  <2>3. CASE Left(rs, t)[r] = [rs[r] EXCEPT !.tab = None]
    <3>1. rs[r] \in Requests /\ KindFits(rs[r])
      OBVIOUS
    <3> QED BY <1>1, <2>3, <3>1
  <2> QED BY <1>2, <2>1, <2>2, <2>3
<1> QED BY <1>5, <1>6

\* Not refused
Standing(r) == req[r].pc \notin {"refused", "unauthenticated"}

\* What the service says now of a request
LEMMA FactsHold ==
    ASSUME NEW r \in Reqs
    PROVE  /\ Facts(r) \subseteq {"clear", "granted", "member"}
           /\ (/\ Standing(r) /\ req[r].kind \in {"call", "query"}
               /\ Live(req[r].token) /\ ~Suspended)
                => "clear" \in Facts(r)
           /\ (/\ Standing(r) /\ req[r].kind = "manage" /\ req[r].token # None /\ service.up
               /\ req[r].token.tenant \in service.tenants)
                => "granted" \in Facts(r)
           /\ (/\ Standing(r) /\ req[r].kind \in {"login", "switch"}
               /\ ~service.up \/ req[r].tenant \in service.tenants)
                => "member" \in Facts(r)
<1>1. Facts(r) \subseteq {"clear", "granted", "member"}
  BY DEF Facts
<1>2. ASSUME Standing(r), req[r].kind \in {"call", "query"}, Live(req[r].token), ~Suspended
      PROVE  "clear" \in Facts(r)
  BY <1>2 DEF Facts, Standing, Suspended
<1>3. ASSUME Standing(r), req[r].kind = "manage", req[r].token # None, service.up,
             req[r].token.tenant \in service.tenants
      PROVE  "granted" \in Facts(r)
  BY <1>3 DEF Facts, Standing
<1>4. ASSUME Standing(r), req[r].kind \in {"login", "switch"},
             ~service.up \/ req[r].tenant \in service.tenants
      PROVE  "member" \in Facts(r)
  BY <1>4 DEF Facts, Standing
<1> QED BY <1>1, <1>2, <1>3, <1>4

LEMMA ObserveTyped ==
    ASSUME TypeOK, NEW t, Observe(t)
    PROVE  seen' \in [Reqs -> SUBSET {"clear", "granted", "member"}] /\ overtaken' \subseteq Tabs
<1>1. \A r \in Reqs : Facts(r)' \subseteq {"clear", "granted", "member"}
  BY DEF Facts
<1>2. \A r \in Reqs : seen[r] \subseteq {"clear", "granted", "member"}
  BY DEF TypeOK
<1>3. ASSUME NEW r \in Reqs
      PROVE  (Facts(r)' \cup IF \/ req'[r].pc \in {"idle", "refused", "unauthenticated"}
                                \/ req[r].pc = "mint" /\ req'[r].pc = "queued"
                             THEN {} ELSE seen[r]) \subseteq {"clear", "granted", "member"}
  BY <1>1, <1>2
<1>4. seen' \in [Reqs -> SUBSET {"clear", "granted", "member"}]
  BY <1>3 DEF Observe
<1> QED BY <1>4 DEF Observe

-----------------------------------------------------------------------------
(* Steps *)

Earned(r) ==
    /\ req[r].pc \in {"mint", "check"} => "clear" \in seen[r]
    /\ req[r].pc = "done" =>
        CASE req[r].kind = "manage" -> {"clear", "granted"} \subseteq seen[r]
          [] req[r].kind \in {"query", "own"} -> "clear" \in seen[r]
          [] req[r].kind \in {"login", "switch"} -> "member" \in seen[r]
          [] req[r].kind = "refresh" -> req[r].token.tenant \in DevTenants
          [] OTHER -> TRUE

\* A request to which nothing happens, or that is given up, or that begins, or is refused.
LEMMA CarriedOver ==
    ASSUME NEW r \in Reqs, Earned(r), NEW t, Observe(t),
           \/ /\ req'[r].kind = req[r].kind /\ req'[r].pc = req[r].pc
              /\ req'[r].token = req[r].token
           \/ req'[r].pc \notin {"mint", "check", "done"}
           \/ req'[r].kind = "sso" /\ req'[r].pc = "done"
           \/ /\ req'[r].kind = "refresh" /\ req'[r].pc = "done"
              /\ req'[r].token.tenant \in DevTenants
    PROVE  Earned(r)'
<1>1. CASE req'[r].pc \notin {"mint", "check", "done"}
  BY <1>1 DEF Earned
<1>2. CASE req'[r].kind = "sso" /\ req'[r].pc = "done"
  BY <1>2 DEF Earned
<1>3. CASE /\ req'[r].kind = "refresh" /\ req'[r].pc = "done"
           /\ req'[r].token.tenant \in DevTenants
  BY <1>3 DEF Earned
<1>4. CASE /\ req'[r].kind = req[r].kind /\ req'[r].pc = req[r].pc
           /\ req'[r].token = req[r].token /\ req[r].pc \in {"mint", "check", "done"}
  <2>1. seen[r] \subseteq seen'[r]
    BY <1>4 DEF Observe
  <2> QED BY <1>4, <2>1 DEF Earned
<1> QED BY <1>1, <1>2, <1>3, <1>4

\* What holds of every step of a request: it fits its kind afterwards, and it is earned.
Fits == req \in [Reqs -> Requests] /\ \A r \in Reqs : KindFits(req[r])
AllEarned == \A r \in Reqs : Earned(r)

\* A request is replaced by another record, and the others are left alone.
LEMMA OneRequest ==
    ASSUME EarnedInv, NEW r \in Reqs, NEW q \in Requests, KindFits(q),
           req' = [req EXCEPT ![r] = q], NEW t, Observe(t),
           Earned(r) => Earned(r)'
    PROVE  Fits' /\ AllEarned'
<1>1. req'[r] = q /\ \A u \in Reqs \ {r} : req'[u] = req[u]
  BY DEF EarnedInv, TypeOK
<1>2. \A u \in Reqs : Earned(u)
  BY DEF EarnedInv, AnswersWereEarned, Earned
<1>3. Fits'
  BY <1>1 DEF Fits, EarnedInv, TypeOK
<1>4. ASSUME NEW u \in Reqs PROVE Earned(u)'
  BY <1>1, <1>2, CarriedOver
<1> QED BY <1>3, <1>4 DEF AllEarned

\* The requests of a page that is left
LEMMA LeaveStep ==
    ASSUME EarnedInv, NEW rs \in [Reqs -> Requests], NEW t, NEW u, Observe(u),
           req' = Left(rs, t),
           \A r \in Reqs : rs[r] = req[r] \/ rs[r] = Idle
    PROVE  Fits' /\ AllEarned'
<1>1. \A r \in Reqs : KindFits(rs[r])
  BY IdleTyped DEF EarnedInv
<1>2. Fits'
  BY <1>1, LeftTyped DEF Fits
<1>3. ASSUME NEW r \in Reqs PROVE Earned(r)'
  <2>1. Earned(r)
    BY DEF EarnedInv, AnswersWereEarned, Earned
  <2>2. \/ req'[r] = Idle
        \/ /\ req'[r].kind = rs[r].kind /\ req'[r].pc = rs[r].pc
           /\ req'[r].token = rs[r].token
    BY <1>1, LeftTyped
  <2>3. \/ /\ req'[r].kind = req[r].kind /\ req'[r].pc = req[r].pc
           /\ req'[r].token = req[r].token
        \/ req'[r].pc = "idle"
    BY <2>2, IdleTyped
  <2> QED BY <2>1, <2>3, CarriedOver
<1> QED BY <1>2, <1>3 DEF AllEarned

\* A step that leaves the requests alone
LEMMA NothingAsked ==
    ASSUME EarnedInv, NEW t, Observe(t), req' = req
    PROVE  Fits' /\ AllEarned'
<1>1. Fits'
  BY DEF Fits, EarnedInv, TypeOK
<1>2. ASSUME NEW r \in Reqs PROVE Earned(r)'
  BY CarriedOver DEF EarnedInv, AnswersWereEarned, Earned
<1> QED BY <1>1, <1>2 DEF AllEarned

\* The other variables
RestTyped ==
    /\ now \in Nat /\ events \in Nat
    /\ storage \in Tokens \cup {None} /\ tabs \in [Tabs -> Tokens \cup {None}]
    /\ leaving \subseteq Tabs
    /\ service \in [up : BOOLEAN, banned : BOOLEAN, tenants : SUBSET Tenants]
    /\ breaker \in [failures : 0 .. MaxFailures, elapsed : BOOLEAN]

LEMMA UseStep ==
    ASSUME EarnedInv, NEW t \in Tabs, Use(t), Observe(t)
    PROVE  Fits' /\ AllEarned' /\ RestTyped'
<1>1. TypeOK
  BY DEF EarnedInv
<1>2. ASSUME NEW r \in Reqs, NEW q \in Requests, Begin(r, q), KindFits(q),
             q.pc \in {"authenticate", "member"} \/ (q.kind = "sso" /\ q.pc = "done")
      PROVE  Fits' /\ AllEarned'
  <2>1. req' = [req EXCEPT ![r] = q] /\ req'[r] = q
    BY <1>1, <1>2 DEF Begin, TypeOK
  <2>2. Earned(r) => Earned(r)'
    BY <1>2, <2>1, CarriedOver
  <2> QED BY <1>2, <2>1, <2>2, OneRequest
<1>3. ASSUME NEW r \in Reqs, Ask(t, r) PROVE Fits' /\ AllEarned' /\ RestTyped'
  <2> DEFINE q == [Idle EXCEPT !.kind = "call", !.pc = "authenticate", !.tab = t,
                               !.token = storage]
  <2>1. q \in Requests /\ KindFits(q) /\ q.pc = "authenticate"
    BY <1>1 DEF Idle, Requests, KindFits, TypeOK
  <2>2. Begin(r, q) /\ UNCHANGED <<now, browser, service, breaker, events>>
    BY <1>3 DEF Ask
  <2> HIDE DEF q
  <2> QED BY <1>1, <1>2, <2>1, <2>2 DEF RestTyped, TypeOK, browser
<1>4. ASSUME NEW r \in Reqs, LogIn(t, r) PROVE Fits' /\ AllEarned' /\ RestTyped'
  <2>1. PICK tenant \in Tenants :
          Begin(r, [Idle EXCEPT !.kind = "login", !.pc = "member", !.tab = t, !.tenant = tenant])
    BY <1>4 DEF LogIn
  <2> DEFINE q == [Idle EXCEPT !.kind = "login", !.pc = "member", !.tab = t, !.tenant = tenant]
  <2>2. q \in Requests /\ KindFits(q) /\ q.pc = "member"
    BY <1>1 DEF Idle, Requests, KindFits
  <2>3. Begin(r, q) /\ UNCHANGED <<now, browser, service, breaker, events>>
    BY <1>4, <2>1 DEF LogIn
  <2> HIDE DEF q
  <2> QED BY <1>1, <1>2, <2>2, <2>3 DEF RestTyped, TypeOK, browser
<1>5. ASSUME NEW r \in Reqs, SignOn(t, r) PROVE Fits' /\ AllEarned' /\ RestTyped'
  <2>1. PICK tenant \in Tenants :
          Begin(r, [Idle EXCEPT !.kind = "sso", !.pc = "done", !.tab = t, !.token = Sign(tenant)])
    BY <1>5 DEF SignOn
  <2> DEFINE q == [Idle EXCEPT !.kind = "sso", !.pc = "done", !.tab = t, !.token = Sign(tenant)]
  <2>2. q \in Requests /\ KindFits(q) /\ q.kind = "sso" /\ q.pc = "done"
    BY <1>1, SignTyped DEF Idle, Requests, KindFits, Answered
  <2>3. Begin(r, q) /\ UNCHANGED <<now, browser, service, breaker, events>>
    BY <1>5, <2>1 DEF SignOn
  <2> HIDE DEF q
  <2> QED BY <1>1, <1>2, <2>2, <2>3 DEF RestTyped, TypeOK, browser
<1>6. ASSUME NEW r \in Reqs, SwitchTenant(t, r) PROVE Fits' /\ AllEarned' /\ RestTyped'
  <2>1. PICK tenant \in Tenants :
          Begin(r, [Idle EXCEPT !.kind = "switch", !.pc = "member", !.tab = t, !.tenant = tenant])
    BY <1>6 DEF SwitchTenant
  <2> DEFINE q == [Idle EXCEPT !.kind = "switch", !.pc = "member", !.tab = t, !.tenant = tenant]
  <2>2. q \in Requests /\ KindFits(q) /\ q.pc = "member"
    BY <1>1 DEF Idle, Requests, KindFits
  <2>3. Begin(r, q) /\ UNCHANGED <<now, browser, service, breaker, events>>
    BY <1>6, <2>1 DEF SwitchTenant
  <2> HIDE DEF q
  <2> QED BY <1>1, <1>2, <2>2, <2>3 DEF RestTyped, TypeOK, browser
<1>7. CASE Load(t)
  <2>1. req' = Left(req, t)
    BY <1>7 DEF Load
  <2>2. Fits' /\ AllEarned'
    BY <1>1, <2>1, LeaveStep DEF TypeOK
  <2> QED BY <1>1, <1>7, <2>2 DEF Load, RestTyped, TypeOK
<1>8. CASE Logout(t) \/ Hydrate(t)
  <2>1. req' = req
    BY <1>8 DEF Logout, Hydrate
  <2>2. Fits' /\ AllEarned'
    BY <2>1, NothingAsked
  <2> QED BY <1>1, <1>8, <2>2 DEF Logout, Hydrate, RestTyped, TypeOK
<1> QED BY <1>3, <1>4, <1>5, <1>6, <1>7, <1>8 DEF Use

\* A developer's token
LEMMA RefreshStep ==
    ASSUME EarnedInv, NEW r \in Reqs, NEW t, Observe(t), Refresh(r)
    PROVE  Fits' /\ AllEarned' /\ RestTyped'
<1>1. TypeOK
  BY DEF EarnedInv
<1>2. PICK tenant \in DevTenants :
        Begin(r, [Idle EXCEPT !.kind = "refresh", !.pc = "done", !.token = Sign(tenant)])
  BY DEF Refresh
<1> DEFINE q == [Idle EXCEPT !.kind = "refresh", !.pc = "done", !.token = Sign(tenant)]
<1>3. Sign(tenant) \in Tokens /\ Sign(tenant).tenant = tenant
  BY <1>1, SignTyped, SessionsAssumption DEF Sign
<1>4. q \in Requests /\ KindFits(q) /\ q.kind = "refresh" /\ q.pc = "done"
      /\ q.token = Sign(tenant)
  BY <1>3 DEF Idle, Requests, KindFits, Answered
<1>5. req' = [req EXCEPT ![r] = q] /\ req'[r] = q
  BY <1>1, <1>2 DEF Begin, TypeOK
<1> HIDE DEF q
<1>6. Earned(r) => Earned(r)'
  BY <1>3, <1>4, <1>5, CarriedOver
<1>7. Fits' /\ AllEarned'
  BY <1>4, <1>5, <1>6, OneRequest
<1> QED BY <1>1, <1>7 DEF Refresh, RestTyped, TypeOK, browser

\* A request is refused, and carries nothing back.
LEMMA Rejected ==
    ASSUME EarnedInv, NEW r \in Reqs, NEW t, Observe(t),
           NEW pc \in {"refused", "unauthenticated"}, Reject(r, pc)
    PROVE  Fits' /\ AllEarned'
<1> DEFINE q == [req[r] EXCEPT !.pc = pc, !.token = None, !.tenant = None]
<1>1. q \in Requests /\ KindFits(q) /\ q.pc = pc
  <2>1. req[r] \in Requests
    BY DEF EarnedInv, TypeOK
  <2>2. q \in Requests /\ q.pc = pc
    BY <2>1 DEF Requests, Answered
  <2> QED BY <2>2 DEF KindFits
<1>2. req' = [req EXCEPT ![r] = q] /\ req'[r] = q
  BY DEF EarnedInv, TypeOK, Reject
<1> HIDE DEF q
<1>3. Earned(r) => Earned(r)'
  BY <1>1, <1>2, CarriedOver
<1> QED BY <1>1, <1>2, <1>3, OneRequest

\* A request goes on.
LEMMA GoesOn ==
    ASSUME EarnedInv, NEW r \in Reqs, NEW t, Observe(t),
           NEW pc \in {"queued", "done"}, Goto(r, pc),
           pc = "queued" => req[r].kind = "query",
           pc = "done" => Earned(r)'
    PROVE  Fits' /\ AllEarned'
<1> DEFINE q == [req[r] EXCEPT !.pc = pc]
<1>1. q \in Requests /\ KindFits(q) /\ q.pc = pc
  BY DEF EarnedInv, TypeOK, Requests, KindFits, Answered
<1>2. req' = [req EXCEPT ![r] = q] /\ req'[r] = q
  BY DEF EarnedInv, TypeOK, Goto
<1> HIDE DEF q
<1>3. Earned(r) => Earned(r)'
  BY <1>1, <1>2, CarriedOver
<1> QED BY <1>1, <1>2, <1>3, OneRequest

\* What is known of a request that is served.
LEMMA Known ==
    ASSUME EarnedInv, NEW r \in Reqs, NEW t, Observe(t)
    PROVE  /\ TypeOK /\ req[r] \in Requests /\ KindFits(req[r]) /\ Earned(r)
           /\ Facts(r) \subseteq seen[r]
           /\ (/\ req'[r].pc \notin {"idle", "refused", "unauthenticated"}
               /\ req[r].pc # "mint") => seen[r] \subseteq seen'[r]
  BY DEF EarnedInv, AnswersWereEarned, Earned, Observe, TypeOK

LEMMA AuthenticateStep ==
    ASSUME EarnedInv, NEW r \in Reqs, NEW t, Observe(t), Authenticate(r)
    PROVE  Fits' /\ AllEarned'
<1>1. CASE Reject(r, "unauthenticated") \/ Reject(r, "refused")
  BY <1>1, Rejected
<1>2. ASSUME NEW kind, NEW pc, Live(req[r].token), ~Suspended,
             \/ kind = "manage" /\ pc = "check"
             \/ kind = "own" /\ pc = "done"
             \/ kind = "query" /\ pc = "mint",
             req' = [req EXCEPT ![r].kind = kind, ![r].pc = pc]
      PROVE  Fits' /\ AllEarned'
  <2> DEFINE q == [req[r] EXCEPT !.kind = kind, !.pc = pc]
  <2>1. q \in Requests /\ KindFits(q) /\ q.pc = pc /\ q.kind = kind
    BY <1>2, Known DEF Requests, KindFits, Live, Answered
  <2>2. req' = [req EXCEPT ![r] = q] /\ req'[r] = q
    BY <1>2, Known DEF TypeOK
  <2> HIDE DEF q
  <2>3. req[r].kind = "call" /\ req[r].pc = "authenticate"
    BY Known DEF Authenticate, KindFits
  <2>4. "clear" \in seen[r]
    BY <1>2, <2>3, Known, FactsHold DEF Standing
  <2>5. Earned(r)'
    BY <1>2, <2>1, <2>2, <2>3, <2>4, Known DEF Earned
  <2> QED BY <2>1, <2>2, <2>5, OneRequest
<1> QED
  BY <1>1, <1>2 DEF Authenticate, Refuse, Admit, Suspended

LEMMA CheckPermissionStep ==
    ASSUME EarnedInv, NEW r \in Reqs, NEW t, Observe(t), CheckPermission(r)
    PROVE  Fits' /\ AllEarned'
<1>1. CASE Reject(r, "refused")
  BY <1>1, Rejected
<1>2. CASE Goto(r, "done") /\ service.up /\ req[r].token.tenant \in service.tenants
  <2>1. req[r].pc = "check" /\ req[r].kind = "manage" /\ req[r].token # None
    BY Known DEF CheckPermission, KindFits
  <2>2. {"clear", "granted"} \subseteq seen[r]
    BY <1>2, <2>1, Known, FactsHold DEF Earned, Standing
  <2>3. req'[r].pc = "done" /\ req'[r].kind = "manage"
    BY <1>2, <2>1, Known DEF Goto, TypeOK, Requests
  <2>4. Earned(r)'
    BY <2>1, <2>2, <2>3, Known DEF Earned
  <2> QED BY <1>2, <2>4, GoesOn
<1> QED BY <1>1, <1>2 DEF CheckPermission, Refuse, Grant

LEMMA RetrieveStep ==
    ASSUME EarnedInv, NEW r \in Reqs, NEW t, Observe(t), Retrieve(r)
    PROVE  Fits' /\ AllEarned'
<1>1. CASE Reject(r, "refused")
  BY <1>1, Rejected
<1>2. CASE Goto(r, "done") /\ Live(req[r].token) /\ ~Suspended
  <2>1. req[r].pc = "queued" /\ req[r].kind = "query"
    BY Known DEF Retrieve, KindFits
  <2>2. "clear" \in seen[r]
    BY <1>2, <2>1, Known, FactsHold DEF Standing
  <2>3. req'[r].pc = "done" /\ req'[r].kind = "query"
    BY <1>2, <2>1, Known DEF Goto, TypeOK, Requests
  <2>4. Earned(r)'
    BY <2>1, <2>2, <2>3, Known DEF Earned
  <2> QED BY <1>2, <2>4, GoesOn
<1> QED BY <1>1, <1>2 DEF Retrieve, Refuse, Grant

LEMMA CheckMemberStep ==
    ASSUME EarnedInv, NEW r \in Reqs, NEW t, Observe(t), CheckMember(r)
    PROVE  Fits' /\ AllEarned'
<1>1. CASE Reject(r, "refused")
  BY <1>1, Rejected
<1>2. CASE /\ ~service.up \/ req[r].tenant \in service.tenants
           /\ req' = [req EXCEPT ![r].pc = "done", ![r].token = Sign(req[r].tenant)]
  <2> DEFINE q == [req[r] EXCEPT !.pc = "done", !.token = Sign(req[r].tenant)]
  <2>1. req[r].pc = "member" /\ req[r].kind \in {"login", "switch"} /\ req[r].tenant \in Tenants
    BY Known DEF CheckMember, KindFits
  <2>2. Sign(req[r].tenant) \in Tokens
    BY <2>1, Known, SignTyped
  <2>3. q \in Requests /\ KindFits(q) /\ q.pc = "done" /\ q.kind = req[r].kind
    BY <2>1, <2>2, Known DEF Requests, KindFits, Answered
  <2>4. req' = [req EXCEPT ![r] = q] /\ req'[r] = q
    BY <1>2, Known DEF TypeOK
  <2> HIDE DEF q
  <2>5. "member" \in seen[r]
    BY <1>2, <2>1, Known, FactsHold DEF Standing
  <2>6. Earned(r)'
    BY <2>1, <2>3, <2>4, <2>5, Known DEF Earned
  <2> QED BY <2>3, <2>4, <2>6, OneRequest
<1> QED BY <1>1, <1>2 DEF CheckMember, Refuse

\* An answer that is received: the request is over.
LEMMA ReceiveStep ==
    ASSUME EarnedInv, NEW r \in Reqs, NEW t, Observe(t), Receive(r)
    PROVE  Fits' /\ AllEarned'
<1>1. req' = [req EXCEPT ![r] = Idle]
  BY DEF Receive, Over
<1>2. Earned(r) => Earned(r)'
  BY <1>1, IdleTyped, CarriedOver, Known DEF TypeOK
<1> QED BY <1>1, <1>2, IdleTyped, OneRequest

LEMMA MintStep ==
    ASSUME EarnedInv, NEW r \in Reqs, NEW t, Observe(t), MintCtxToken(r)
    PROVE  Fits' /\ AllEarned' /\ breaker' \in [failures : 0 .. MaxFailures, elapsed : BOOLEAN]
<1>1. Reject(r, "refused") \/ Goto(r, "queued")
  BY DEF MintCtxToken, Refuse
<1>2. req[r].kind = "query"
  BY Known DEF MintCtxToken, KindFits
<1>3. Fits' /\ AllEarned'
  BY <1>1, <1>2, GoesOn, Rejected
<1>4. breaker' \in [failures : 0 .. MaxFailures, elapsed : BOOLEAN]
  <2>3. breaker \in [failures : 0 .. MaxFailures, elapsed : BOOLEAN]
    BY Known DEF TypeOK
  <2>4. [failures |-> 0, elapsed |-> FALSE] \in [failures : 0 .. MaxFailures, elapsed : BOOLEAN]
    BY SessionsAssumption
  <2>1. CASE UNCHANGED breaker \/ breaker' = [failures |-> 0, elapsed |-> FALSE]
    BY <2>1, <2>3, <2>4
  <2>2. CASE CountFailure
    BY <2>2, Known, SessionsAssumption DEF CountFailure, TypeOK
  <2> QED BY <2>1, <2>2 DEF MintCtxToken
<1> QED BY <1>3, <1>4

LEMMA ServeStep ==
    ASSUME EarnedInv, NEW r \in Reqs, NEW t, Observe(t), Serve(r) \/ ExpireInQueue(r)
    PROVE  Fits' /\ AllEarned' /\ RestTyped'
<1>1. CASE Authenticate(r)
  BY <1>1, AuthenticateStep, Known DEF Authenticate, RestTyped, TypeOK, browser
<1>2. CASE CheckPermission(r)
  BY <1>2, CheckPermissionStep, Known DEF CheckPermission, RestTyped, TypeOK, browser
<1>3. CASE MintCtxToken(r)
  BY <1>3, MintStep, Known DEF MintCtxToken, RestTyped, TypeOK, browser
<1>4. CASE Retrieve(r)
  BY <1>4, RetrieveStep, Known DEF Retrieve, RestTyped, TypeOK, browser
<1>5. CASE CheckMember(r)
  BY <1>5, CheckMemberStep, Known DEF CheckMember, RestTyped, TypeOK, browser
<1>6. CASE Receive(r)
  <2>1. UNCHANGED <<now, service, breaker, events>>
    BY <1>6 DEF Receive
  <2>2. \/ UNCHANGED browser
        \/ /\ storage' = req[r].token /\ tabs' = [tabs EXCEPT ![req[r].tab] = req[r].token]
           /\ leaving' \in {leaving, leaving \cup {req[r].tab}} /\ req[r].tab # None
        \/ /\ storage' = None /\ tabs' = tabs
           /\ leaving' = leaving \cup {req[r].tab} /\ req[r].tab # None
    BY <1>6 DEF Receive, browser
  <2>3. req[r].token \in Tokens \cup {None} /\ req[r].tab \in Tabs \cup {None}
    BY Known DEF Requests
  <2> QED BY <1>6, <2>1, <2>2, <2>3, ReceiveStep, Known DEF RestTyped, TypeOK, browser
<1>7. CASE ExpireInQueue(r)
  <2>1. Fits' /\ AllEarned'
    BY <1>7, Rejected DEF ExpireInQueue, Refuse
  <2> QED BY <1>7, <2>1, Known DEF ExpireInQueue, Event, RestTyped, TypeOK, browser
<1> QED BY <1>1, <1>2, <1>3, <1>4, <1>5, <1>6, <1>7 DEF Serve

LEMMA WorldStep ==
    ASSUME EarnedInv, NEW t, Observe(t), Expire \/ ChangeService \/ ComeBack \/ Elapse
    PROVE  Fits' /\ AllEarned' /\ RestTyped'
<1>1. req' = req /\ TypeOK
  BY DEF Expire, ChangeService, ComeBack, Elapse, EarnedInv
<1>2. Fits' /\ AllEarned'
  BY <1>1, NothingAsked
<1>4. CASE Expire
  BY <1>1, <1>2, <1>4 DEF Expire, RestTyped, TypeOK, browser
<1>7. CASE Elapse
  <2>1. breaker' \in [failures : 0 .. MaxFailures, elapsed : BOOLEAN]
    BY <1>1, <1>7 DEF Elapse, TypeOK
  <2> QED BY <1>1, <1>2, <1>7, <2>1 DEF Elapse, RestTyped, TypeOK, browser
<1>5. CASE ChangeService
  <2>1. \A a \in Tenants : Toggle(service.tenants, a) \in SUBSET Tenants
    BY <1>1 DEF Toggle, TypeOK
  <2>2. service' \in [up : BOOLEAN, banned : BOOLEAN, tenants : SUBSET Tenants]
    <3>1. CASE service' = [service EXCEPT !.up = FALSE]
      BY <1>1, <3>1 DEF TypeOK
    <3>2. CASE service' = [service EXCEPT !.banned = ~@]
      BY <1>1, <3>2 DEF TypeOK
    <3>3. ASSUME NEW a \in Tenants, service' = [service EXCEPT !.tenants = Toggle(@, a)]
          PROVE  service' \in [up : BOOLEAN, banned : BOOLEAN, tenants : SUBSET Tenants]
      BY <1>1, <2>1, <3>3 DEF TypeOK
    <3> QED BY <1>5, <3>1, <3>2, <3>3 DEF ChangeService
  <2> QED BY <1>1, <1>2, <1>5, <2>2 DEF ChangeService, Event, RestTyped, TypeOK, browser
<1>6. CASE ComeBack
  BY <1>1, <1>2, <1>6 DEF ComeBack, RestTyped, TypeOK, browser
<1> QED BY <1>4, <1>5, <1>6, <1>7

-----------------------------------------------------------------------------
(* The theorems *)

LEMMA EarnedInit == Init => EarnedInv
<1> SUFFICES ASSUME Init PROVE EarnedInv
  OBVIOUS
<1>1. TypeOK
  BY IdleTyped, SessionsAssumption DEF Init, TypeOK
<1>2. ASSUME NEW r \in Reqs PROVE req[r] = Idle /\ KindFits(req[r]) /\ Facts(r) \subseteq seen[r]
  BY IdleTyped DEF Init, Facts
<1>3. AnswersWereEarned
  BY <1>2, IdleTyped DEF AnswersWereEarned
<1> QED BY <1>1, <1>2, <1>3 DEF EarnedInv

LEMMA EarnedStep == EarnedInv /\ [Next]_vars => EarnedInv'
<1> SUFFICES ASSUME EarnedInv, [Next]_vars PROVE EarnedInv'
  OBVIOUS
<1>1. ASSUME NEW t, Observe(t), Fits' /\ AllEarned' /\ RestTyped' PROVE EarnedInv'
  <2>1. TypeOK'
    BY <1>1, ObserveTyped DEF EarnedInv, TypeOK, Fits, RestTyped
  <2>2. \A r \in Reqs : KindFits(req[r])' /\ Facts(r)' \subseteq seen'[r]
    BY <1>1 DEF Fits, Observe
  <2>3. AnswersWereEarned'
    BY <1>1 DEF AllEarned, Earned, AnswersWereEarned
  <2> QED BY <2>1, <2>2, <2>3 DEF EarnedInv
<1>2. ASSUME NEW t \in Tabs, Use(t), Observe(t) PROVE EarnedInv'
  BY <1>1, <1>2, UseStep
<1>3. ASSUME NEW r \in Reqs, Serve(r) \/ ExpireInQueue(r), Observe(req[r].tab)
      PROVE  EarnedInv'
  <2>1. PICK t : t = req[r].tab
    OBVIOUS
  <2> QED BY <1>1, <1>3, <2>1, ServeStep
<1>4. ASSUME Expire \/ ChangeService \/ ComeBack \/ Elapse, Observe(None) PROVE EarnedInv'
  BY <1>1, <1>4, WorldStep
<1>6. ASSUME NEW r \in Reqs, Refresh(r), Observe(None) PROVE EarnedInv'
  BY <1>1, <1>6, RefreshStep
<1>5. CASE UNCHANGED vars
  <2>1. TypeOK' /\ AnswersWereEarned'
    BY <1>5 DEF EarnedInv, TypeOK, AnswersWereEarned, vars
  <2>2. \A r \in Reqs : KindFits(req[r])' /\ (Facts(r) \subseteq seen[r])'
    BY <1>5 DEF EarnedInv, vars, Facts, Live
  <2> QED BY <2>1, <2>2 DEF EarnedInv
<1> QED BY <1>2, <1>3, <1>4, <1>5, <1>6 DEF Next

\* The browser, the requests, the breaker and the history have the types that TypeOK says: in
\* particular, a refusal leaves a request whose parts still fit each other, and no answer puts
\* anything but a token into the storage or the store of a tab.
THEOREM TypeCorrect == Spec => []TypeOK
<1>1. EarnedInv => TypeOK
  BY DEF EarnedInv
<1> QED BY <1>1, EarnedInit, EarnedStep, PTL DEF Spec

\* Whatever overlaps, expires, fails or changes between the checks: what is done had been
\* allowed since it was asked, and a query once more after it was queued (middleware,
\* authorization dependency, worker).  A change of conversations or directories needs no
\* permission, only a valid token of a user who is not banned; a permission service that is
\* silent lets a login or a switch pass, and /refresh signs for a developer's tenant unasked.
THEOREM EveryAnswerEarned == Spec => []AnswersWereEarned
<1>1. EarnedInv => AnswersWereEarned
  BY DEF EarnedInv
<1> QED BY <1>1, EarnedInit, EarnedStep, PTL DEF Spec

-----------------------------------------------------------------------------
(* Tabs *)

\* What a step of a tab, or of one of its requests, does to the browser
Together(t) ==
    \/ UNCHANGED browser
    \/ /\ \A u \in Tabs \ {t} : tabs'[u] = tabs[u]
       /\ \A u \in leaving : u = t \/ u \in leaving'
       /\ tabs'[t] = None \/ storage' = tabs'[t] \/ t \in leaving'

LEMMA UseTogether ==
    ASSUME TypeOK, NEW t \in Tabs, Use(t)
    PROVE  Together(t)
<1>1. CASE Logout(t) \/ Load(t) \/ Hydrate(t)
  <2>1. /\ tabs' = [tabs EXCEPT ![t] = tabs'[t]] /\ (tabs'[t] = None \/ storage' = tabs'[t])
        /\ \A u \in leaving : u = t \/ u \in leaving'
    BY <1>1 DEF Logout, Load, Hydrate, TypeOK
  <2> QED BY <2>1 DEF Together, TypeOK
<1>2. CASE \E r \in Reqs : Ask(t, r) \/ LogIn(t, r) \/ SignOn(t, r) \/ SwitchTenant(t, r)
  BY <1>2 DEF Ask, LogIn, SignOn, SwitchTenant, Together
<1> QED BY <1>1, <1>2 DEF Use

LEMMA ServeTogether ==
    ASSUME TypeOK, NEW r \in Reqs, Serve(r) \/ ExpireInQueue(r)
    PROVE  Together(req[r].tab)
<1>1. CASE Receive(r)
  <2>1. PICK t : t = req[r].tab
    OBVIOUS
  <2>2. \/ UNCHANGED browser
        \/ /\ t # None /\ leaving \subseteq leaving'
           /\ \/ storage' = req[r].token /\ tabs' = [tabs EXCEPT ![t] = req[r].token]
              \/ tabs' = tabs /\ t \in leaving'
    BY <1>1, <2>1 DEF Receive, browser
  <2>3. t \in Tabs \cup {None}
    BY <2>1 DEF TypeOK, Requests
  <2>4. Together(t)
    BY <2>2, <2>3 DEF Together, TypeOK
  <2> QED BY <2>1, <2>4
<1>2. CASE ~Receive(r)
  BY <1>2 DEF Serve, Authenticate, CheckPermission, MintCtxToken, Retrieve, CheckMember,
              ExpireInQueue, Together
<1> QED BY <1>1, <1>2

\* A tab that another one does not overtake keeps to the storage.
LEMMA TogetherKeeps ==
    ASSUME TabShowsStored, NEW t, Together(t), Observe(t)
    PROVE  TabShowsStored'
<1> SUFFICES ASSUME NEW u \in Tabs, tabs'[u] # None, u \notin leaving', u \notin overtaken'
             PROVE  storage' = tabs'[u]
  BY DEF TabShowsStored
<1>1. ~(u \in overtaken /\ storage' # tabs'[u]) /\ ~(u # t /\ storage' # storage)
  BY DEF Observe
<1>2. CASE UNCHANGED browser
  BY <1>1, <1>2 DEF TabShowsStored, browser
<1>3. CASE /\ \A v \in Tabs \ {t} : tabs'[v] = tabs[v]
           /\ \A v \in leaving : v = t \/ v \in leaving'
           /\ tabs'[t] = None \/ storage' = tabs'[t] \/ t \in leaving'
  <2>1. CASE u = t
    BY <1>3, <2>1
  <2>2. CASE u # t
    BY <1>1, <1>3, <2>2 DEF TabShowsStored
  <2> QED BY <2>1, <2>2
<1> QED BY <1>2, <1>3 DEF Together

\* However late the answers of a browser's requests come, a tab shows the session that the
\* requests carry, unless another tab has replaced or ended it or the tab is on its way to
\* another page (useAuthStore and the client's interceptors, over one localStorage).
THEOREM TabsShowWhatIsStored == Spec => []TabShowsStored
<1>1. Init => TabShowsStored
  BY DEF Init, TabShowsStored
<1>2. TypeOK /\ TabShowsStored /\ [Next]_vars => TabShowsStored'
  <2> SUFFICES ASSUME TypeOK, TabShowsStored, [Next]_vars PROVE TabShowsStored'
    OBVIOUS
  <2>1. ASSUME NEW t \in Tabs, Use(t), Observe(t) PROVE TabShowsStored'
    BY <2>1, UseTogether, TogetherKeeps
  <2>2. ASSUME NEW r \in Reqs, Serve(r) \/ ExpireInQueue(r), Observe(req[r].tab)
        PROVE  TabShowsStored'
    <3>1. PICK t : t = req[r].tab
      OBVIOUS
    <3> QED BY <2>2, <3>1, ServeTogether, TogetherKeeps
  <2>3. ASSUME Expire \/ ChangeService \/ ComeBack \/ Elapse, Observe(None)
        PROVE  TabShowsStored'
    <3>1. Together(None)
      BY <2>3 DEF Expire, ChangeService, ComeBack, Elapse, Together
    <3> QED BY <2>3, <3>1, TogetherKeeps
  <2>4. CASE UNCHANGED vars
    BY <2>4 DEF vars, browser, TabShowsStored
  <2>5. ASSUME NEW r \in Reqs, Refresh(r), Observe(None) PROVE TabShowsStored'
    <3>1. Together(None)
      BY <2>5 DEF Refresh, Together
    <3> QED BY <2>5, <3>1, TogetherKeeps
  <2> QED BY <2>1, <2>2, <2>3, <2>4, <2>5 DEF Next
<1> QED BY <1>1, <1>2, TypeCorrect, PTL DEF Spec
=============================================================================

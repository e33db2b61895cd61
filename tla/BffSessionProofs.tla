------------------------- MODULE BffSessionProofs -------------------------
(***************************************************************************)
(* Sessions, for every set of requests, every latency and every lifetime:  *)
(* a used token stays used, an ended family stays ended, the pairs issued  *)
(* for one token are issued close together, and a customer's session only  *)
(* ends for a cause.                                                       *)
(***************************************************************************)
EXTENDS BffSession, TLAPS

Issued(t) == t \in Call /\ token[t].at # Never
Travelling(r) == at[r] \notin {"idle", "over"}
Refreshing == {"rotate", "sibling", "claim", "revokeFamily", "dropExpired"}
SigningIn == {"login", "register", "create", "issue"}

CallOK(r) ==
    /\ at[r] \in {"idle", "first"} => pc[r] = "idle"
    /\ at[r] = "idle" => tok[r] = Nobody
    /\ at[r] \in {"idle", "first", "wait"} => sends[r] = "none"
    /\ at[r] = "first" => kind[r] = "api"
    /\ pc[r] = "idle" => ans[r] = "none"
    /\ pc[r] \notin {"idle", "done"} => at[r] = "wait"
    /\ pc[r] \in Refreshing => kind[r] \in {"page", "api"} /\ tok[r] # Nobody
    /\ pc[r] \in SigningIn => kind[r] \in {"login", "register"} /\ tok[r] = Nobody
    /\ pc[r] = "logout" => kind[r] = "logout" /\ tok[r] # Nobody
    /\ ans[r] = "tokens" \/ sends[r] = "tokens" => Issued(r)
    /\ tok[r] # Nobody => Issued(tok[r]) /\ at[tok[r]] = "over"
    /\ Travelling(r) => since[r] <= now /\ now <= since[r] + MaxLatency

TokenOK(t) ==
    /\ ~Issued(t) => token[t].family = Nobody /\ row[t] = Absent
    /\ Issued(t) =>
          /\ pc[t] = "done"
          /\ token[t].at <= now
          /\ token[t].family \in Call
          /\ token[token[t].family].family = token[t].family
          /\ tok[t] # Nobody => token[t].family = FamilyOf(t)
          /\ row[t] \in Time => at[t] = "over" /\ row[t] <= now

JarOK == jar.refresh # Nobody => Issued(jar.refresh) /\ at[jar.refresh] = "over"

SessionInv ==
    /\ TypeOK
    /\ \A r \in Call : CallOK(r) /\ TokenOK(r)
    /\ JarOK

-----------------------------------------------------------------------------
(***************************************************************************)
(* Types, and which request a step moves.                                  *)
(***************************************************************************)
\* The steps of one request, at the browser, the app or the API.
CallStep(r) ==
    \/ Navigate(r) \/ ApiRequest(r) \/ SubmitLogin(r) \/ SubmitPasskey(r)
    \/ SubmitConsoleLogin(r) \/ SubmitSignup(r) \/ SubmitLogout(r)
    \/ BackendStep(r)
    \/ FirstCall(r) \/ AfterRefresh(r) \/ Render(r)
    \/ ArriveLogin(r) \/ ArriveSignup(r) \/ ArriveConsoleLogin(r) \/ ArriveLogout(r)
    \/ Arrive(r)
    \/ AnswerLost(r)
    \/ \E a \in {"unreachable", "failed"} : ApiDown(r, a)

LEMMA NextSteps ==
    ASSUME [Next]_vars
    PROVE  \/ \E r \in Call : CallStep(r)
           \/ \E s \in {"active", "suspended"} : StaffSetsStatus(s)
           \/ SeedStaff \/ Tick \/ UNCHANGED vars
BY DEF Next, AllOver, CallStep

\* What a step of another request leaves alone.
Same(q) ==
    /\ at'[q] = at[q] /\ pc'[q] = pc[q] /\ tok'[q] = tok[q] /\ sends'[q] = sends[q]
    /\ kind'[q] = kind[q] /\ ans'[q] = ans[q] /\ since'[q] = since[q] /\ token'[q] = token[q]

\* The parts of TypeOK that the browser and the two apps change, and the parts
\* that the API changes.
Cookies == [access : Call \cup {Nobody}, accessTill : Nat, refresh : Call \cup {Nobody},
            refreshTill : Nat, sessionTill : Nat]

BffTypeOK ==
    /\ app \in {"customer", "console"}
    /\ jar \in Cookies
    /\ page \in {"login", "app"}
    /\ kind \in [Call -> Kinds]
    /\ at \in [Call -> Stages]
    /\ acc \in [Call -> Call \cup {Nobody}]
    /\ sends \in [Call -> {"none", "tokens", "clear"}]
    /\ shows \in [Call -> {"same", "login", "app"}]
    /\ since \in [Call -> Time]
    /\ causes \in [Call -> SUBSET {"logout", "suspended", "lost"}]

\* Issuing a pair keeps the types.
LEMMA IssueType ==
    ASSUME TokenTypeOK, NEW c \in Call, NEW f \in Call, NEW rows \in [Call -> Time \cup {Absent, Unused}],
           IssueTokens(c, f, rows)
    PROVE  TokenTypeOK'
<1>1. [at |-> now, family |-> f] \in [at : Time \cup {Never}, family : Call \cup {Nobody}]
  BY DEF TokenTypeOK
<1> QED
  BY <1>1 DEF TokenTypeOK, IssueTokens, Answer, Places, Answers

\* Every step of a call at the API keeps the types.
LEMMA TokenStepType ==
    ASSUME SessionInv, NEW c \in Call, TokenStep(c)
    PROVE  TokenTypeOK'
<1>0. TokenTypeOK /\ CallOK(c)
  BY DEF SessionInv, TypeOK
<1>1. pc[c] \in Refreshing => tok[c] \in Call /\ FamilyOf(c) \in Call
  <2>1. pc[c] \in Refreshing => Issued(tok[c])
    BY <1>0 DEF CallOK
  <2> QED
    BY <2>1 DEF SessionInv, TokenOK, Issued, FamilyOf
<1>2. pc[c] = "logout" => tok[c] \in Call
  BY <1>0 DEF CallOK, Issued
<1>3. CASE RotateRead(c)
  <2>1. RotateBranch(tok[c]) \in {"rejected", "sibling", "revokeFamily", "dropExpired", "claim"}
    BY DEF RotateBranch
  <2> QED
    BY <1>0, <1>3, <2>1 DEF RotateRead, TokenTypeOK, Answer, GoTo, Places, Issuing, Answers
<1>4. CASE RevokeFamily(c)
  BY <1>0, <1>4 DEF RevokeFamily, TokenTypeOK, Answer, Places, Answers
<1>5. CASE DropExpired(c)
  BY <1>0, <1>5 DEF DropExpired, TokenTypeOK, Answer, Places, Answers
<1>6. CASE Claim(c)
  <2>1. now \in Time
    BY <1>0 DEF TokenTypeOK
  <2>2. [row EXCEPT ![tok[c]] = now] \in [Call -> Time \cup {Absent, Unused}]
    BY <1>0, <2>1 DEF TokenTypeOK
  <2>3. CASE IssueTokens(c, FamilyOf(c), [row EXCEPT ![tok[c]] = now])
    BY <1>0, <1>1, <1>6, <2>2, <2>3, IssueType DEF Claim, Refreshing
  <2>4. CASE GoTo(c, "sibling") /\ UNCHANGED <<now, status, changes, token, row, tok, late>>
    BY <1>0, <2>4 DEF TokenTypeOK, GoTo, Places, Issuing
  <2> QED
    BY <1>6, <2>3, <2>4 DEF Claim
<1>7. CASE Sibling(c)
  BY <1>0, <1>1, <1>7, IssueType DEF Sibling, Refreshing, TokenTypeOK
<1>8. CASE Issue(c)
  BY <1>0, <1>8, IssueType DEF Issue, TokenTypeOK
<1>9. CASE LoginRead(c) \/ RegisterRead(c) \/ CreateWithDefaultWallet(c)
  BY <1>0, <1>9 DEF LoginRead, RegisterRead, CreateWithDefaultWallet, TokenTypeOK, Answer, GoTo,
                    Places, Issuing, Answers
<1>10. CASE Revoke(c)
  BY <1>0, <1>10 DEF Revoke, TokenTypeOK, Answer, Places, Answers
<1> QED
  BY <1>3, <1>4, <1>5, <1>6, <1>7, <1>8, <1>9, <1>10 DEF TokenStep

\* What AfterRefresh makes of the answer: the new cookies exactly for new tokens,
\* and in the customer app nothing but a rejection clears them.
AnswerOutcome(r) ==
    IF kind[r] = "page"
    THEN IF app = "customer" THEN EdgeCustomer(ans[r]) ELSE EdgeConsole(ans[r])
    ELSE IF app = "customer" THEN RouteCustomer(ans[r]) ELSE RouteConsole(ans[r])

LEMMA Outcomes ==
    ASSUME NEW r
    PROVE  LET o == AnswerOutcome(r) IN
           /\ o.cookies \in {"none", "tokens", "clear"} /\ o.stage \in {"render", "answer"}
           /\ o.cookies = "tokens" <=> ans[r] = "tokens"
           /\ o.cookies = "clear" /\ app = "customer" => ans[r] = "rejected"
<1> DEFINE Good(o, a, c) ==
               /\ o.cookies \in {"none", "tokens", "clear"} /\ o.stage \in {"render", "answer"}
               /\ o.cookies = "tokens" <=> a = "tokens"
               /\ o.cookies = "clear" /\ c => a = "rejected"
<1>1. \A x, y : Outcome(x, y).cookies = x /\ Outcome(x, y).stage = y
  BY DEF Outcome
<1>2. \A a : Good(EdgeCustomer(a), a, TRUE) /\ Good(RouteCustomer(a), a, TRUE)
  <2> SUFFICES ASSUME NEW a PROVE Good(EdgeCustomer(a), a, TRUE) /\ Good(RouteCustomer(a), a, TRUE)
    OBVIOUS
  <2>1. CASE a = "tokens"
    BY <1>1, <2>1, Zenon DEF EdgeCustomer, RouteCustomer
  <2>2. CASE a = "rejected"
    BY <1>1, <2>2, Zenon DEF EdgeCustomer, RouteCustomer
  <2>3. CASE a # "tokens" /\ a # "rejected"
    <3>1. EdgeCustomer(a) = Outcome("none", "render") /\ RouteCustomer(a) = Outcome("none", "answer")
      BY <2>3, Zenon DEF EdgeCustomer, RouteCustomer
    <3> QED
      BY <1>1, <2>3, <3>1
  <2> QED
    BY <2>1, <2>2, <2>3
<1>3. \A a : Good(EdgeConsole(a), a, FALSE) /\ Good(RouteConsole(a), a, FALSE)
  <2> SUFFICES ASSUME NEW a PROVE Good(EdgeConsole(a), a, FALSE) /\ Good(RouteConsole(a), a, FALSE)
    OBVIOUS
  <2>1. CASE a = "tokens"
    BY <1>1, <2>1, Zenon DEF EdgeConsole, RouteConsole
  <2>2. CASE a = "unreachable"
    BY <1>1, <2>2, Zenon DEF EdgeConsole, RouteConsole
  <2>3. CASE a # "tokens" /\ a # "unreachable"
    <3>1. EdgeConsole(a) = Outcome("clear", "answer") /\ RouteConsole(a) = Outcome("clear", "answer")
      BY <2>3, Zenon DEF EdgeConsole, RouteConsole
    <3> QED
      BY <1>1, <2>3, <3>1
  <2> QED
    BY <2>1, <2>2, <2>3
<1> QED
  BY <1>2, <1>3 DEF AnswerOutcome

\* The cookie helpers of session.ts keep the types of the cookies.
LEMMA CookieTypes ==
    ASSUME TypeOK, NEW r \in Call
    PROVE  /\ RefreshAuthCookies(jar, r) \in Cookies /\ RefreshAuthCookies(jar, r).refresh = r
           /\ SetAuthCookies(jar, r) \in Cookies /\ SetAuthCookies(jar, r).refresh = r
           /\ ClearAuthCookies \in Cookies /\ ClearAuthCookies.refresh = Nobody
<1>1. jar \in Cookies /\ now \in Nat
  BY DEF TypeOK, TokenTypeOK, Cookies, Time
<1>2. now + ACCESS_TTL \in Nat /\ now + REFRESH_TTL \in Nat
  BY <1>1, TokenAssumption
<1>3. RefreshAuthCookies(jar, r) \in Cookies /\ RefreshAuthCookies(jar, r).refresh = r
  BY <1>1, <1>2 DEF RefreshAuthCookies, Cookies
<1>4. SetAuthCookies(jar, r) \in Cookies /\ SetAuthCookies(jar, r).refresh = r
  BY <1>2, <1>3 DEF SetAuthCookies, Cookies
<1>5. ClearAuthCookies \in Cookies /\ ClearAuthCookies.refresh = Nobody
  BY DEF ClearAuthCookies, NoCookies, Cookies
<1> QED
  BY <1>3, <1>4, <1>5

\* What an answer that arrives leaves in the browser.
LEMMA ArrivalLeaves ==
    ASSUME TypeOK, NEW r \in Call, Arrive(r)
    PROVE  /\ jar' \in Cookies
           /\ page' \in {"login", "app"}
           /\ sends[r] = "tokens" => jar'.refresh = r
           /\ sends[r] # "tokens" => jar'.refresh \in {jar.refresh, Nobody}
<1>1. sends[r] \in {"none", "tokens", "clear"} /\ page \in {"login", "app"} /\ jar \in Cookies
  BY DEF TypeOK, Cookies
<1>2. page' \in {"login", "app"}
  <2>1. CASE shows[r] = "same"
    BY <1>1, <2>1, Zenon DEF Arrive
  <2>2. CASE shows[r] = "app"
    BY <1>1, <2>2, Zenon DEF Arrive
  <2>3. CASE shows[r] # "same" /\ shows[r] # "app"
    <3>1. page' = IF jar'.sessionTill # 0 THEN page ELSE "login"
      BY <2>3, Zenon DEF Arrive
    <3> QED
      BY <1>1, <3>1
  <2> QED
    BY <2>1, <2>2, <2>3
<1>3. jar' = WithAnswer(jar, r)
  BY DEF Arrive
<1>4. CASE sends[r] = "tokens"
  <2>1. jar' = RefreshAuthCookies(jar, r)
    BY <1>3, <1>4, Zenon DEF WithAnswer
  <2> QED
    BY <1>2, <1>4, <2>1, CookieTypes
<1>5. CASE sends[r] = "clear"
  <2>1. jar' = ClearAuthCookies
    BY <1>3, <1>5, Zenon DEF WithAnswer
  <2> QED
    BY <1>2, <1>5, <2>1, CookieTypes
<1>6. CASE sends[r] = "none"
  <2>1. jar' = jar
    BY <1>3, <1>6, Zenon DEF WithAnswer
  <2> QED
    BY <1>1, <1>2, <1>6, <2>1
<1> QED
  BY <1>1, <1>4, <1>5, <1>6

\* What a request may do to the browser and the apps keeps the types.
LEMMA CallStepType ==
    ASSUME SessionInv, NEW r \in Call, CallStep(r)
    PROVE  TypeOK'
<1> SUFFICES TokenTypeOK' /\ BffTypeOK'
  BY DEF TypeOK, BffTypeOK, Cookies
<1>0. TypeOK /\ TokenTypeOK /\ BffTypeOK /\ CallOK(r) /\ JarOK
  BY DEF SessionInv, TypeOK, BffTypeOK, Cookies
<1>1. now \in Time
  BY <1>0 DEF TokenTypeOK
<1>2. ASSUME NEW k \in Kinds, NEW stage \in Stages, Depart(r, k, stage)
      PROVE  /\ kind' \in [Call -> Kinds]
             /\ at' \in [Call -> Stages]
             /\ since' \in [Call -> Time]
  BY <1>0, <1>1, <1>2 DEF Depart, BffTypeOK
<1>3. ASSUME NEW place \in Places, NEW t \in Call \cup {Nobody}, Ask(r, place, t) PROVE TokenTypeOK'
  BY <1>0, <1>3 DEF Ask, TokenTypeOK
<1>4. ASSUME NEW a \in Answers, Answer(r, a), UNCHANGED <<now, status, changes, token, row, tok, late>>
      PROVE  TokenTypeOK'
  BY <1>0, <1>4 DEF Answer, TokenTypeOK, Places
<1>5. UNCHANGED tokenVars => TokenTypeOK'
  BY <1>0 DEF tokenVars, TokenTypeOK
<1>6. jar.refresh \in Call \cup {Nobody} /\ jar.access \in Call \cup {Nobody}
  BY <1>0 DEF BffTypeOK, Cookies
<1>7. CASE Navigate(r)
  BY <1>0, <1>2, <1>3, <1>5, <1>6, <1>7 DEF Navigate, BffTypeOK, Kinds, Stages, Places
<1>8. CASE ApiRequest(r)
  <2>1. TokenTypeOK'
    BY <1>0, <1>6, <1>8 DEF ApiRequest, TokenTypeOK
  <2> QED
    BY <1>0, <1>2, <1>6, <1>8, <2>1 DEF ApiRequest, BffTypeOK, Kinds, Stages
<1>9. CASE SubmitLogin(r) \/ SubmitPasskey(r) \/ SubmitConsoleLogin(r) \/ SubmitSignup(r)
  BY <1>0, <1>2, <1>3, <1>9 DEF SubmitLogin, SubmitPasskey, SubmitConsoleLogin, SubmitSignup,
     LoginDeparts, BffTypeOK, Kinds, Stages, Places
<1>10. CASE SubmitLogout(r)
  <2>1. TokenTypeOK'
    BY <1>3, <1>4, <1>6, <1>10 DEF SubmitLogout, Places, Answers
  <2>2. causes' \in [Call -> SUBSET {"logout", "suspended", "lost"}]
    BY <1>0, <1>10 DEF SubmitLogout, BffTypeOK
  <2>3. /\ kind' \in [Call -> Kinds]
        /\ at' \in [Call -> Stages]
        /\ since' \in [Call -> Time]
    BY <1>2, <1>10 DEF SubmitLogout, Kinds, Stages
  <2> QED
    BY <1>0, <1>10, <2>1, <2>2, <2>3 DEF SubmitLogout, BffTypeOK
<1>11. CASE BackendStep(r)
  BY <1>0, <1>11, TokenStepType DEF BackendStep, bffVars, BffTypeOK
<1>12. CASE FirstCall(r)
  <2>1. tok[r] \in Call \cup {Nobody}
    BY <1>0 DEF TokenTypeOK
  <2>2. TokenTypeOK'
    BY <1>3, <1>5, <1>12, <2>1 DEF FirstCall, Places
  <2> QED
    BY <1>0, <1>12, <2>2 DEF FirstCall, BffTypeOK, Stages
<1>13. CASE AfterRefresh(r)
  BY <1>0, <1>5, <1>13, Outcomes DEF AfterRefresh, AnswerOutcome, BffTypeOK, Stages
<1>14. CASE Render(r)
  BY <1>0, <1>5, <1>14 DEF Render, BffTypeOK, Stages
<1>15. ASSUME Forget(r), jar' \in Cookies, page' \in {"login", "app"}, UNCHANGED <<tokenVars, app, causes>>
       PROVE  TokenTypeOK' /\ BffTypeOK'
  <2>1. 0 \in Time
    BY TokenAssumption DEF Time
  <2> QED
    BY <1>0, <1>5, <1>15, <2>1 DEF Forget, BffTypeOK, Kinds, Stages
<1>16. CASE ArriveLogin(r) \/ ArriveSignup(r) \/ ArriveConsoleLogin(r)
  <2>1. jar' \in Cookies /\ page' \in {"login", "app"}
    BY <1>0, <1>16, CookieTypes DEF ArriveLogin, ArriveSignup, ArriveConsoleLogin, SignInArrives, BffTypeOK
  <2> QED
    BY <1>15, <1>16, <2>1 DEF ArriveLogin, ArriveSignup, ArriveConsoleLogin, SignInArrives
<1>17. CASE ArriveLogout(r)
  BY <1>0, <1>15, <1>17, CookieTypes DEF ArriveLogout
<1>18. CASE Arrive(r)
  BY <1>0, <1>15, <1>18, ArrivalLeaves DEF Arrive
<1>19. CASE AnswerLost(r)
  <2>1. causes' \in [Call -> SUBSET {"logout", "suspended", "lost"}]
    BY <1>0, <1>19 DEF AnswerLost, BffTypeOK
  <2> QED
    BY <1>0, <1>4, <1>19, <2>1 DEF AnswerLost, BffTypeOK, Answers
<1>20. ASSUME NEW a \in {"unreachable", "failed"}, ApiDown(r, a)
       PROVE  TokenTypeOK' /\ BffTypeOK'
  BY <1>0, <1>4, <1>20 DEF ApiDown, BffTypeOK, bffVars, Answers
<1> QED
  BY <1>7, <1>8, <1>9, <1>10, <1>11, <1>12, <1>13, <1>14, <1>16, <1>17, <1>18, <1>19, <1>20 DEF CallStep

-----------------------------------------------------------------------------
(***************************************************************************)
(* Where requests, tokens and cookies are.                                 *)
(***************************************************************************)
\* A step of request r moves no other request and takes no time.
LEMMA OneCallMoves ==
    ASSUME TypeOK, NEW r \in Call, CallStep(r)
    PROVE  now' = now /\ \A q \in Call : q # r => Same(q)
<1>0. TokenTypeOK
  BY DEF TypeOK
<1>1. CASE \/ Navigate(r) \/ ApiRequest(r) \/ SubmitLogin(r) \/ SubmitPasskey(r)
           \/ SubmitConsoleLogin(r) \/ SubmitSignup(r) \/ SubmitLogout(r)
  BY <1>0, <1>1 DEF Navigate, ApiRequest, SubmitLogin, SubmitPasskey, SubmitConsoleLogin, SubmitSignup,
     LoginDeparts, SubmitLogout, Depart, Ask, Answer, Same, TypeOK, TokenTypeOK, tokenVars
<1>2. CASE BackendStep(r)
  <2>1. /\ at' = at /\ sends' = sends /\ kind' = kind /\ since' = since
        /\ tok' = tok /\ now' = now
    BY <1>2 DEF BackendStep, bffVars, TokenStep, RotateRead, RevokeFamily, DropExpired, Claim, Sibling,
       LoginRead, Issue, RegisterRead, CreateWithDefaultWallet, Revoke, IssueTokens
  <2>2. ASSUME NEW q \in Call, q # r
        PROVE  pc'[q] = pc[q] /\ ans'[q] = ans[q] /\ token'[q] = token[q]
    BY <1>0, <1>2, <2>2 DEF BackendStep, TokenStep, RotateRead, RevokeFamily, DropExpired, Claim, Sibling,
       LoginRead, Issue, RegisterRead, CreateWithDefaultWallet, Revoke, IssueTokens, GoTo, Answer, TokenTypeOK
  <2> QED
    BY <2>1, <2>2 DEF Same
<1>3. CASE FirstCall(r) \/ AfterRefresh(r) \/ Render(r)
  BY <1>0, <1>3 DEF FirstCall, AfterRefresh, Render, Ask, Same, TypeOK, TokenTypeOK, tokenVars
<1>4. CASE ArriveLogin(r) \/ ArriveSignup(r) \/ ArriveConsoleLogin(r) \/ ArriveLogout(r) \/ Arrive(r)
  BY <1>4 DEF ArriveLogin, ArriveSignup, ArriveConsoleLogin, ArriveLogout, Arrive, SignInArrives,
     Forget, Same, TypeOK, tokenVars
<1>5. CASE AnswerLost(r) \/ \E a \in {"unreachable", "failed"} : ApiDown(r, a)
  BY <1>0, <1>5 DEF AnswerLost, ApiDown, Answer, Same, TokenTypeOK, bffVars
<1> QED
  BY <1>1, <1>2, <1>3, <1>4, <1>5 DEF CallStep

\* A pair that was issued stays what it is.
TokensStay == \A t \in Call : Issued(t) => token'[t] = token[t]

\* A row becomes used only now, and only of a token that reached the browser.
RowsStep ==
    \A t \in Call : /\ row'[t] \in Time => row'[t] = row[t] \/ (row'[t] = now /\ Issued(t) /\ at[t] = "over")
                    /\ row[t] = Absent /\ row'[t] # Absent => token'[t].at # Never

\* Enough for a step of request r to leave everything in place.
LEMMA InPlaceSuffices ==
    ASSUME SessionInv, TypeOK', NEW r \in Call, now' = now, \A q \in Call : q # r => Same(q),
           TokensStay, RowsStep, at[r] = "over" => at'[r] = "over",
           CallOK(r)', TokenOK(r)',
           jar'.refresh \in {jar.refresh, Nobody} \/ (jar'.refresh = r /\ Issued(r)' /\ at'[r] = "over")
    PROVE  SessionInv'
<1>0. \A q \in Call : CallOK(q) /\ TokenOK(q)
  BY DEF SessionInv
<1>1. \A t \in Call : Issued(t) => Issued(t)'
  BY DEF TokensStay, Issued
<1>2. \A t \in Call : at[t] = "over" => at'[t] = "over"
  BY DEF Same
<1>3. Nobody \notin Call /\ now \in Nat
  BY TokenAssumption DEF SessionInv, TypeOK, TokenTypeOK, Time
<1>4. ASSUME NEW q \in Call, q # r PROVE CallOK(q)'
  BY <1>0, <1>1, <1>2, <1>4 DEF CallOK, Same, Issued, Travelling
<1>5. ASSUME NEW t \in Call, t # r PROVE TokenOK(t)'
  <2>1. Same(t) /\ TokenOK(t)
    BY <1>0, <1>5
  <2>2. CASE ~Issued(t)
    BY <2>1, <2>2 DEF TokenOK, Same, RowsStep, Issued
  <2>3. CASE Issued(t)
    <3>1. Issued(token[t].family)
      BY <1>0, <1>3, <2>1, <2>3 DEF TokenOK, Issued
    <3>2. tok[t] # Nobody => Issued(tok[t]) /\ FamilyOf(t)' = FamilyOf(t)
      BY <1>0, <2>1 DEF CallOK, Same, FamilyOf, TokensStay, Issued
    <3>3. token'[t] = token[t] /\ token'[token[t].family] = token[token[t].family]
      BY <2>3, <3>1 DEF TokensStay, Issued
    <3>4. row'[t] \in Time => at'[t] = "over" /\ row'[t] <= now
      BY <1>2, <1>3, <2>1, <2>3 DEF TokenOK, Same, RowsStep
    <3> QED
      BY <2>1, <2>3, <3>2, <3>3, <3>4 DEF TokenOK, Same, Issued
  <2> QED
    BY <2>2, <2>3
<1>6. JarOK'
  <2>1. JarOK
    BY DEF SessionInv
  <2> QED
    BY <1>1, <1>2, <2>1 DEF JarOK, Issued
<1> QED
  BY <1>4, <1>5, <1>6 DEF SessionInv

\* A step of request r that issues nothing and touches no row.
LEMMA QuietSuffices ==
    ASSUME SessionInv, NEW r \in Call, CallStep(r), token' = token, row' = row,
           pc[r] = "done" => pc'[r] = "done" /\ tok'[r] = tok[r],
           at[r] = "over" => at'[r] = "over",
           CallOK(r)',
           jar'.refresh \in {jar.refresh, Nobody} \/ (jar'.refresh = r /\ Issued(r) /\ at'[r] = "over")
    PROVE  SessionInv'
<1>0. TypeOK /\ TypeOK' /\ TokenOK(r) /\ CallOK(r) /\ now' = now /\ \A q \in Call : q # r => Same(q)
  BY CallStepType, OneCallMoves DEF SessionInv
<1>1. TokensStay /\ RowsStep
  BY DEF TokensStay, RowsStep
<1>2. TokenOK(r)'
  BY <1>0 DEF TokenOK, Issued, FamilyOf
<1> QED
  BY <1>0, <1>1, <1>2, InPlaceSuffices DEF Issued

\* A request that leaves the browser takes only tokens that reached it.
LEMMA DepartInPlace ==
    ASSUME SessionInv, NEW r \in Call,
           \/ Navigate(r) \/ ApiRequest(r) \/ SubmitLogin(r) \/ SubmitPasskey(r)
           \/ SubmitConsoleLogin(r) \/ SubmitSignup(r) \/ SubmitLogout(r)
    PROVE  SessionInv'
<1>0. TypeOK /\ TokenTypeOK /\ CallOK(r) /\ TokenOK(r) /\ JarOK /\ CallStep(r)
  BY DEF SessionInv, TypeOK, CallStep
<1>1. /\ now \in Nat /\ MaxLatency \in Nat /\ Nobody \notin Call
      /\ at[r] = "idle" /\ pc[r] = "idle" /\ ans[r] = "none" /\ sends[r] = "none" /\ tok[r] = Nobody
      /\ ~Issued(r)
  <2>1. at[r] = "idle"
    BY DEF Navigate, ApiRequest, SubmitLogin, SubmitPasskey, SubmitConsoleLogin, SubmitSignup, LoginDeparts,
           SubmitLogout, Depart
  <2> QED
    BY <1>0, <2>1, LatencyAssumption, TokenAssumption DEF CallOK, TokenOK, TokenTypeOK, Time
<1>2. jar.refresh # Nobody => jar.refresh # r /\ jar.refresh \in Call
  BY <1>0, <1>1 DEF JarOK, Issued
<1>3. ASSUME NEW k, NEW stage, Depart(r, k, stage)
      PROVE  /\ kind'[r] = k /\ at'[r] = stage /\ since'[r] = now
             /\ \A q \in Call : q # r => at'[q] = at[q]
  BY <1>0, <1>3 DEF Depart, TypeOK
<1>4. token' = token /\ row' = row /\ sends' = sends /\ jar' = jar /\ now' = now
  BY DEF Navigate, ApiRequest, SubmitLogin, SubmitPasskey, SubmitConsoleLogin, SubmitSignup, LoginDeparts,
         SubmitLogout, Ask, tokenVars
<1>5. ASSUME NEW k, NEW stage, Depart(r, k, stage), stage \notin {"idle", "over"},
             pc'[r] \in {"idle", "done"}, tok'[r] \in {jar.refresh, Nobody}, ans'[r] \in {"none", "ok"},
             pc'[r] = "idle" => ans'[r] = "none",
             stage = "first" => k = "api" /\ pc'[r] = "idle"
      PROVE  CallOK(r)'
  BY <1>0, <1>1, <1>2, <1>3, <1>4, <1>5 DEF CallOK, JarOK, Issued, Travelling, Refreshing, SigningIn
<1>6. ASSUME NEW k, NEW place, NEW t, Depart(r, k, "wait"), Ask(r, place, t),
             \/ k = "page" /\ place = "rotate" /\ t = jar.refresh /\ t # Nobody
             \/ k \in {"login", "register"} /\ place \in {"login", "register"} /\ t = Nobody
             \/ k = "logout" /\ place = "logout" /\ t = jar.refresh /\ t # Nobody
      PROVE  CallOK(r)'
  <2>1. pc'[r] = place /\ tok'[r] = t /\ ans' = ans
    BY <1>0, <1>6 DEF Ask, TokenTypeOK
  <2> QED
    BY <1>0, <1>1, <1>2, <1>3, <1>4, <1>6, <2>1
       DEF CallOK, JarOK, Issued, Travelling, Refreshing, SigningIn
<1>7. CallOK(r)'
  <2>1. CASE Navigate(r)
    <3>1. CASE ProxyDecision = "refresh"
      <4>1. jar.refresh # Nobody
        BY <3>1, Zenon DEF ProxyDecision
      <4> QED
        BY <1>6, <2>1, <3>1, <4>1 DEF Navigate
    <3>2. CASE ProxyDecision # "refresh"
      BY <1>1, <1>5, <2>1, <3>2 DEF Navigate, tokenVars
    <3> QED
      BY <3>1, <3>2
  <2>2. CASE ApiRequest(r)
    <3>1. pc' = pc /\ ans' = ans /\ tok'[r] = jar.refresh /\ Depart(r, "api", "first")
      BY <1>0, <2>2 DEF ApiRequest, TokenTypeOK
    <3> QED
      BY <1>1, <1>5, <3>1
  <2>3. CASE SubmitLogin(r) \/ SubmitPasskey(r) \/ SubmitConsoleLogin(r) \/ SubmitSignup(r)
    BY <1>6, <2>3 DEF SubmitLogin, SubmitPasskey, SubmitConsoleLogin, SubmitSignup, LoginDeparts
  <2>4. CASE SubmitLogout(r)
    <3>1. CASE jar.refresh = Nobody
      <4>1. pc'[r] = "done" /\ ans'[r] = "ok" /\ tok' = tok /\ Depart(r, "logout", "wait")
        BY <1>0, <2>4, <3>1 DEF SubmitLogout, Answer, TokenTypeOK
      <4> QED
        BY <1>1, <1>5, <4>1
    <3>2. CASE jar.refresh # Nobody
      BY <1>6, <2>4, <3>2 DEF SubmitLogout
    <3> QED
      BY <3>1, <3>2
  <2> QED
    BY <2>1, <2>2, <2>3, <2>4
<1> QED
  BY <1>0, <1>1, <1>4, <1>7, QuietSuffices

\* A call at the API issues at most one pair, for a token that reached the browser.
LEMMA BackendInPlace ==
    ASSUME SessionInv, NEW r \in Call, BackendStep(r)
    PROVE  SessionInv'
<1>0. /\ TypeOK /\ TokenTypeOK /\ TypeOK' /\ CallOK(r) /\ TokenOK(r) /\ CallStep(r) /\ TokenStep(r)
      /\ now' = now /\ \A q \in Call : q # r => Same(q)
  BY CallStepType, OneCallMoves DEF SessionInv, TypeOK, CallStep, BackendStep
<1>1. /\ at' = at /\ kind' = kind /\ sends' = sends /\ since' = since /\ jar' = jar /\ tok' = tok
      /\ now \in Time /\ Nobody \notin Call
  BY <1>0, TokenAssumption DEF BackendStep, bffVars, TokenStep, RotateRead, RevokeFamily, DropExpired, Claim, Sibling,
     LoginRead, Issue, RegisterRead, CreateWithDefaultWallet, Revoke, IssueTokens, TokenTypeOK
<1>2. pc[r] \in Refreshing \cup SigningIn \cup {"logout"} /\ at[r] = "wait" /\ sends[r] = "none" /\ ~Issued(r)
  <2>1. pc[r] \in Refreshing \cup SigningIn \cup {"logout"}
    BY <1>0 DEF TokenStep, RotateRead, RevokeFamily, DropExpired, Claim, Sibling,
       LoginRead, Issue, RegisterRead, CreateWithDefaultWallet, Revoke, Refreshing, SigningIn
  <2> QED
    BY <1>0, <2>1 DEF CallOK, TokenOK, Refreshing, SigningIn
<1>3. tok[r] # Nobody => Issued(tok[r]) /\ at[tok[r]] = "over" /\ tok[r] # r /\ TokenOK(tok[r])
  BY <1>0, <1>2 DEF CallOK, SessionInv, Issued
<1>4. ASSUME token' = token, row' = row, pc'[r] \in Refreshing \cup SigningIn \cup {"done"},
             pc'[r] \in Refreshing => pc[r] \in Refreshing,
             pc'[r] \in SigningIn => pc[r] \in SigningIn, ans'[r] # "tokens"
      PROVE  SessionInv'
  <2>1. CallOK(r)'
    BY <1>0, <1>1, <1>2, <1>3, <1>4 DEF CallOK, Issued, Travelling, Refreshing, SigningIn
  <2> QED
    BY <1>0, <1>1, <1>2, <1>4, <2>1, QuietSuffices DEF Refreshing, SigningIn
<1>5. ASSUME token' = token, \A t \in Call : row'[t] \in {row[t], Absent}, Answer(r, ans'[r]), ans'[r] # "tokens"
      PROVE  SessionInv'
  <2>1. pc'[r] = "done"
    BY <1>0, <1>5 DEF Answer, TokenTypeOK
  <2>2. CallOK(r)'
    BY <1>0, <1>1, <1>2, <1>3, <1>5, <2>1 DEF CallOK, Issued, Travelling, Refreshing, SigningIn
  <2>3. TokensStay /\ RowsStep
    BY <1>1, <1>5 DEF TokensStay, RowsStep, Time, Absent
  <2>4. TokenOK(r)'
    BY <1>0, <1>2, <1>5 DEF TokenOK, Issued
  <2> QED
    BY <1>0, <1>1, <2>2, <2>3, <2>4, InPlaceSuffices
<1>6. ASSUME NEW f \in Call, NEW rows, IssueTokens(r, f, rows),
             rows \in [Call -> Time \cup {Absent, Unused}],
             \A t \in Call : \/ rows[t] = row[t]
                             \/ (t = tok[r] /\ rows[t] = now),
             f = r \/ token[f].family = f,
             tok[r] # Nobody => f = FamilyOf(r)
      PROVE  SessionInv'
  <2>1. /\ token' = [token EXCEPT ![r] = [at |-> now, family |-> f]]
        /\ row' = [rows EXCEPT ![r] = Unused]
        /\ pc'[r] = "done" /\ ans'[r] = "tokens"
    BY <1>0, <1>6 DEF IssueTokens, Answer, TokenTypeOK
  <2>2. /\ token'[r].at = now /\ token'[r].family = f /\ row'[r] = Unused
        /\ \A t \in Call : t # r => token'[t] = token[t] /\ row'[t] = rows[t]
    BY <1>0, <1>6, <2>1 DEF TokenTypeOK
  <2>3. now \in Nat /\ Never \notin Nat /\ Unused \notin Time /\ Absent \notin Time /\ now # Absent
    BY <1>1 DEF Never, Unused, Absent, Time
  <2>4. TokensStay /\ RowsStep
    BY <1>1, <1>2, <1>3, <1>6, <2>2, <2>3 DEF TokensStay, RowsStep, Issued
  <2>5. Issued(r)' /\ token'[f].family = f
    BY <1>2, <1>6, <2>2, <2>3 DEF Issued
  <2>6. tok[r] # Nobody => token'[tok[r]] = token[tok[r]]
    BY <1>3, <2>2 DEF Issued
  <2>7. TokenOK(r)'
    BY <1>0, <1>1, <1>6, <2>1, <2>2, <2>3, <2>5, <2>6 DEF TokenOK, FamilyOf
  <2>8. CallOK(r)'
    BY <1>0, <1>1, <1>2, <1>3, <2>1, <2>5, <2>6 DEF CallOK, Issued, Travelling, Refreshing, SigningIn
  <2> QED
    BY <1>0, <1>1, <1>2, <2>4, <2>7, <2>8, InPlaceSuffices
<1>7. pc[r] \in Refreshing => tok[r] \in Call /\ FamilyOf(r) \in Call /\ token[FamilyOf(r)].family = FamilyOf(r)
  BY <1>0, <1>3 DEF CallOK, TokenOK, FamilyOf, Issued
<1>8. ans[r] # "tokens"
  BY <1>0, <1>2 DEF CallOK
<1>9. CASE RotateRead(r) \/ LoginRead(r) \/ RegisterRead(r) \/ CreateWithDefaultWallet(r)
  <2>1. RotateBranch(tok[r]) \in {"rejected", "sibling", "revokeFamily", "dropExpired", "claim"}
    BY DEF RotateBranch
  <2>2. token' = token /\ row' = row
    BY <1>9 DEF RotateRead, LoginRead, RegisterRead, CreateWithDefaultWallet
  <2>3. ans'[r] # "tokens"
    BY <1>0, <1>8, <1>9, <2>1
       DEF RotateRead, LoginRead, RegisterRead, CreateWithDefaultWallet, GoTo, Answer, TokenTypeOK
  <2>4. CASE RotateRead(r)
    <3>1. pc[r] = "rotate" /\ pc'[r] \in Refreshing \cup {"done"}
      BY <1>0, <2>1, <2>4 DEF RotateRead, GoTo, Answer, TokenTypeOK, Refreshing
    <3> QED
      BY <1>4, <2>2, <2>3, <3>1 DEF Refreshing, SigningIn
  <2>5. CASE LoginRead(r) \/ RegisterRead(r) \/ CreateWithDefaultWallet(r)
    <3>1. pc[r] \in SigningIn /\ pc'[r] \in SigningIn \cup {"done"}
      BY <1>0, <2>5 DEF LoginRead, RegisterRead, CreateWithDefaultWallet, GoTo, Answer, TokenTypeOK, SigningIn
    <3> QED
      BY <1>4, <2>2, <2>3, <3>1 DEF Refreshing, SigningIn
  <2> QED
    BY <1>9, <2>4, <2>5
<1>10. CASE RevokeFamily(r) \/ DropExpired(r) \/ Revoke(r)
  <2>1. token' = token /\ \A t \in Call : row'[t] \in {row[t], Absent}
    BY <1>0, <1>10 DEF RevokeFamily, DropExpired, Revoke, TokenTypeOK
  <2>2. Answer(r, ans'[r]) /\ ans'[r] # "tokens"
    BY <1>0, <1>10 DEF RevokeFamily, DropExpired, Revoke, Answer, TokenTypeOK
  <2> QED
    BY <1>5, <2>1, <2>2
<1>11. CASE Claim(r)
  <2>1. pc[r] = "claim" /\ tok[r] \in Call
    BY <1>7, <1>11 DEF Claim, Refreshing
  <2>2. CASE IssueTokens(r, FamilyOf(r), [row EXCEPT ![tok[r]] = now])
    <3> DEFINE rows == [row EXCEPT ![tok[r]] = now]
    <3>1. /\ rows \in [Call -> Time \cup {Absent, Unused}]
          /\ \A t \in Call : rows[t] = row[t] \/ (t = tok[r] /\ rows[t] = now)
      BY <1>0, <1>1, <2>1 DEF TokenTypeOK
    <3>2. FamilyOf(r) \in Call /\ token[FamilyOf(r)].family = FamilyOf(r)
      BY <1>7, <2>1 DEF Refreshing
    <3> HIDE DEF rows
    <3> QED
      BY <1>6, <2>2, <3>1, <3>2 DEF rows
  <2>3. CASE GoTo(r, "sibling") /\ UNCHANGED <<now, status, changes, token, row, tok, late>>
    <3>1. pc'[r] = "sibling" /\ ans' = ans
      BY <1>0, <2>3 DEF GoTo, TokenTypeOK
    <3> QED
      BY <1>4, <1>8, <2>1, <2>3, <3>1 DEF Refreshing, SigningIn
  <2> QED
    BY <1>11, <2>2, <2>3 DEF Claim
<1>12. CASE Sibling(r)
  BY <1>0, <1>6, <1>7, <1>12 DEF Sibling, TokenTypeOK, Refreshing
<1>13. CASE Issue(r)
  <2>1. tok[r] = Nobody
    BY <1>0, <1>13 DEF Issue, CallOK, SigningIn
  <2> QED
    BY <1>0, <1>6, <1>13, <2>1 DEF Issue, TokenTypeOK
<1> QED
  BY <1>0, <1>9, <1>10, <1>11, <1>12, <1>13 DEF TokenStep

\* What the apps and the browser do with an answer: only a pair that arrives
\* puts a new token into the cookies.
LEMMA FrontInPlace ==
    ASSUME SessionInv, NEW r \in Call, CallStep(r), ~BackendStep(r),
           ~(\/ Navigate(r) \/ ApiRequest(r) \/ SubmitLogin(r) \/ SubmitPasskey(r)
             \/ SubmitConsoleLogin(r) \/ SubmitSignup(r) \/ SubmitLogout(r))
    PROVE  SessionInv'
<1>0. TypeOK /\ TokenTypeOK /\ CallOK(r) /\ TokenOK(r)
  BY DEF SessionInv, TypeOK
<1>1. now \in Nat /\ now' = now /\ Nobody \notin Call
  BY <1>0, OneCallMoves, TokenAssumption DEF TokenTypeOK, Time
<1>2. tok[r] # Nobody => tok[r] # r \/ at[r] = "over"
  BY <1>0 DEF CallOK
<1>3. ASSUME UNCHANGED tokenVars, jar'.refresh = jar.refresh, kind' = kind, since' = since,
             Travelling(r), at[r] # "idle",
             at'[r] \in {"render", "answer"}, pc[r] \in {"idle", "done"},
             \A q \in Call : q # r => at'[q] = at[q],
             sends'[r] = "tokens" => Issued(r), at[r] \notin {"idle", "over"}
      PROVE  SessionInv'
  <2>1. /\ token' = token /\ row' = row /\ pc' = pc /\ tok' = tok /\ ans' = ans
    BY <1>3 DEF tokenVars
  <2>2. CallOK(r)'
    BY <1>0, <1>1, <1>2, <1>3, <2>1 DEF CallOK, Issued, Travelling, Refreshing, SigningIn
  <2> QED
    BY <1>0, <1>3, <2>1, <2>2, QuietSuffices
<1>4. CASE FirstCall(r)
  <2>1. at[r] = "first" /\ pc[r] = "idle" /\ kind[r] = "api" /\ sends' = sends /\ sends[r] = "none"
    BY <1>0, <1>4 DEF FirstCall, CallOK
  <2>2. CASE at' = [at EXCEPT ![r] = "answer"] /\ UNCHANGED tokenVars
    BY <1>0, <1>3, <1>4, <2>1, <2>2 DEF FirstCall, TypeOK, Travelling
  <2>3. CASE tok[r] # Nobody /\ at' = [at EXCEPT ![r] = "wait"] /\ Ask(r, "rotate", tok[r])
    <3>1. /\ token' = token /\ row' = row /\ pc'[r] = "rotate" /\ tok' = tok /\ ans' = ans
          /\ jar' = jar /\ kind' = kind /\ since' = since /\ at'[r] = "wait"
          /\ \A q \in Call : q # r => at'[q] = at[q]
      BY <1>0, <1>4, <2>3 DEF FirstCall, Ask, TypeOK, TokenTypeOK
    <3>2. CallOK(r)'
      BY <1>0, <1>1, <1>2, <2>1, <2>3, <3>1 DEF CallOK, Issued, Travelling, Refreshing, SigningIn
    <3> QED
      BY <2>1, <3>1, <3>2, QuietSuffices
  <2> QED
    BY <1>4, <2>2, <2>3 DEF FirstCall
<1>5. CASE AfterRefresh(r)
  <2>1. at[r] = "wait" /\ pc[r] = "done" /\ (ans[r] = "tokens" => Issued(r))
    BY <1>0, <1>5 DEF AfterRefresh, CallOK
  <2>2. /\ sends'[r] = "tokens" => ans[r] = "tokens"
        /\ at'[r] \in {"render", "answer"} /\ \A q \in Call : q # r => at'[q] = at[q]
    BY <1>0, <1>5, Outcomes DEF AfterRefresh, AnswerOutcome, TypeOK
  <2> QED
    BY <1>3, <1>5, <2>1, <2>2 DEF AfterRefresh, Travelling
<1>6. CASE Render(r)
  <2>1. at[r] = "render" /\ pc[r] \in {"idle", "done"} /\ sends' = sends
    BY <1>0, <1>6 DEF Render, CallOK
  <2>2. at'[r] = "answer" /\ \A q \in Call : q # r => at'[q] = at[q]
    BY <1>0, <1>6 DEF Render, TypeOK
  <2> QED
    BY <1>0, <1>3, <1>6, <2>1, <2>2 DEF Render, Travelling, CallOK
<1>7. ASSUME Forget(r), UNCHANGED tokenVars, pc[r] \in {"idle", "done"}, at[r] \notin {"idle", "over"},
             jar'.refresh \in {jar.refresh, Nobody} \/ (jar'.refresh = r /\ Issued(r))
      PROVE  SessionInv'
  <2>1. /\ kind'[r] = "none" /\ at'[r] = "over" /\ sends'[r] = "none"
        /\ \A q \in Call : q # r => at'[q] = at[q]
    BY <1>0, <1>7 DEF Forget, TypeOK
  <2>2. token' = token /\ row' = row /\ pc' = pc /\ tok' = tok /\ ans' = ans
    BY <1>7 DEF tokenVars
  <2>3. CallOK(r)'
    BY <1>0, <1>2, <1>7, <2>1, <2>2 DEF CallOK, Issued, Travelling, Refreshing, SigningIn
  <2> QED
    BY <1>7, <2>1, <2>2, <2>3, QuietSuffices
<1>8. CASE ArriveLogin(r) \/ ArriveSignup(r) \/ ArriveConsoleLogin(r)
  <2>1. /\ at[r] = "wait" /\ pc[r] = "done" /\ Forget(r) /\ UNCHANGED tokenVars
        /\ IF ans[r] = "tokens" THEN jar' = SetAuthCookies(jar, r) ELSE jar' = jar
    BY <1>8 DEF ArriveLogin, ArriveSignup, ArriveConsoleLogin, SignInArrives
  <2> QED
    BY <1>0, <1>7, <2>1, CookieTypes DEF CallOK
<1>9. CASE ArriveLogout(r)
  BY <1>0, <1>7, <1>9, CookieTypes DEF ArriveLogout
<1>10. CASE Arrive(r)
  <2>1. at[r] = "answer" /\ pc[r] \in {"idle", "done"}
    BY <1>0, <1>10 DEF Arrive, CallOK
  <2> QED
    BY <1>0, <1>7, <1>10, <2>1, ArrivalLeaves DEF Arrive, CallOK
<1>11. ASSUME NEW a, Answer(r, a), a # "tokens", at[r] = "wait",
              token' = token, row' = row, tok' = tok, at' = at, sends' = sends, jar' = jar,
              kind' = kind, since' = since
       PROVE  SessionInv'
  <2>1. pc'[r] = "done" /\ ans'[r] = a
    BY <1>0, <1>11 DEF Answer, TokenTypeOK
  <2>2. CallOK(r)'
    BY <1>0, <1>1, <1>2, <1>11, <2>1 DEF CallOK, Issued, Travelling, Refreshing, SigningIn
  <2> QED
    BY <1>11, <2>1, <2>2, QuietSuffices
<1>12. CASE AnswerLost(r) \/ \E a \in {"unreachable", "failed"} : ApiDown(r, a)
  BY <1>11, <1>12 DEF AnswerLost, ApiDown, bffVars
<1> QED
  BY <1>4, <1>5, <1>6, <1>8, <1>9, <1>10, <1>12 DEF CallStep

\* Staff and time.
LEMMA WorldInPlace ==
    ASSUME SessionInv, SeedStaff \/ Tick \/ \E s \in {"active", "suspended"} : StaffSetsStatus(s)
    PROVE  SessionInv'
<1>0. TypeOK /\ TokenTypeOK /\ JarOK /\ \A r \in Call : CallOK(r) /\ TokenOK(r)
  BY DEF SessionInv, TypeOK
<1>1. now \in Nat /\ MaxTime \in Nat /\ MaxLatency \in Nat /\ Nobody \notin Call
  BY <1>0, TokenAssumption, LatencyAssumption DEF TokenTypeOK, Time
<1>2. /\ token' = token /\ pc' = pc /\ tok' = tok /\ ans' = ans
      /\ kind' = kind /\ at' = at /\ sends' = sends /\ since' = since
      /\ \A t \in Call : row'[t] \in {row[t], Absent}
      /\ jar'.refresh \in {jar.refresh, Nobody}
  <2>1. CASE Tick
    BY <2>1 DEF Tick
  <2>2. CASE SeedStaff
    BY <2>2 DEF SeedStaff, bffVars
  <2>3. ASSUME NEW s \in {"active", "suspended"}, StaffSetsStatus(s)
        PROVE  /\ token' = token /\ pc' = pc /\ tok' = tok /\ ans' = ans
               /\ kind' = kind /\ at' = at /\ sends' = sends /\ since' = since
               /\ \A t \in Call : row'[t] \in {row[t], Absent}
               /\ jar'.refresh \in {jar.refresh, Nobody}
    BY <2>3 DEF StaffSetsStatus, UpdateStatus
  <2> QED
    BY <2>1, <2>2, <2>3
<1>3. now' \in Time /\ now <= now' /\ \A r \in Call : Travelling(r) => now' <= since[r] + MaxLatency
  <2>1. CASE Tick
    <3>1. now' = now + 1 /\ now < MaxTime
      BY <2>1 DEF Tick
    <3>2. ASSUME NEW r \in Call, Travelling(r) PROVE now' <= since[r] + MaxLatency
      <4>1. since[r] \in Nat /\ now < since[r] + MaxLatency
        BY <1>0, <2>1, <3>2 DEF Tick, Travelling, TypeOK, Time
      <4> QED
        BY <1>1, <3>1, <4>1
    <3> QED
      BY <1>0, <1>1, <3>1, <3>2 DEF Time
  <2>2. CASE now' = now
    BY <1>0, <1>1, <2>2 DEF TokenTypeOK, CallOK
  <2> QED
    BY <2>1, <2>2 DEF SeedStaff, StaffSetsStatus, UpdateStatus
<1>4. TypeOK'
  <2>1. CASE Tick
    <3>1. /\ status' = status /\ changes' = changes /\ row' = row /\ late' = late
          /\ app' = app /\ page' = page /\ acc' = acc /\ shows' = shows /\ causes' = causes
      BY <2>1 DEF Tick
    <3>2. jar' \in Cookies
      BY <1>0, <2>1 DEF Tick, TypeOK, Cookies
    <3> QED
      BY <1>0, <1>2, <1>3, <3>1, <3>2 DEF TypeOK, TokenTypeOK, Cookies
  <2>2. CASE SeedStaff
    BY <1>0, <1>2, <1>3, <2>2 DEF SeedStaff, bffVars, TypeOK, TokenTypeOK
  <2>3. ASSUME NEW s \in {"active", "suspended"}, StaffSetsStatus(s) PROVE TypeOK'
    <3>1. TokenTypeOK'
      BY <1>0, <2>3, TokenAssumption DEF StaffSetsStatus, UpdateStatus, TokenTypeOK
    <3>2. causes' \in [Call -> SUBSET {"logout", "suspended", "lost"}]
      BY <1>0, <2>3 DEF StaffSetsStatus, TypeOK
    <3> QED
      BY <1>0, <2>3, <3>1, <3>2 DEF StaffSetsStatus, TypeOK
  <2> QED
    BY <2>1, <2>2, <2>3
<1>5. ASSUME NEW r \in Call PROVE CallOK(r)'
  <2>1. Travelling(r) => since[r] <= now'
    BY <1>0, <1>1, <1>3 DEF CallOK, TypeOK, Time
  <2> QED
    BY <1>0, <1>2, <1>3, <2>1 DEF CallOK, Issued, Travelling, Refreshing, SigningIn
<1>6. ASSUME NEW t \in Call PROVE TokenOK(t)'
  <2>1. Issued(t) => token[t].at <= now' /\ token[t].at \in Nat
    BY <1>0, <1>1, <1>3 DEF TokenOK, Issued, TokenTypeOK, Time, Never
  <2>2. row'[t] \in Time => row'[t] = row[t] /\ (row[t] <= now => row[t] <= now')
    BY <1>1, <1>2, <1>3 DEF Time, Absent
  <2>3. ~Issued(t) => row'[t] = Absent
    BY <1>0, <1>2 DEF TokenOK
  <2> QED
    BY <1>0, <1>2, <2>1, <2>2, <2>3 DEF TokenOK, Issued, FamilyOf
<1>7. JarOK'
  BY <1>0, <1>2 DEF JarOK, Issued
<1> QED
  BY <1>4, <1>5, <1>6, <1>7 DEF SessionInv

\* The invariant of every proof below: types, where each request is, what each
\* token says, and what the cookies hold.
LEMMA StaysInPlace == SessionInv /\ [Next]_vars => SessionInv'
<1> SUFFICES ASSUME SessionInv, [Next]_vars PROVE SessionInv'
  OBVIOUS
<1>1. ASSUME NEW r \in Call, CallStep(r) PROVE SessionInv'
  BY <1>1, DepartInPlace, BackendInPlace, FrontInPlace
<1>2. CASE UNCHANGED vars
  BY <1>2 DEF vars, tokenVars, bffVars, SessionInv, TypeOK, TokenTypeOK, CallOK, TokenOK, JarOK,
              Issued, Travelling, FamilyOf
<1> QED
  BY <1>1, <1>2, NextSteps, WorldInPlace

\* Every request is where its parts say it is: a request waits while the API
\* has it, presents only tokens that reached the browser before it left, and
\* is answered within its latency; and every token says the family of the
\* token it was issued for.
THEOREM SessionsInPlace == Spec => []SessionInv
<1>1. Init => SessionInv
  <2> SUFFICES ASSUME Init PROVE SessionInv
    OBVIOUS
  <2>1. TypeOK
    BY TokenAssumption DEF Init, TokenInit, TypeOK, TokenTypeOK, NoCookies, Kinds, Stages, Places, Answers, Time
  <2>2. \A r \in Call : CallOK(r) /\ TokenOK(r)
    BY DEF Init, TokenInit, CallOK, TokenOK, Issued, Travelling, Refreshing, SigningIn
  <2>3. JarOK
    BY DEF Init, NoCookies, JarOK
  <2> QED
    BY <2>1, <2>2, <2>3 DEF SessionInv
<1> QED
  BY <1>1, StaysInPlace, PTL DEF Spec

-----------------------------------------------------------------------------
(***************************************************************************)
(* What a step does to the rows and the tokens.                            *)
(***************************************************************************)
\* A call deletes rows: a logout, a replay after the window, an expired token.
Deletes(r) ==
    /\ pc[r] \in {"revokeFamily", "dropExpired", "logout"} /\ pc'[r] = "done"
    /\ token' = token
    /\ \A t \in Call : row'[t] \in {row[t], Absent}

\* A call issues its pair, in the family of the token it presents.
IssuesPair(r) ==
    /\ pc[r] \in Issuing /\ pc'[r] = "done" /\ ~Issued(r)
    /\ token'[r].at = now
    /\ token'[r].family = IF tok[r] = Nobody THEN r ELSE FamilyOf(r)
    /\ row'[r] = Unused
    /\ \A t \in Call : t # r => token'[t] = token[t]
    /\ \A t \in Call : t # r => row'[t] = row[t] \/ (t = tok[r] /\ row[t] = Unused /\ row'[t] = now)
    /\ tok[r] # Nobody /\ row[tok[r]] = Unused => pc[r] = "sibling" \/ row'[tok[r]] = now

LEMMA RowKinds ==
    ASSUME SessionInv, NEW r \in Call, CallStep(r)
    PROVE  (token' = token /\ row' = row) \/ Deletes(r) \/ IssuesPair(r)
<1>0. /\ TypeOK /\ TokenTypeOK /\ CallOK(r) /\ TokenOK(r) /\ Nobody \notin Call /\ now \in Time
  BY TokenAssumption DEF SessionInv, TypeOK, TokenTypeOK
<1>1. CASE ~BackendStep(r)
  BY <1>1 DEF CallStep, Navigate, ApiRequest, SubmitLogin, SubmitPasskey, SubmitConsoleLogin, SubmitSignup,
     LoginDeparts, SubmitLogout, FirstCall, AfterRefresh, Render, ArriveLogin, ArriveSignup,
     ArriveConsoleLogin, SignInArrives, ArriveLogout, Arrive, AnswerLost, ApiDown, Ask, tokenVars
<1>2. CASE RevokeFamily(r) \/ DropExpired(r) \/ Revoke(r)
  BY <1>0, <1>2 DEF RevokeFamily, DropExpired, Revoke, Deletes, Answer, TokenTypeOK
<1>3. CASE RotateRead(r) \/ LoginRead(r) \/ RegisterRead(r) \/ CreateWithDefaultWallet(r)
  BY <1>3 DEF RotateRead, LoginRead, RegisterRead, CreateWithDefaultWallet
<1>4. ASSUME NEW f, NEW rows, IssueTokens(r, f, rows), pc[r] \in Issuing,
             rows \in [Call -> Time \cup {Absent, Unused}],
             f = IF tok[r] = Nobody THEN r ELSE FamilyOf(r),
             \A t \in Call : t # r => rows[t] = row[t] \/ (t = tok[r] /\ row[t] = Unused /\ rows[t] = now),
             tok[r] # Nobody /\ row[tok[r]] = Unused => pc[r] = "sibling" \/ rows[tok[r]] = now
      PROVE  IssuesPair(r)
  <2>1. ~Issued(r) /\ (tok[r] # Nobody => tok[r] \in Call /\ tok[r] # r)
    BY <1>0, <1>4 DEF TokenOK, CallOK, Issuing, Issued
  <2> QED
    BY <1>0, <1>4, <2>1 DEF IssueTokens, IssuesPair, Answer, TokenTypeOK
<1>5. CASE Claim(r)
  <2>1. pc[r] = "claim" /\ tok[r] \in Call
    BY <1>0, <1>5 DEF Claim, CallOK, Refreshing, Issued
  <2>2. CASE row[tok[r]] = Unused /\ IssueTokens(r, FamilyOf(r), [row EXCEPT ![tok[r]] = now])
    <3> DEFINE rows == [row EXCEPT ![tok[r]] = now]
    <3>1. /\ rows \in [Call -> Time \cup {Absent, Unused}]
          /\ \A t \in Call : t # r => rows[t] = row[t] \/ (t = tok[r] /\ row[t] = Unused /\ rows[t] = now)
          /\ rows[tok[r]] = now
      BY <1>0, <2>1, <2>2 DEF TokenTypeOK
    <3> HIDE DEF rows
    <3>2. IssuesPair(r)
      BY <1>0, <1>4, <2>1, <2>2, <3>1 DEF rows, Issuing
    <3> QED
      BY <3>2
  <2> QED
    BY <1>5, <2>2 DEF Claim
<1>6. CASE Sibling(r)
  <2>1. pc[r] = "sibling" /\ tok[r] # Nobody
    BY <1>0, <1>6 DEF Sibling, CallOK, Refreshing
  <2> QED
    BY <1>0, <1>4, <1>6, <2>1 DEF Sibling, TokenTypeOK, Issuing
<1>7. CASE Issue(r)
  <2>1. pc[r] = "issue" /\ tok[r] = Nobody
    BY <1>0, <1>7 DEF Issue, CallOK, SigningIn
  <2> QED
    BY <1>0, <1>4, <1>7, <2>1 DEF Issue, TokenTypeOK, Issuing
<1> QED
  BY <1>1, <1>2, <1>3, <1>5, <1>6, <1>7 DEF BackendStep, TokenStep

\* A call passes its last look at the row and the status: while the account is
\* active, and by the state of its token.
Enters(r) ==
    /\ token' = token /\ row' = row
    /\ \/ /\ pc[r] = "rotate" /\ pc'[r] = "claim" /\ tok[r] \in Call
          /\ status = "active" /\ row[tok[r]] = Unused
       \/ /\ pc[r] = "rotate" /\ pc'[r] = "sibling" /\ tok[r] \in Call
          /\ status = "active" /\ row[tok[r]] \in Time /\ now - row[tok[r]] < REUSE_GRACE
       \/ /\ pc[r] = "claim" /\ pc'[r] = "sibling" /\ tok[r] \in Call /\ row[tok[r]] # Unused
       \/ /\ pc[r] = "login" /\ pc'[r] = "issue" /\ status = "active"
       \/ /\ pc[r] = "create" /\ pc'[r] = "issue" /\ status' = "active"

LEMMA Entrance ==
    ASSUME SessionInv, NEW r \in Call, CallStep(r), pc'[r] \in Issuing
    PROVE  tok' = tok /\ since' = since /\ (pc'[r] = pc[r] \/ Enters(r))
<1>0. TypeOK /\ TokenTypeOK /\ CallOK(r)
  BY DEF SessionInv, TypeOK
<1>1. CASE ~BackendStep(r)
  <2>1. CASE \/ Navigate(r) \/ ApiRequest(r) \/ SubmitLogin(r) \/ SubmitPasskey(r)
             \/ SubmitConsoleLogin(r) \/ SubmitSignup(r) \/ SubmitLogout(r)
    <3>1. at[r] = "idle" /\ pc[r] = "idle"
      BY <1>0, <2>1 DEF Navigate, ApiRequest, SubmitLogin, SubmitPasskey, SubmitConsoleLogin,
         SubmitSignup, LoginDeparts, SubmitLogout, Depart, CallOK
    <3>2. pc'[r] \in {"idle", "rotate", "login", "register", "logout", "done"}
      BY <1>0, <2>1, <3>1 DEF Navigate, ApiRequest, SubmitLogin, SubmitPasskey, SubmitConsoleLogin,
         SubmitSignup, LoginDeparts, SubmitLogout, Ask, Answer, tokenVars, TokenTypeOK
    <3> QED
      BY <3>2 DEF Issuing
  <2>2. CASE FirstCall(r) \/ AnswerLost(r) \/ \E a \in {"unreachable", "failed"} : ApiDown(r, a)
    <3>1. pc'[r] \in {"idle", "rotate", "done"}
      BY <1>0, <2>2 DEF FirstCall, AnswerLost, ApiDown, Ask, Answer, tokenVars, TokenTypeOK, CallOK
    <3> QED
      BY <3>1 DEF Issuing
  <2>3. CASE AfterRefresh(r) \/ Render(r) \/ ArriveLogin(r) \/ ArriveSignup(r) \/ ArriveConsoleLogin(r)
             \/ ArriveLogout(r) \/ Arrive(r)
    <3>1. pc' = pc
      BY <2>3 DEF AfterRefresh, Render, ArriveLogin, ArriveSignup, ArriveConsoleLogin, SignInArrives,
         ArriveLogout, Arrive, tokenVars
    <3>2. at[r] # "wait" \/ pc[r] = "done"
      BY <2>3 DEF AfterRefresh, Render, ArriveLogin, ArriveSignup, ArriveConsoleLogin, SignInArrives,
         ArriveLogout, Arrive
    <3> QED
      BY <1>0, <3>1, <3>2 DEF CallOK, Issuing
  <2> QED
    BY <1>1, <2>1, <2>2, <2>3 DEF CallStep
<1>2. CASE BackendStep(r)
  <2>1. since' = since /\ tok' = tok
    BY <1>2 DEF BackendStep, bffVars, TokenStep, RotateRead, RevokeFamily, DropExpired, Claim, Sibling,
       LoginRead, Issue, RegisterRead, CreateWithDefaultWallet, Revoke, IssueTokens
  <2>2. pc[r] \in Refreshing => tok[r] \in Call
    BY <1>0 DEF CallOK, Issued
  <2>3. CASE RotateRead(r)
    <3>1. tok[r] \in Call
      BY <2>2, <2>3 DEF RotateRead, Refreshing
    <3>2. row[tok[r]] \in Time \cup {Absent, Unused}
      BY <1>0, <3>1 DEF TokenTypeOK
    <3>3. /\ pc[r] = "rotate" /\ token' = token /\ row' = row
          /\ pc'[r] = "done" \/ pc'[r] = RotateBranch(tok[r])
      BY <1>0, <2>3 DEF RotateRead, GoTo, Answer, TokenTypeOK
    <3> QED
      BY <2>1, <3>1, <3>2, <3>3 DEF RotateBranch, Enters, Issuing
  <2>4. CASE Claim(r)
    <3>1. tok[r] \in Call
      BY <2>2, <2>4 DEF Claim, Refreshing
    <3>2. \/ pc'[r] = "done"
          \/ pc[r] = "claim" /\ pc'[r] = "sibling" /\ row[tok[r]] # Unused /\ token' = token /\ row' = row
      BY <1>0, <2>4 DEF Claim, IssueTokens, GoTo, Answer, TokenTypeOK
    <3> QED
      BY <2>1, <3>1, <3>2 DEF Enters, Issuing
  <2>5. CASE RevokeFamily(r) \/ DropExpired(r) \/ Revoke(r) \/ Sibling(r) \/ Issue(r)
    <3>1. pc'[r] = "done"
      BY <1>0, <2>5 DEF RevokeFamily, DropExpired, Revoke, Sibling, Issue, IssueTokens, Answer, TokenTypeOK
    <3> QED
      BY <3>1 DEF Issuing
  <2>6. CASE LoginRead(r) \/ RegisterRead(r) \/ CreateWithDefaultWallet(r)
    BY <1>0, <2>1, <2>6 DEF LoginRead, RegisterRead, CreateWithDefaultWallet, GoTo, Answer, TokenTypeOK,
       Enters, Issuing
  <2> QED
    BY <1>2, <2>3, <2>4, <2>5, <2>6 DEF BackendStep, TokenStep
<1> QED
  BY <1>1, <1>2

\* What a request presents is settled when it leaves the browser.
LEMMA TokenKept ==
    ASSUME SessionInv, NEW r \in Call, CallStep(r)
    PROVE  \/ tok'[r] = tok[r]
           \/ at[r] = "idle" /\ pc[r] = "idle" /\ tok[r] = Nobody /\ pc'[r] \notin Issuing /\ ~Issued(r)'
<1>0. TypeOK /\ TokenTypeOK /\ CallOK(r) /\ TokenOK(r)
  BY DEF SessionInv, TypeOK
<1>1. CASE \/ Navigate(r) \/ ApiRequest(r) \/ SubmitLogin(r) \/ SubmitPasskey(r)
           \/ SubmitConsoleLogin(r) \/ SubmitSignup(r) \/ SubmitLogout(r)
  <2>1. at[r] = "idle"
    BY <1>1 DEF Navigate, ApiRequest, SubmitLogin, SubmitPasskey, SubmitConsoleLogin,
       SubmitSignup, LoginDeparts, SubmitLogout, Depart
  <2>2. token' = token
    BY <1>1 DEF Navigate, ApiRequest, SubmitLogin, SubmitPasskey, SubmitConsoleLogin,
       SubmitSignup, LoginDeparts, SubmitLogout, Ask, tokenVars
  <2>3. pc[r] = "idle" /\ tok[r] = Nobody /\ ~Issued(r)
    BY <1>0, <2>1 DEF CallOK, TokenOK
  <2>4. pc'[r] \notin Issuing \/ tok' = tok
    BY Entrance
  <2> QED
    BY <1>0, <2>1, <2>2, <2>3, <2>4 DEF Issued
<1>2. CASE ~(\/ Navigate(r) \/ ApiRequest(r) \/ SubmitLogin(r) \/ SubmitPasskey(r)
             \/ SubmitConsoleLogin(r) \/ SubmitSignup(r) \/ SubmitLogout(r))
  BY <1>0, <1>2 DEF CallStep, BackendStep, TokenStep, RotateRead, RevokeFamily, DropExpired, Claim, Sibling,
     LoginRead, Issue, RegisterRead, CreateWithDefaultWallet, Revoke, IssueTokens, FirstCall, AfterRefresh,
     Render, ArriveLogin, ArriveSignup, ArriveConsoleLogin, SignInArrives, ArriveLogout, Arrive, AnswerLost,
     ApiDown, Ask, tokenVars, TokenTypeOK
<1> QED
  BY <1>1, <1>2

\* Staff and time issue nothing; a suspension deletes every row.
LEMMA WorldRows ==
    ASSUME SessionInv, SeedStaff \/ Tick \/ \E s \in {"active", "suspended"} : StaffSetsStatus(s)
    PROVE  /\ token' = token /\ pc' = pc /\ tok' = tok /\ since' = since
           /\ row' = row \/ (status' = "suspended" /\ row' = [t \in Call |-> Absent])
BY DEF SessionInv, SeedStaff, Tick, StaffSetsStatus, UpdateStatus, bffVars

-----------------------------------------------------------------------------
(***************************************************************************)
(* Used once; ended for good; the rows of a suspended account.             *)
(***************************************************************************)
\* The claim is atomic: whichever refreshes present a token at once, the moment
\* it was first used is written once, and only a revocation removes it.
THEOREM ClaimedOnce == Spec => UsedOnce
<1>1. SessionInv /\ [Next]_vars => [\A t \in Call : row[t] \in Time => row'[t] \in {row[t], Absent}]_row
  <2> SUFFICES ASSUME SessionInv, [Next]_vars, NEW t \in Call, row[t] \in Time
               PROVE  row'[t] \in {row[t], Absent}
    OBVIOUS
  <2>1. ASSUME NEW r \in Call, CallStep(r) PROVE row'[t] \in {row[t], Absent}
    <3>1. CASE IssuesPair(r)
      <4>1. row[r] = Absent
        BY <3>1 DEF IssuesPair, SessionInv, TokenOK
      <4>2. t # r /\ row[t] # Unused
        BY <4>1 DEF Time, Absent, Unused
      <4> QED
        BY <3>1, <4>2 DEF IssuesPair
    <3> QED
      BY <2>1, <3>1, RowKinds DEF Deletes
  <2>2. CASE SeedStaff \/ Tick \/ \E s \in {"active", "suspended"} : StaffSetsStatus(s)
    BY <2>2, WorldRows
  <2> QED
    BY <2>1, <2>2, NextSteps DEF vars, tokenVars
<1> QED
  BY <1>1, SessionsInPlace, PTL DEF Spec, UsedOnce

\* A step of a call leaves an ended family without rows, and without a call
\* that could give it one.
LEMMA StaysEnded ==
    ASSUME SessionInv, [Next]_vars, NEW f \in Call, Ended(f)
    PROVE  Ended(f)'
<1>0. /\ TypeOK /\ TokenTypeOK /\ Nobody \notin Call
      /\ \A c \in Call : CallOK(c) /\ TokenOK(c)
  BY TokenAssumption DEF SessionInv, TypeOK
<1>1. Issued(f)
  BY <1>0 DEF Ended, TokenOK
<1>2. ASSUME NEW r \in Call, CallStep(r) PROVE Ended(f)'
  <2>1. IssuesPair(r) => token'[r].family # f
    <3>1. ASSUME IssuesPair(r), tok[r] = Nobody PROVE token'[r].family # f
      BY <1>1, <3>1 DEF IssuesPair
    <3>2. ASSUME IssuesPair(r), tok[r] # Nobody PROVE token'[r].family # f
      <4>1. pc[r] \in {"sibling", "claim"}
        BY <1>0, <3>2 DEF IssuesPair, Issuing, CallOK, SigningIn
      <4> QED
        BY <3>2, <4>1 DEF IssuesPair, Ended
    <3> QED
      BY <3>1, <3>2
  <2>2. token'[f] = token[f]
    BY <1>1, <1>2, RowKinds DEF Deletes, IssuesPair
  <2>3. \A t \in Call : row'[t] # Absent => token'[t].family # f
    <3>1. CASE token' = token /\ (row' = row \/ Deletes(r))
      BY <3>1 DEF Ended, Deletes
    <3>2. CASE IssuesPair(r)
      <4> SUFFICES ASSUME NEW t \in Call, t # r, row'[t] # Absent PROVE token[t].family # f
        BY <2>1, <3>2 DEF IssuesPair
      <4>1. row[t] # Absent
        BY <3>2 DEF IssuesPair, Absent, Unused
      <4> QED
        BY <4>1 DEF Ended
    <3> QED
      BY <1>2, <3>1, <3>2, RowKinds DEF Deletes
  <2>4. \A c \in Call : tok[c] # Nobody => token'[tok[c]] = token[tok[c]]
    BY <1>0, <1>2, RowKinds DEF Deletes, IssuesPair, CallOK, Issued
  <2>5. ASSUME NEW c \in Call, pc'[c] \in {"sibling", "claim"} PROVE FamilyOf(c)' # f
    <3>1. CASE c # r
      <4>1. Same(c)
        BY <1>0, <1>2, <3>1, OneCallMoves
      <4>2. tok[c] # Nobody
        BY <1>0, <2>5, <4>1 DEF Same, CallOK, Refreshing
      <4> QED
        BY <2>4, <2>5, <4>1, <4>2 DEF Same, Ended, FamilyOf
    <3>2. CASE c = r
      <4>1. tok' = tok /\ (pc'[r] = pc[r] \/ Enters(r))
        BY <1>2, <2>5, <3>2, Entrance DEF Issuing
      <4>2. tok[r] # Nobody
        BY <1>0, <1>2, <2>5, <3>2, <4>1 DEF Enters, CallOK, Refreshing
      <4>3. FamilyOf(r) # f
        BY <2>5, <3>2, <4>1, <4>2 DEF Enters, Ended, FamilyOf, Time, Absent, Unused
      <4> QED
        BY <2>4, <3>2, <4>1, <4>2, <4>3 DEF FamilyOf
    <3> QED
      BY <3>1, <3>2
  <2> QED
    BY <2>2, <2>3, <2>5 DEF Ended
<1>3. CASE SeedStaff \/ Tick \/ \E s \in {"active", "suspended"} : StaffSetsStatus(s)
  BY <1>3, WorldRows DEF Ended, FamilyOf
<1>4. CASE UNCHANGED vars
  BY <1>4 DEF vars, tokenVars, Ended, FamilyOf
<1> QED
  BY <1>2, <1>3, <1>4, NextSteps

\* The calls past their status check are known from the suspension on.
StatusInv ==
    /\ status = "suspended" => \A c \in Call : pc[c] \in Issuing => c \in late
    /\ SuspendedRowsAreRaces

LEMMA StatusStays == SessionInv /\ StatusInv /\ [Next]_vars => StatusInv'
<1> SUFFICES ASSUME SessionInv, StatusInv, [Next]_vars PROVE StatusInv'
  OBVIOUS
<1>0. TypeOK
  BY DEF SessionInv
<1>1. ASSUME NEW r \in Call, CallStep(r) PROVE StatusInv'
  <2>1. late' = late /\ (status' = status \/ status' = "active")
    BY <1>1 DEF CallStep, BackendStep, TokenStep, RotateRead, RevokeFamily, DropExpired, Claim, Sibling,
       LoginRead, Issue, RegisterRead, CreateWithDefaultWallet, Revoke, IssueTokens, FirstCall, AfterRefresh,
       Render, ArriveLogin, ArriveSignup, ArriveConsoleLogin, SignInArrives, ArriveLogout, Arrive, AnswerLost,
       ApiDown, Ask, tokenVars, Navigate, ApiRequest, SubmitLogin, SubmitPasskey, SubmitConsoleLogin,
       SubmitSignup, LoginDeparts, SubmitLogout
  <2>2. CASE status' = "active"
    BY <2>2 DEF StatusInv, SuspendedRowsAreRaces
  <2>3. CASE status' = status /\ status = "suspended"
    <3>1. ASSUME NEW c \in Call, pc'[c] \in Issuing PROVE c \in late
      <4>1. CASE c # r
        BY <1>0, <1>1, <2>3, <3>1, <4>1, OneCallMoves DEF Same, StatusInv
      <4>2. CASE c = r
        <5>1. pc'[r] = pc[r] \/ Enters(r)
          BY <1>1, <3>1, <4>2, Entrance
        <5>2. pc[r] \in Issuing
          BY <2>3, <3>1, <4>2, <5>1 DEF Enters, Issuing
        <5> QED
          BY <2>3, <4>2, <5>2 DEF StatusInv
      <4> QED
        BY <4>1, <4>2
    <3>2. ASSUME NEW t \in Call, row'[t] # Absent PROVE t \in late
      <4>1. IssuesPair(r) => r \in late
        BY <2>3 DEF IssuesPair, StatusInv
      <4>2. (t = r /\ IssuesPair(r)) \/ row[t] # Absent
        BY <1>1, <3>2, RowKinds DEF Deletes, IssuesPair, Absent, Unused
      <4> QED
        BY <2>3, <4>1, <4>2 DEF StatusInv, SuspendedRowsAreRaces
    <3> QED
      BY <2>1, <2>3, <3>1, <3>2 DEF StatusInv, SuspendedRowsAreRaces
  <2>4. CASE status' # "suspended"
    BY <2>4 DEF StatusInv, SuspendedRowsAreRaces
  <2> QED
    BY <2>1, <2>2, <2>3, <2>4
<1>2. CASE SeedStaff \/ Tick \/ \E s \in {"active", "suspended"} : StaffSetsStatus(s)
  BY <1>2 DEF SeedStaff, Tick, StaffSetsStatus, UpdateStatus, StatusInv, SuspendedRowsAreRaces
<1>3. CASE UNCHANGED vars
  BY <1>3 DEF vars, tokenVars, StatusInv, SuspendedRowsAreRaces
<1> QED
  BY <1>1, <1>2, <1>3, NextSteps

\* What is ended stays ended: no refresh, with whatever token and however late,
\* brings back a family that a logout, a replay or a suspension ended, and a
\* suspended account has no row but those of calls that had already passed
\* their status check.
THEOREM EndedForGood == Spec => EndedStaysEnded
<1>1. Init => StatusInv
  BY DEF Init, TokenInit, StatusInv, SuspendedRowsAreRaces
<1>2. SessionInv => TypeOK
  BY DEF SessionInv
<1>3. StatusInv => SuspendedRowsAreRaces
  BY DEF StatusInv
<1>4. SessionInv /\ [Next]_vars => [\A f \in Call : Ended(f) => Ended(f)']_<<row, token, pc, tok>>
  BY StaysEnded
<1> QED
  BY <1>1, <1>2, <1>3, <1>4, SessionsInPlace, StatusStays, PTL DEF Spec, EndedStaysEnded, RevokedStaysDead

-----------------------------------------------------------------------------
(***************************************************************************)
(* One rotation and its siblings.  The pairs issued for a token have a     *)
(* common anchor, the moment its row stopped being unused: the claim that  *)
(* used it, or the revocation that deleted it.  A call that may still      *)
(* issue left the browser less than the reuse window after the anchor.     *)
(***************************************************************************)
Fresh(t) == \A c \in Call : tok[c] = t => ~Issued(c) /\ pc[c] # "sibling"

Anchored(t, first) ==
    /\ first <= now
    /\ row[t] \in Time => first = row[t]
    /\ \A c \in Call : tok[c] = t =>
          /\ Issued(c) => first <= token[c].at /\ token[c].at < first + REUSE_GRACE + MaxLatency
          /\ pc[c] \in {"sibling", "claim"} => since[c] < first + REUSE_GRACE

GraceOK(t) == IF row[t] = Unused THEN Fresh(t) ELSE \E first \in Time : Anchored(t, first)

GraceInv == \A t \in Call : Issued(t) => GraceOK(t)

LEMMA CallKeepsGrace ==
    ASSUME SessionInv, GraceInv, NEW r \in Call, CallStep(r), NEW t \in Call, Issued(t)'
    PROVE  GraceOK(t)'
<1>0. /\ TypeOK /\ TokenTypeOK /\ Nobody \notin Call /\ now \in Nat /\ now \in Time /\ now' = now
      /\ MaxLatency \in Nat \ {0} /\ REUSE_GRACE \in Nat \ {0}
      /\ \A c \in Call : CallOK(c) /\ TokenOK(c) /\ CallOK(c)'
      /\ \A q \in Call : q # r => Same(q)
      /\ Absent \notin Time /\ Unused \notin Time
      /\ \A c \in Call : since[c] \in Nat
  <2>1. SessionInv'
    BY StaysInPlace DEF Next, CallStep
  <2> QED
    BY <2>1, OneCallMoves, TokenAssumption, LatencyAssumption
       DEF SessionInv, TypeOK, TokenTypeOK, Time, Absent, Unused
<1>1. \A c \in Call : c # r => /\ tok'[c] = tok[c] /\ pc'[c] = pc[c] /\ since'[c] = since[c]
                               /\ token'[c] = token[c] /\ (Issued(c)' <=> Issued(c))
  BY <1>0 DEF Same, Issued
<1>2. tok'[r] = tok[r] \/ (~Issued(r)' /\ pc'[r] \notin Issuing)
  BY TokenKept
<1>3. Issued(r)' => \/ Issued(r) /\ token'[r] = token[r]
                    \/ /\ IssuesPair(r) /\ token'[r].at = now /\ tok' = tok
                       /\ tok[r] # Nobody => pc[r] \in {"sibling", "claim"}
  <2>1. ~IssuesPair(r) => token' = token
    BY RowKinds DEF Deletes
  <2>2. IssuesPair(r) => tok' = tok
    BY <1>0 DEF CallStep, IssuesPair, Issuing, CallOK, BackendStep, TokenStep, RotateRead, RevokeFamily,
       DropExpired, Claim, Sibling, LoginRead, Issue, RegisterRead, CreateWithDefaultWallet, Revoke,
       IssueTokens, AfterRefresh, Render, ArriveLogin, ArriveSignup, ArriveConsoleLogin, SignInArrives,
       ArriveLogout, Arrive, AnswerLost, ApiDown, tokenVars, Navigate, ApiRequest, SubmitLogin,
       SubmitPasskey, SubmitConsoleLogin, SubmitSignup, LoginDeparts, SubmitLogout, Depart, FirstCall
  <2>3. IssuesPair(r) /\ tok[r] # Nobody => pc[r] \in {"sibling", "claim"}
    BY <1>0 DEF IssuesPair, Issuing, CallOK, SigningIn
  <2> QED
    BY <2>1, <2>2, <2>3 DEF IssuesPair, Issued
<1>4. CASE ~Issued(t)
  <2>1. t = r /\ IssuesPair(r) /\ tok' = tok
    BY <1>1, <1>3, <1>4
  <2>2. \A c \in Call : tok[c] # t
    BY <1>0, <1>4 DEF CallOK
  <2> QED
    BY <2>1, <2>2 DEF GraceOK, Fresh, IssuesPair
<1>5. ASSUME Issued(t), row[t] = Unused, row'[t] = Unused PROVE GraceOK(t)'
  <2>1. Fresh(t)
    BY <1>5 DEF GraceInv, GraceOK
  <2>2. ASSUME tok'[r] = t PROVE ~Issued(r)' /\ pc'[r] # "sibling"
    <3>1. ASSUME pc'[r] = "sibling" PROVE FALSE
      <4>1. tok[r] = t /\ (pc'[r] = pc[r] \/ Enters(r))
        BY <2>2, <3>1, Entrance DEF Issuing
      <4> QED
        BY <1>0, <1>5, <2>1, <3>1, <4>1 DEF Fresh, Enters
    <3>2. ASSUME Issued(r)' PROVE FALSE
      <4>1. tok[r] = t /\ tok[r] # Nobody
        BY <1>0, <1>2, <1>3, <2>2, <3>2
      <4>2. IssuesPair(r) /\ pc[r] # "sibling"
        BY <1>3, <2>1, <3>2, <4>1 DEF Fresh
      <4> QED
        BY <1>0, <1>5, <4>1, <4>2 DEF IssuesPair
    <3> QED
      BY <3>1, <3>2
  <2> QED
    BY <1>1, <1>5, <2>1, <2>2 DEF GraceOK, Fresh
<1>6. ASSUME Issued(t), row[t] = Unused, row'[t] # Unused PROVE GraceOK(t)'
  <2>1. Fresh(t)
    BY <1>6 DEF GraceInv, GraceOK
  <2>2. row'[t] \in Time => row'[t] = now
    BY <1>0, <1>6, RowKinds DEF Deletes, IssuesPair
  <2>3. ASSUME NEW c \in Call, tok'[c] = t
        PROVE  /\ Issued(c)' => now <= token'[c].at /\ token'[c].at < now + REUSE_GRACE + MaxLatency
               /\ pc'[c] \in {"sibling", "claim"} => since'[c] < now + REUSE_GRACE
    <3>1. Issued(c)' => token'[c].at = now
      BY <1>1, <1>2, <1>3, <2>1, <2>3 DEF Fresh
    <3>2. pc'[c] \in {"sibling", "claim"} => since'[c] <= now /\ since'[c] \in Nat
      <4>1. ASSUME pc'[c] \in {"sibling", "claim"} PROVE since'[c] <= now /\ since'[c] = since[c]
        <5>1. since'[c] = since[c]
          BY <1>1, <4>1, Entrance DEF Issuing
        <5> QED
          BY <1>0, <4>1, <5>1 DEF CallOK, Travelling
      <4> QED
        BY <1>0, <4>1
    <3> QED
      BY <1>0, <3>1, <3>2
  <2>4. \E first \in Time : Anchored(t, first)'
    BY <1>0, <2>2, <2>3 DEF Anchored
  <2> QED
    BY <1>6, <2>4 DEF GraceOK
<1>7. ASSUME Issued(t), row[t] # Unused PROVE GraceOK(t)'
  <2>1. PICK first \in Time : Anchored(t, first)
    BY <1>7 DEF GraceInv, GraceOK
  <2>2. first \in Nat
    BY <2>1 DEF Time
  <2>3. row'[t] # Unused /\ (row'[t] \in Time => first = row'[t])
    BY <1>0, <1>7, <2>1, RowKinds DEF Deletes, IssuesPair, Anchored, Absent, Unused
  <2>4. ASSUME tok'[r] = t, Issued(r)'
        PROVE  first <= token'[r].at /\ token'[r].at < first + REUSE_GRACE + MaxLatency
    <3>1. tok[r] = t /\ tok[r] # Nobody
      BY <1>0, <1>2, <2>4
    <3>2. CASE Issued(r) /\ token'[r] = token[r]
      BY <2>1, <3>1, <3>2 DEF Anchored
    <3>3. CASE token'[r].at = now /\ pc[r] \in {"sibling", "claim"}
      <4>1. since[r] < first + REUSE_GRACE /\ now <= since[r] + MaxLatency /\ first <= now
        BY <1>0, <2>1, <3>1, <3>3 DEF Anchored, CallOK, Travelling
      <4> QED
        BY <1>0, <2>2, <3>3, <4>1
    <3> QED
      BY <1>3, <2>4, <3>1, <3>2, <3>3
  <2>5. ASSUME tok'[r] = t, pc'[r] \in {"sibling", "claim"} PROVE since'[r] < first + REUSE_GRACE
    <3>1. tok[r] = t /\ since'[r] = since[r] /\ (pc'[r] = pc[r] \/ Enters(r))
      BY <2>5, Entrance DEF Issuing
    <3>2. CASE pc[r] \in {"sibling", "claim"}
      BY <2>1, <3>1, <3>2 DEF Anchored
    <3>3. CASE pc[r] = "rotate"
      <4>1. row[t] \in Time /\ now - row[t] < REUSE_GRACE /\ first = row[t]
        BY <1>7, <2>1, <2>5, <3>1, <3>3 DEF Enters, Anchored
      <4>2. since[r] <= now
        BY <1>0, <3>3 DEF CallOK, Travelling
      <4> QED
        BY <1>0, <2>2, <3>1, <4>1, <4>2
    <3> QED
      BY <2>5, <3>1, <3>2, <3>3 DEF Enters
  <2>6. ASSUME NEW c \in Call, tok'[c] = t
        PROVE  /\ Issued(c)' => first <= token'[c].at /\ token'[c].at < first + REUSE_GRACE + MaxLatency
               /\ pc'[c] \in {"sibling", "claim"} => since'[c] < first + REUSE_GRACE
    BY <1>1, <2>1, <2>4, <2>5, <2>6 DEF Anchored
  <2>7. Anchored(t, first)'
    BY <1>0, <2>1, <2>3, <2>6 DEF Anchored
  <2> QED
    BY <2>3, <2>7 DEF GraceOK
<1> QED
  BY <1>4, <1>5, <1>6, <1>7

LEMMA GraceStays == SessionInv /\ GraceInv /\ [Next]_vars => GraceInv'
<1> SUFFICES ASSUME SessionInv, GraceInv, [Next]_vars PROVE GraceInv'
  OBVIOUS
<1>1. ASSUME NEW r \in Call, CallStep(r) PROVE GraceInv'
  BY <1>1, CallKeepsGrace DEF GraceInv
<1>2. CASE SeedStaff \/ Tick \/ \E s \in {"active", "suspended"} : StaffSetsStatus(s)
  <2> SUFFICES ASSUME NEW t \in Call, Issued(t)' PROVE GraceOK(t)'
    BY DEF GraceInv
  <2>1. /\ token' = token /\ pc' = pc /\ tok' = tok /\ since' = since
        /\ row' = row \/ row' = [c \in Call |-> Absent]
    BY <1>2, WorldRows
  <2>2. /\ now \in Time /\ now \in Nat /\ now <= now' /\ now' \in Nat
        /\ REUSE_GRACE \in Nat \ {0} /\ MaxLatency \in Nat
        /\ Absent \notin Time /\ Absent # Unused
        /\ \A c \in Call : CallOK(c) /\ since[c] \in Nat
    BY <1>2, TokenAssumption, LatencyAssumption
       DEF SessionInv, TypeOK, TokenTypeOK, Time, Absent, Unused, SeedStaff, Tick, StaffSetsStatus, UpdateStatus
  <2>3. Issued(t) /\ GraceOK(t) /\ \A c \in Call : Issued(c)' <=> Issued(c)
    BY <2>1 DEF Issued, GraceInv
  <2>4. CASE row' = row
    <3>1. CASE row[t] = Unused
      BY <2>1, <2>3, <2>4, <3>1 DEF GraceOK, Fresh
    <3>2. CASE row[t] # Unused
      <4>1. PICK first \in Time : Anchored(t, first)
        BY <2>3, <3>2 DEF GraceOK
      <4>2. first \in Nat
        BY <4>1 DEF Time
      <4>3. Anchored(t, first)'
        BY <2>1, <2>2, <2>3, <2>4, <4>1, <4>2 DEF Anchored
      <4> QED
        BY <2>4, <3>2, <4>3 DEF GraceOK
    <3> QED
      BY <3>1, <3>2
  <2>5. CASE row' = [c \in Call |-> Absent]
    <3>1. CASE row[t] = Unused
      <4>1. \A c \in Call : pc[c] \in {"sibling", "claim"} => since[c] <= now
        BY <2>2 DEF CallOK, Travelling
      <4>2. \A c \in Call : pc[c] \in {"sibling", "claim"} => since[c] < now + REUSE_GRACE
        BY <2>2, <4>1
      <4>3. \E first \in Time : Anchored(t, first)'
        BY <2>1, <2>2, <2>3, <2>5, <3>1, <4>2 DEF Anchored, GraceOK, Fresh
      <4> QED
        BY <2>2, <2>5, <4>3 DEF GraceOK
    <3>2. CASE row[t] # Unused
      <4>1. PICK first \in Time : Anchored(t, first)
        BY <2>3, <3>2 DEF GraceOK
      <4>2. first \in Nat
        BY <4>1 DEF Time
      <4>3. Anchored(t, first)'
        BY <2>1, <2>2, <2>3, <2>5, <4>1, <4>2 DEF Anchored
      <4> QED
        BY <2>2, <2>5, <4>3 DEF GraceOK
    <3> QED
      BY <3>1, <3>2
  <2> QED
    BY <2>1, <2>4, <2>5
<1>3. CASE UNCHANGED vars
  BY <1>3 DEF vars, tokenVars, bffVars, GraceInv, GraceOK, Fresh, Anchored, Issued
<1> QED
  BY <1>1, <1>2, <1>3, NextSteps

\* A token is used for one rotation and its siblings, however many requests
\* present it and however their answers are delayed.
THEOREM SiblingsClose == Spec => []SiblingsWithinGrace
<1>1. Init => GraceInv
  BY DEF Init, TokenInit, GraceInv, Issued
<1>2. SessionInv /\ GraceInv => SiblingsWithinGrace
  <2> SUFFICES ASSUME SessionInv, GraceInv, NEW c \in Call, NEW d \in Call, tok[c] = tok[d], tok[c] # Nobody,
                      Issued(c), Issued(d)
               PROVE  token[d].at - token[c].at < REUSE_GRACE + MaxLatency
    BY DEF SiblingsWithinGrace, Issued
  <2>1. Issued(tok[c]) /\ tok[c] \in Call
    BY DEF SessionInv, CallOK, Issued
  <2>2. PICK first \in Time : Anchored(tok[c], first)
    BY <2>1 DEF GraceInv, GraceOK, Fresh
  <2>3. first \in Nat /\ token[c].at \in Nat /\ token[d].at \in Nat /\ REUSE_GRACE \in Nat /\ MaxLatency \in Nat
    BY <2>2, TokenAssumption, LatencyAssumption DEF SessionInv, TypeOK, TokenTypeOK, Time, Issued, Never
  <2>4. first <= token[c].at /\ token[d].at < first + REUSE_GRACE + MaxLatency
    BY <2>2 DEF Anchored
  <2> QED
    BY <2>3, <2>4
<1> QED
  BY <1>1, <1>2, SessionsInPlace, GraceStays, PTL DEF Spec

-----------------------------------------------------------------------------
(***************************************************************************)
(* A session ends for a cause.  A used token that is still in the cookies  *)
(* has its successor on the way: whoever presents it left less than one    *)
(* latency after the claim, so it reads the row inside the reuse window.   *)
(***************************************************************************)
Caused(t) == causes[token[t].family] # {}
Over(t) == Caused(t) \/ Expired(t)

\* Request d brings new cookies to the browser.
Bears(d) ==
    /\ kind[d] \in {"page", "api"}
    /\ \/ at[d] = "wait" /\ pc[d] = "done" /\ ans[d] = "tokens"
       \/ at[d] \in {"render", "answer"} /\ sends[d] = "tokens"

EndOK(r) ==
    /\ pc[r] = "logout" => Caused(tok[r])
    /\ pc[r] = "revokeFamily" => Caused(tok[r])
    /\ pc[r] = "dropExpired" => Expired(tok[r])
    /\ kind[r] \in {"page", "api"} /\ ans[r] = "rejected" => tok[r] # Nobody /\ Over(tok[r])
    /\ Rejected(r) => tok[r] # Nobody /\ Over(tok[r])
    /\ (pc[r] = "rotate" \/ at[r] = "first") /\ tok[r] # Nobody /\ row[tok[r]] \in Time /\ ~Caused(tok[r]) =>
          since[r] <= row[tok[r]] + MaxLatency

StatusKnown ==
    /\ status = "none" => \A c \in Call : ~Issued(c) /\ pc[c] # "issue"
    /\ status = "suspended" => \A f \in Call : token[f].family = f \/ pc[f] = "issue" => causes[f] # {}

RowsGoForCause == \A t \in Call : Issued(t) /\ row[t] = Absent => Over(t)

SuccessorOnItsWay ==
    jar.refresh # Nobody /\ row[jar.refresh] \in Time /\ ~Caused(jar.refresh) =>
        \E d \in Call : Bears(d) /\ tok[d] = jar.refresh /\ since[d] <= row[jar.refresh]

CauseInv ==
    /\ StatusKnown
    /\ RowsGoForCause
    /\ \A r \in Call : EndOK(r)
    /\ SuccessorOnItsWay

\* Facts about types and tokens that all steps below use.
LEMMA Ground ==
    ASSUME SessionInv
    PROVE  /\ TypeOK /\ TokenTypeOK /\ now \in Nat /\ now \in Time
           /\ MaxLatency \in Nat /\ REUSE_GRACE \in Nat /\ 2 * MaxLatency < REUSE_GRACE /\ REFRESH_TTL \in Nat
           /\ Nobody \notin Call /\ Absent \notin Time /\ Unused \notin Time /\ Absent # Unused
           /\ \A c \in Call : CallOK(c) /\ TokenOK(c) /\ since[c] \in Nat
           /\ \A c \in Call : row[c] \in Time => row[c] \in Nat
           /\ \A c \in Call : Issued(c) => token[c].at \in Nat /\ token[c].family \in Call
           /\ \A c \in Call : row[c] \in Time \cup {Absent, Unused}
BY TokenAssumption, LatencyAssumption
   DEF SessionInv, TypeOK, TokenTypeOK, TokenOK, Issued, Time, Absent, Unused, Never

\* Causes add up, and what has ended stays over.
LEMMA CausesGrow ==
    ASSUME SessionInv, [Next]_vars
    PROVE  /\ app' = app
           /\ \A f \in Call : causes[f] \subseteq causes'[f]
           /\ \A t \in Call : Issued(t) => /\ token'[t] = token[t] /\ Issued(t)'
                                           /\ Caused(t) => Caused(t)'
                                           /\ Expired(t) => Expired(t)'
                                           /\ Over(t) => Over(t)'
<1>0. causes \in [Call -> SUBSET {"logout", "suspended", "lost"}]
  BY DEF SessionInv, TypeOK
<1>1. app' = app /\ \A f \in Call : causes[f] \subseteq causes'[f]
  <2>1. ASSUME NEW r \in Call, CallStep(r) PROVE app' = app /\ \A f \in Call : causes[f] \subseteq causes'[f]
    <3>1. CASE SubmitLogout(r) \/ AnswerLost(r)
      BY <1>0, <3>1 DEF SubmitLogout, AnswerLost
    <3>2. CASE ~(SubmitLogout(r) \/ AnswerLost(r))
      BY <2>1, <3>2 DEF CallStep, BackendStep, bffVars, FirstCall, AfterRefresh, Render, ArriveLogin,
         ArriveSignup, ArriveConsoleLogin, SignInArrives, ArriveLogout, Arrive, ApiDown, Navigate, ApiRequest,
         SubmitLogin, SubmitPasskey, SubmitConsoleLogin, SubmitSignup, LoginDeparts
    <3> QED
      BY <3>1, <3>2
  <2>2. CASE SeedStaff \/ Tick \/ \E s \in {"active", "suspended"} : StaffSetsStatus(s)
    BY <1>0, <2>2 DEF SeedStaff, Tick, StaffSetsStatus, bffVars
  <2>3. CASE UNCHANGED vars
    BY <2>3 DEF vars, bffVars
  <2> QED
    BY <2>1, <2>2, <2>3, NextSteps
<1>2. \A t \in Call : Issued(t) => token'[t] = token[t] /\ Issued(t)'
  <2>1. ASSUME NEW r \in Call, CallStep(r) PROVE \A t \in Call : Issued(t) => token'[t] = token[t]
    BY <2>1, RowKinds DEF Deletes, IssuesPair
  <2> QED
    BY <2>1, NextSteps, WorldRows DEF Issued, vars, tokenVars
<1>3. now \in Nat /\ now' \in Nat /\ now <= now'
  <2>1. SessionInv'
    BY StaysInPlace
  <2>2. now \in Nat /\ now' \in Nat
    BY <2>1, TokenAssumption DEF SessionInv, TypeOK, TokenTypeOK, Time
  <2>3. now' = now \/ now' = now + 1
    BY NextSteps, OneCallMoves DEF SessionInv, SeedStaff, Tick, StaffSetsStatus, UpdateStatus, vars, tokenVars
  <2> QED
    BY <2>2, <2>3
<1>4. ASSUME NEW t \in Call, Issued(t) PROVE /\ Caused(t) => Caused(t)'
                                             /\ Expired(t) => Expired(t)'
  <2>1. token[t].at \in Nat /\ token[t].family \in Call /\ REFRESH_TTL \in Nat
    BY <1>4, Ground
  <2> QED
    BY <1>1, <1>2, <1>3, <1>4, <2>1 DEF Caused, Expired
<1> QED
  BY <1>1, <1>2, <1>4 DEF Over

\* The steps of one request: the status, and why rows went.
LEMMA CallKeepsStatusKnown ==
    ASSUME SessionInv, CauseInv, NEW r \in Call, CallStep(r)
    PROVE  StatusKnown'
<1>0. [Next]_vars
  BY DEF Next, CallStep
<1>1. status' = status \/ status' = "active"
  BY DEF CallStep, BackendStep, TokenStep, RotateRead, RevokeFamily, DropExpired, Claim, Sibling,
     LoginRead, Issue, RegisterRead, CreateWithDefaultWallet, Revoke, IssueTokens, FirstCall, AfterRefresh,
     Render, ArriveLogin, ArriveSignup, ArriveConsoleLogin, SignInArrives, ArriveLogout, Arrive, AnswerLost,
     ApiDown, Ask, tokenVars, Navigate, ApiRequest, SubmitLogin, SubmitPasskey, SubmitConsoleLogin,
     SubmitSignup, LoginDeparts, SubmitLogout
<1>2. ASSUME status' # "active", NEW c \in Call, pc'[c] = "issue" PROVE pc[c] = "issue"
  <2>1. CASE c # r
    BY <1>2, <2>1, Ground, OneCallMoves DEF Same
  <2>2. CASE c = r
    BY <1>1, <1>2, <2>2, Entrance DEF Issuing, Enters
  <2> QED
    BY <2>1, <2>2
<1>3. ASSUME NEW c \in Call, token'[c] # token[c] PROVE c = r /\ IssuesPair(r)
  BY <1>3, RowKinds DEF Deletes, IssuesPair
<1>4. ASSUME status' = "none" PROVE \A c \in Call : ~Issued(c)' /\ pc'[c] # "issue"
  <2>1. \A c \in Call : ~Issued(c) /\ pc[c] # "issue"
    BY <1>1, <1>4 DEF CauseInv, StatusKnown
  <2>2. ~IssuesPair(r)
    <3>1. pc[r] \in {"sibling", "claim"} => Issued(tok[r]) /\ tok[r] \in Call
      BY Ground DEF CallOK, Refreshing, Issued
    <3> QED
      BY <2>1, <3>1 DEF IssuesPair, Issuing
  <2> QED
    BY <1>2, <1>3, <1>4, <2>1, <2>2 DEF Issued
<1>5. ASSUME status' = "suspended", NEW f \in Call, token'[f].family = f \/ pc'[f] = "issue"
      PROVE  causes'[f] # {}
  <2>1. status = "suspended"
    BY <1>1, <1>5
  <2>2. token[f].family = f \/ pc[f] = "issue"
    <3>1. CASE pc'[f] = "issue"
      BY <1>2, <1>5, <3>1
    <3>2. CASE token'[f] # token[f] /\ token'[f].family = f
      <4>1. f = r /\ IssuesPair(r)
        BY <1>3, <3>2
      <4>2. CASE tok[r] = Nobody
        BY <4>1, <4>2, Ground DEF IssuesPair, Issuing, CallOK, Refreshing
      <4>3. CASE tok[r] # Nobody
        <5>1. token[FamilyOf(r)].family = FamilyOf(r)
          BY <4>3, Ground DEF CallOK, TokenOK, FamilyOf, Issued
        <5> QED
          BY <3>2, <4>1, <4>3, <5>1 DEF IssuesPair
      <4> QED
        BY <4>2, <4>3
    <3> QED
      BY <1>5, <3>1, <3>2
  <2>3. causes[f] # {}
    BY <2>1, <2>2 DEF CauseInv, StatusKnown
  <2> QED
    BY <1>0, <2>3, CausesGrow
<1> QED
  BY <1>4, <1>5 DEF StatusKnown

LEMMA CallKeepsRowsGoForCause ==
    ASSUME SessionInv, CauseInv, NEW r \in Call, CallStep(r)
    PROVE  RowsGoForCause'
<1>0. [Next]_vars
  BY DEF Next, CallStep
<1> SUFFICES ASSUME NEW t \in Call, Issued(t)', row'[t] = Absent PROVE Over(t)'
  BY DEF RowsGoForCause
<1>1. Issued(t)
  BY RowKinds, Ground DEF Deletes, IssuesPair, Issued
<1>2. CASE row[t] = Absent
  BY <1>0, <1>1, <1>2, CausesGrow DEF CauseInv, RowsGoForCause
<1>3. CASE row[t] # Absent
  <2>1. Over(t)
    <3>1. Deletes(r) /\ pc[r] # "done"
      BY <1>3, RowKinds, Ground DEF IssuesPair, Deletes
    <3>2. CASE RevokeFamily(r)
      <4>1. tok[r] \in Call /\ Caused(tok[r]) /\ token[t].family = FamilyOf(r)
        BY <1>3, <3>2, Ground DEF RevokeFamily, CauseInv, EndOK, CallOK, Refreshing, Issued
      <4> QED
        BY <4>1 DEF Caused, Over, FamilyOf
    <3>3. CASE DropExpired(r) \/ Revoke(r)
      <4>1. t = tok[r] /\ (Caused(tok[r]) \/ Expired(tok[r]))
        BY <1>3, <3>3, Ground DEF DropExpired, Revoke, CauseInv, EndOK, TokenTypeOK
      <4> QED
        BY <4>1 DEF Over
    <3>4. CASE ~(RevokeFamily(r) \/ DropExpired(r) \/ Revoke(r))
      <4>1. row' = row
        BY <3>1, <3>4 DEF Deletes, CallStep, BackendStep, TokenStep, RotateRead, Claim, Sibling,
           LoginRead, Issue, RegisterRead, CreateWithDefaultWallet, FirstCall, AfterRefresh,
           Render, ArriveLogin, ArriveSignup, ArriveConsoleLogin, SignInArrives, ArriveLogout, Arrive, AnswerLost,
           ApiDown, Ask, tokenVars, Navigate, ApiRequest, SubmitLogin, SubmitPasskey, SubmitConsoleLogin,
           SubmitSignup, LoginDeparts, SubmitLogout
      <4> QED
        BY <1>3, <4>1
    <3> QED
      BY <3>2, <3>3, <3>4
  <2> QED
    BY <1>0, <1>1, <2>1, CausesGrow
<1> QED
  BY <1>2, <1>3

\* The successor of a used token that is still in the cookies.
LEMMA CallKeepsSuccessor ==
    ASSUME SessionInv, CauseInv, NEW r \in Call, CallStep(r)
    PROVE  SuccessorOnItsWay'
<1>0. [Next]_vars /\ now' = now /\ \A q \in Call : q # r => Same(q)
  BY Ground, OneCallMoves DEF Next, CallStep
<1> SUFFICES ASSUME NEW t, t = jar'.refresh, t # Nobody, row'[t] \in Time, ~Caused(t)'
             PROVE  \E d \in Call : Bears(d)' /\ tok'[d] = t /\ since'[d] <= row'[t]
  BY DEF SuccessorOnItsWay, Caused
<1>1. jar.refresh = t /\ Issued(t) /\ token'[t] = token[t] /\ ~Caused(t)
  <2>1. JarOK'
    BY <1>0, StaysInPlace DEF SessionInv
  <2>2. CASE t # jar.refresh
    <3>1. t = r /\ (sends[r] = "tokens" \/ ans[r] = "tokens") /\ at[r] # "over"
      <4>1. CASE Arrive(r)
        BY <2>2, <4>1, Ground, ArrivalLeaves DEF Arrive
      <4>2. CASE ArriveLogin(r) \/ ArriveSignup(r) \/ ArriveConsoleLogin(r)
        BY <2>2, <4>2, Ground, CookieTypes DEF ArriveLogin, ArriveSignup, ArriveConsoleLogin, SignInArrives
      <4>3. CASE ArriveLogout(r)
        BY <4>3, Ground, CookieTypes DEF ArriveLogout
      <4>4. CASE ~(Arrive(r) \/ ArriveLogin(r) \/ ArriveSignup(r) \/ ArriveConsoleLogin(r) \/ ArriveLogout(r))
        <5>1. jar' = jar
          BY <4>4 DEF CallStep, BackendStep, bffVars, FirstCall, AfterRefresh, Render, AnswerLost, ApiDown,
             Navigate, ApiRequest, SubmitLogin, SubmitPasskey, SubmitConsoleLogin, SubmitSignup,
             LoginDeparts, SubmitLogout
        <5> QED
          BY <2>2, <5>1
      <4> QED
        BY <4>1, <4>2, <4>3, <4>4
    <3>2. row[r] \notin Time /\ Issued(r)
      BY <3>1, Ground DEF CallOK, TokenOK
    <3>3. row'[r] \notin Time
      BY <3>2, RowKinds, Ground DEF Deletes, IssuesPair
    <3> QED
      BY <3>1, <3>3
  <2>3. CASE t = jar.refresh
    <3>1. Issued(t)
      BY <2>3 DEF SessionInv, JarOK
    <3> QED
      BY <1>0, <2>3, <3>1, CausesGrow DEF Issued
  <2> QED
    BY <2>2, <2>3
<1>2. t \in Call
  BY <1>1 DEF Issued
<1>3. CASE row[t] \notin Time
  <2>1. IssuesPair(r) /\ t = tok[r] /\ row'[t] = now /\ t # r
    BY <1>1, <1>2, <1>3, RowKinds, Ground DEF Deletes, IssuesPair
  <2>2. BackendStep(r) /\ pc[r] \in Refreshing
    BY <1>2, <2>1, Ground DEF IssuesPair, Issuing, CallOK, SigningIn, Refreshing, CallStep, FirstCall,
       AfterRefresh, Render, ArriveLogin, ArriveSignup, ArriveConsoleLogin, SignInArrives, ArriveLogout,
       Arrive, AnswerLost, ApiDown, Navigate, ApiRequest, SubmitLogin, SubmitPasskey, SubmitConsoleLogin,
       SubmitSignup, LoginDeparts, SubmitLogout, Depart
  <2>3. /\ at' = at /\ kind' = kind /\ since' = since /\ pc'[r] = "done" /\ tok' = tok
        /\ ans'[r] = "tokens"
    <3>1. Claim(r) \/ Sibling(r) \/ Issue(r)
      BY <2>1, <2>2 DEF BackendStep, TokenStep, RotateRead, RevokeFamily, DropExpired, LoginRead, RegisterRead,
         CreateWithDefaultWallet, Revoke, IssuesPair, Issuing
    <3>2. pc'[r] = "done" /\ tok' = tok /\ ans'[r] = "tokens"
      BY <2>1, <3>1, Ground DEF Claim, Sibling, Issue, IssueTokens, GoTo, Answer, TokenTypeOK, IssuesPair
    <3> QED
      BY <2>2, <3>2 DEF BackendStep, bffVars
  <2>4. at[r] = "wait" /\ kind[r] \in {"page", "api"} /\ since[r] <= now
    BY <2>2, Ground DEF CallOK, Refreshing, Travelling
  <2> QED
    BY <1>0, <2>1, <2>3, <2>4 DEF Bears
<1>4. CASE row[t] \in Time
  <2>1. row'[t] = row[t]
    BY <1>2, <1>4, RowKinds, Ground DEF Deletes, IssuesPair, TokenOK
  <2>2. PICK d \in Call : Bears(d) /\ tok[d] = t /\ since[d] <= row[t]
    BY <1>1, <1>4 DEF CauseInv, SuccessorOnItsWay
  <2>3. CASE d # r
    BY <1>0, <2>1, <2>2, <2>3 DEF Same, Bears
  <2>4. CASE d = r
    <3>0. /\ at[r] \in {"wait", "render", "answer"} /\ (at[r] = "wait" => pc[r] = "done")
          /\ pc[r] \in {"idle", "done"} /\ kind[r] \in {"page", "api"}
          /\ (at[r] = "wait" => ans[r] = "tokens") /\ (at[r] \in {"render", "answer"} => sends[r] = "tokens")
      BY <2>2, <2>4, Ground DEF Bears, CallOK
    <3>1. CASE AfterRefresh(r)
      <4>1. ans[r] = "tokens"
        BY <3>0, <3>1 DEF AfterRefresh
      <4>2. sends'[r] = "tokens" /\ at'[r] \in {"render", "answer"}
        BY <3>1, <4>1, Ground, Outcomes DEF AfterRefresh, AnswerOutcome, TypeOK
      <4> QED
        BY <2>1, <2>2, <2>4, <3>0, <3>1, <4>2 DEF AfterRefresh, Bears, tokenVars
    <3>2. CASE Render(r)
      <4>1. at'[r] = "answer" /\ sends' = sends /\ kind' = kind /\ since' = since /\ tok' = tok /\ sends[r] = "tokens"
        BY <3>0, <3>2, Ground DEF Render, TypeOK, tokenVars
      <4> QED
        BY <2>1, <2>2, <2>4, <3>0, <4>1 DEF Bears
    <3>3. CASE AnswerLost(r)
      <4>1. ans[r] = "tokens" /\ at[r] = "wait"
        BY <3>0, <3>3 DEF AnswerLost
      <4>2. Issued(r) /\ token[r].family = token[t].family /\ token[t].family \in Call
        BY <1>1, <1>2, <2>2, <2>4, <4>1, Ground DEF CallOK, TokenOK, FamilyOf
      <4>3. causes'[token[t].family] # {}
        BY <3>3, <4>1, <4>2, Ground DEF AnswerLost, TypeOK
      <4> QED
        BY <1>1, <4>3 DEF Caused
    <3>4. CASE Arrive(r)
      <4>1. jar'.refresh = r /\ at[r] = "answer"
        BY <3>0, <3>4, Ground, ArrivalLeaves DEF Arrive
      <4> QED
        BY <1>4, <4>1, Ground DEF TokenOK, Issued
    <3>5. CASE ~(AfterRefresh(r) \/ Render(r) \/ AnswerLost(r) \/ Arrive(r))
      <4>1. FALSE
        BY <3>0, <3>5 DEF CallStep, FirstCall, ArriveLogin, ArriveSignup, ArriveConsoleLogin, SignInArrives,
           ArriveLogout, ApiDown, Navigate, ApiRequest, SubmitLogin, SubmitPasskey, SubmitConsoleLogin,
           SubmitSignup, LoginDeparts, SubmitLogout, Depart, BackendStep, TokenStep, RotateRead,
           RevokeFamily, DropExpired, Claim, Sibling, LoginRead, Issue, RegisterRead,
           CreateWithDefaultWallet, Revoke
      <4> QED
        BY <4>1
    <3> QED
      BY <3>1, <3>2, <3>3, <3>4, <3>5
  <2> QED
    BY <2>3, <2>4
<1> QED
  BY <1>3, <1>4

\* The other requests, while request r or the world moves.
LEMMA OthersKeepEndOK ==
    ASSUME SessionInv, SessionInv', [Next]_vars, NEW q \in Call, EndOK(q), Same(q), now' \in Nat, now <= now',
           tok[q] # Nobody /\ row'[tok[q]] \in Time => row'[tok[q]] \in {row[tok[q]], now}
    PROVE  EndOK(q)'
<1>0. CallOK(q) /\ now \in Nat /\ since[q] \in Nat /\ MaxLatency \in Nat /\ app' = app
  BY Ground, CausesGrow
<1>1. tok[q] # Nobody => tok[q] \in Call /\ Issued(tok[q])
  BY <1>0 DEF CallOK, Issued
<1>2. tok[q] # Nobody => /\ Caused(tok[q]) => Caused(tok[q])'
                         /\ Expired(tok[q]) => Expired(tok[q])'
                         /\ Over(tok[q]) => Over(tok[q])'
  BY <1>1, CausesGrow DEF Same, Caused, Expired, Over
<1>3. pc[q] = "rotate" \/ at[q] = "first" => since[q] <= now
  BY <1>0 DEF CallOK, Travelling
<1>4. Rejected(q)' <=> Rejected(q)
  BY <1>0 DEF Rejected, Same
<1>5. pc[q] \in {"logout", "revokeFamily", "dropExpired"} => tok[q] # Nobody
  BY <1>0 DEF CallOK, Refreshing
<1>6. tok'[q] = tok[q] /\ pc'[q] = pc[q] /\ kind'[q] = kind[q] /\ ans'[q] = ans[q] /\ at'[q] = at[q]
      /\ since'[q] = since[q]
  BY DEF Same
<1>7. ASSUME pc'[q] = "rotate" \/ at'[q] = "first", tok'[q] # Nobody, row'[tok'[q]] \in Time, ~Caused(tok[q])'
      PROVE  since'[q] <= row'[tok'[q]] + MaxLatency
  <2>1. ~Caused(tok[q])
    BY <1>2, <1>6, <1>7
  <2>2. CASE row'[tok[q]] = now
    BY <1>0, <1>3, <1>6, <1>7, <2>2
  <2>3. CASE row'[tok[q]] = row[tok[q]]
    BY <1>6, <1>7, <2>1, <2>3 DEF EndOK
  <2> QED
    BY <1>6, <1>7, <2>2, <2>3
<1> QED
  BY <1>1, <1>2, <1>4, <1>5, <1>6, <1>7 DEF EndOK, Caused, Expired, Over

\* Request r itself.
LEMMA OneKeepsEndOK ==
    ASSUME SessionInv, SessionInv', CauseInv, NEW r \in Call, CallStep(r)
    PROVE  EndOK(r)'
<1>0. /\ [Next]_vars /\ now' = now /\ app' = app /\ EndOK(r) /\ CallOK(r)
      /\ TypeOK /\ TokenTypeOK /\ now \in Nat /\ MaxLatency \in Nat
  BY Ground, OneCallMoves, CausesGrow DEF Next, CallStep, CauseInv
<1>1. \A t \in Call : Issued(t) => /\ token'[t] = token[t]
                                   /\ causes[token[t].family] # {} => causes'[token[t].family] # {}
                                   /\ Expired(t) => token'[t].at + REFRESH_TTL < now'
  BY <1>0, CausesGrow DEF Caused, Expired
<1>2. tok[r] # Nobody => tok[r] \in Call /\ Issued(tok[r]) /\ token'[tok[r]] = token[tok[r]]
  BY <1>0, <1>1 DEF CallOK, Issued
<1>3. ASSUME tok' = tok, tok[r] # Nobody
      PROVE  /\ Caused(tok[r]) => Caused(tok[r])'
             /\ Expired(tok[r]) => Expired(tok[r])'
             /\ Over(tok[r]) => Over(tok[r])'
  BY <1>1, <1>2, <1>3 DEF Caused, Expired, Over
<1>4. CASE \/ Navigate(r) \/ ApiRequest(r) \/ SubmitLogin(r) \/ SubmitPasskey(r)
           \/ SubmitConsoleLogin(r) \/ SubmitSignup(r) \/ SubmitLogout(r)
  <2>1. at[r] = "idle" /\ pc[r] = "idle" /\ ans[r] = "none" /\ sends[r] = "none" /\ sends' = sends
        /\ since'[r] = now /\ token' = token /\ row' = row
    BY <1>0, <1>4 DEF Navigate, ApiRequest, SubmitLogin, SubmitPasskey, SubmitConsoleLogin, SubmitSignup,
       LoginDeparts, SubmitLogout, Depart, Ask, CallOK, TypeOK, tokenVars
  <2>2. /\ pc'[r] \notin {"revokeFamily", "dropExpired"} /\ ans'[r] \in {"none", "ok"}
        /\ tok'[r] \in {Nobody, jar.refresh}
        /\ (pc'[r] = "rotate" \/ at'[r] = "first" => causes' = causes)
        /\ (pc'[r] = "logout" => SubmitLogout(r))
    <3>1. tok[r] = Nobody
      BY <1>0, <2>1 DEF CallOK
    <3>2. CASE Navigate(r) \/ ApiRequest(r)
      <4>1. pc'[r] \in {"idle", "rotate"} /\ ans' = ans /\ causes' = causes /\ tok'[r] \in {tok[r], jar.refresh}
        BY <1>0, <2>1, <3>2 DEF Navigate, ApiRequest, Ask, TokenTypeOK, tokenVars
      <4> QED
        BY <2>1, <3>1, <4>1
    <3>3. CASE SubmitLogin(r) \/ SubmitPasskey(r) \/ SubmitConsoleLogin(r) \/ SubmitSignup(r)
      <4>1. pc'[r] \in {"login", "register"} /\ ans' = ans /\ causes' = causes /\ tok'[r] = Nobody
        BY <1>0, <3>3 DEF SubmitLogin, SubmitPasskey, SubmitConsoleLogin, SubmitSignup, LoginDeparts, Ask, TokenTypeOK
      <4> QED
        BY <2>1, <4>1
    <3>4. CASE SubmitLogout(r)
      <4>1. /\ pc'[r] \in {"logout", "done"} /\ ans'[r] \in {ans[r], "ok"} /\ at'[r] = "wait"
            /\ tok'[r] \in {tok[r], jar.refresh}
        BY <1>0, <3>4 DEF SubmitLogout, Depart, Ask, Answer, TypeOK, TokenTypeOK
      <4> QED
        BY <2>1, <3>1, <3>4, <4>1
    <3> QED
      BY <1>4, <3>2, <3>3, <3>4
  <2>3. pc'[r] = "logout" => Caused(tok[r])'
    <3>1. ASSUME SubmitLogout(r), pc'[r] = "logout"
          PROVE  /\ jar.refresh # Nobody /\ tok'[r] = jar.refresh
                 /\ causes' = [causes EXCEPT ![token[jar.refresh].family] = @ \cup {"logout"}]
      BY <1>0, <3>1 DEF SubmitLogout, Ask, Answer, TokenTypeOK
    <3>2. jar.refresh # Nobody => Issued(jar.refresh) /\ token[jar.refresh].family \in Call
      BY Ground DEF SessionInv, JarOK, Issued
    <3>3. ASSUME pc'[r] = "logout" PROVE causes'[token[jar.refresh].family] # {}
      <4>1. causes \in [Call -> SUBSET {"logout", "suspended", "lost"}]
        BY <1>0 DEF TypeOK
      <4>2. PICK f \in Call : f = token[jar.refresh].family
        BY <2>2, <3>1, <3>2, <3>3
      <4>3. causes' = [causes EXCEPT ![f] = @ \cup {"logout"}]
        BY <2>2, <3>1, <3>3, <4>2
      <4>4. "logout" \in causes'[f]
        BY <4>1, <4>3
      <4> QED
        BY <4>2, <4>4
    <3> QED
      BY <2>1, <2>2, <3>1, <3>3 DEF Caused
  <2>4. ASSUME pc'[r] = "rotate" \/ at'[r] = "first", tok'[r] # Nobody, row'[tok'[r]] \in Time, ~Caused(tok[r])'
        PROVE  since'[r] <= row'[tok'[r]] + MaxLatency
    <3>1. tok'[r] = jar.refresh /\ jar.refresh # Nobody /\ row[jar.refresh] \in Time /\ ~Caused(jar.refresh)
      BY <2>1, <2>2, <2>4 DEF Caused
    <3>2. PICK d \in Call : Bears(d) /\ tok[d] = jar.refresh /\ since[d] <= row[jar.refresh]
      BY <3>1 DEF CauseInv, SuccessorOnItsWay
    <3>3. now <= since[d] + MaxLatency /\ since[d] \in Nat /\ row[jar.refresh] \in Nat
      BY <3>1, <3>2, Ground DEF Bears, CallOK, Travelling, Time
    <3> QED
      BY <1>0, <2>1, <3>1, <3>2, <3>3
  <2> QED
    BY <2>1, <2>2, <2>3, <2>4 DEF EndOK, Rejected
<1>5. CASE BackendStep(r)
  <2>1. /\ tok' = tok /\ kind' = kind /\ at' = at /\ sends' = sends /\ since' = since /\ causes' = causes
    BY <1>5 DEF BackendStep, bffVars, TokenStep, RotateRead, RevokeFamily, DropExpired, Claim, Sibling,
       LoginRead, Issue, RegisterRead, CreateWithDefaultWallet, Revoke, IssueTokens
  <2>2. pc[r] \notin {"idle", "done"} /\ at[r] = "wait" /\ sends[r] = "none"
    <3>1. pc[r] \notin {"idle", "done"}
      BY <1>5 DEF BackendStep, TokenStep, RotateRead, RevokeFamily, DropExpired, Claim, Sibling,
         LoginRead, Issue, RegisterRead, CreateWithDefaultWallet, Revoke
    <3> QED
      BY <1>0, <3>1 DEF CallOK
  <2>3. pc'[r] # "rotate" /\ pc'[r] # "logout"
    <3>1. CASE RotateRead(r)
      <4>1. pc'[r] \in {"done", "revokeFamily", "dropExpired", "sibling", "claim"}
        BY <1>0, <3>1 DEF RotateRead, RotateBranch, GoTo, Answer, TokenTypeOK
      <4> QED
        BY <4>1
    <3>2. CASE ~RotateRead(r)
      BY <1>0, <1>5, <3>2 DEF BackendStep, TokenStep, RevokeFamily, DropExpired, Claim, Sibling, LoginRead,
         Issue, RegisterRead, CreateWithDefaultWallet, Revoke, IssueTokens, GoTo, Answer, TokenTypeOK
    <3> QED
      BY <3>1, <3>2
  <2>4. ASSUME RotateRead(r)
        PROVE  /\ pc'[r] = "revokeFamily" => Caused(tok[r])
               /\ pc'[r] = "dropExpired" => Expired(tok[r])
               /\ ans'[r] = "rejected" => Over(tok[r])
    <3>1. tok[r] # Nobody /\ tok[r] \in Call /\ Issued(tok[r]) /\ pc[r] = "rotate"
      BY <1>0, <1>2, <2>4 DEF RotateRead, CallOK, Refreshing
    <3>2. /\ pc'[r] = "revokeFamily" => /\ row[tok[r]] \in Time
                                        /\ ~(now - row[tok[r]] < REUSE_GRACE)
          /\ pc'[r] = "dropExpired" => Expired(tok[r])
          /\ ans'[r] = "rejected" => ans[r] = "rejected" \/ row[tok[r]] = Absent \/ status # "active"
      <4>1. row[tok[r]] \in Time \cup {Absent, Unused}
        BY <3>1, Ground
      <4>2. \/ pc'[r] = "done" /\ RotateBranch(tok[r]) = "rejected"
            \/ pc'[r] = RotateBranch(tok[r]) /\ ans' = ans /\ RotateBranch(tok[r]) # "rejected"
        BY <1>0, <2>4 DEF RotateRead, GoTo, Answer, TokenTypeOK
      <4> QED
        BY <4>1, <4>2 DEF RotateBranch
    <3>3. pc'[r] = "revokeFamily" => Caused(tok[r])
      <4> SUFFICES ASSUME row[tok[r]] \in Time, ~(now - row[tok[r]] < REUSE_GRACE), ~Caused(tok[r]) PROVE FALSE
        BY <3>2
      <4>1. since[r] <= row[tok[r]] + MaxLatency
        BY <1>0, <3>1 DEF EndOK
      <4>2. now <= since[r] + MaxLatency
        BY <1>0, <2>2 DEF CallOK, Travelling
      <4>3. row[tok[r]] \in Nat /\ since[r] \in Nat /\ now \in Nat /\ MaxLatency \in Nat /\ REUSE_GRACE \in Nat
            /\ MaxLatency + MaxLatency < REUSE_GRACE
        <5>1. MaxLatency \in Nat /\ 2 * MaxLatency < REUSE_GRACE
          BY Ground
        <5>2. 2 * MaxLatency = MaxLatency + MaxLatency
          BY <5>1
        <5> QED
          BY <3>1, <5>1, <5>2, Ground
      <4> QED
        BY <4>1, <4>2, <4>3
    <3>4. row[tok[r]] = Absent => Over(tok[r])
      BY <3>1 DEF CauseInv, RowsGoForCause
    <3>5. status # "active" => Over(tok[r])
      <4>1. status # "none"
        BY <3>1 DEF CauseInv, StatusKnown
      <4>2. token[FamilyOf(r)].family = FamilyOf(r) /\ FamilyOf(r) \in Call
        BY <3>1, Ground DEF TokenOK, FamilyOf
      <4>3. status = "suspended" => causes[FamilyOf(r)] # {}
        BY <4>2 DEF CauseInv, StatusKnown
      <4> QED
        BY <1>0, <4>1, <4>3 DEF TokenTypeOK, Over, Caused, FamilyOf
    <3>6. ans[r] = "rejected" => Over(tok[r])
      BY <1>0, <3>1 DEF EndOK, CallOK, Refreshing
    <3> QED
      BY <3>2, <3>3, <3>4, <3>5, <3>6
  <2>5. ASSUME ~RotateRead(r)
        PROVE  /\ pc'[r] \notin {"revokeFamily", "dropExpired"}
               /\ ans'[r] = "rejected" => \/ ans[r] = "rejected" \/ kind[r] \in {"login", "register"}
                                          \/ pc[r] = "revokeFamily" \/ pc[r] = "dropExpired"
    <3>1. CASE LoginRead(r) \/ RegisterRead(r) \/ CreateWithDefaultWallet(r)
      <4>1. kind[r] \in {"login", "register"}
        BY <1>0, <3>1 DEF LoginRead, RegisterRead, CreateWithDefaultWallet, CallOK, SigningIn
      <4> QED
        BY <1>0, <3>1, <4>1 DEF LoginRead, RegisterRead, CreateWithDefaultWallet, GoTo, Answer, TokenTypeOK
    <3>2. CASE ~(LoginRead(r) \/ RegisterRead(r) \/ CreateWithDefaultWallet(r))
      BY <1>0, <1>5, <2>5, <3>2 DEF BackendStep, TokenStep, RevokeFamily, DropExpired, Claim, Sibling,
         Issue, Revoke, IssueTokens, GoTo, Answer, TokenTypeOK
    <3> QED
      BY <3>1, <3>2
  <2>6. kind[r] \in {"page", "api"} /\ ans'[r] = "rejected" => tok[r] # Nobody /\ Over(tok[r])
    <3>1. pc[r] \in {"rotate", "revokeFamily", "dropExpired"} => tok[r] # Nobody
      BY <1>0 DEF CallOK, Refreshing
    <3>2. RotateRead(r) => pc[r] = "rotate"
      BY DEF RotateRead
    <3> QED
      BY <1>0, <2>4, <2>5, <3>1, <3>2 DEF EndOK, Over
  <2>7. pc'[r] \in {"revokeFamily", "dropExpired"} => tok[r] # Nobody
    BY <1>0, <2>5 DEF RotateRead, CallOK, Refreshing
  <2>8. /\ pc'[r] = "revokeFamily" => Caused(tok[r])'
        /\ pc'[r] = "dropExpired" => Expired(tok[r])'
        /\ kind[r] \in {"page", "api"} /\ ans'[r] = "rejected" => tok[r] # Nobody /\ Over(tok[r])'
    BY <1>3, <2>1, <2>4, <2>5, <2>6, <2>7
  <2>9. ~Rejected(r)' /\ at'[r] # "first"
    BY <2>1, <2>2 DEF Rejected
  <2> QED
    BY <2>1, <2>3, <2>8, <2>9 DEF EndOK
<1>6. CASE FirstCall(r)
  <2>1. /\ tok' = tok /\ row' = row /\ token' = token /\ causes' = causes /\ since' = since /\ sends' = sends
        /\ ans' = ans /\ at[r] = "first" /\ pc[r] = "idle" /\ sends[r] = "none" /\ ans[r] = "none"
        /\ pc'[r] \in {"idle", "rotate"} /\ at'[r] # "first"
    BY <1>0, <1>6 DEF FirstCall, Ask, CallOK, tokenVars, TypeOK, TokenTypeOK
  <2> QED
    BY <1>0, <2>1 DEF EndOK, Rejected, Caused
<1>7. CASE AfterRefresh(r)
  <2>1. /\ tok' = tok /\ row' = row /\ token' = token /\ causes' = causes /\ kind' = kind
        /\ ans' = ans /\ pc' = pc /\ kind[r] \in {"page", "api"} /\ pc[r] = "done"
    BY <1>7 DEF AfterRefresh, tokenVars
  <2>2. /\ at'[r] \in {"render", "answer"}
        /\ sends'[r] = "clear" /\ app = "customer" => ans[r] = "rejected"
    BY <1>0, <1>7, Outcomes DEF AfterRefresh, AnswerOutcome, TypeOK
  <2>3. ans[r] = "rejected" => tok[r] # Nobody /\ Over(tok[r])'
    BY <1>0, <1>3, <2>1 DEF EndOK
  <2> QED
    BY <1>0, <2>1, <2>2, <2>3 DEF EndOK, Rejected
<1>8. CASE Render(r)
  <2>1. /\ tok' = tok /\ row' = row /\ token' = token /\ causes' = causes /\ kind' = kind /\ sends' = sends
        /\ ans' = ans /\ pc' = pc /\ pc[r] \in {"idle", "done"} /\ at'[r] = "answer"
    BY <1>0, <1>8 DEF Render, tokenVars, CallOK, TypeOK
  <2>2. (Rejected(r) \/ (kind[r] \in {"page", "api"} /\ ans[r] = "rejected")) => tok[r] # Nobody /\ Over(tok[r])'
    BY <1>0, <1>3, <2>1 DEF EndOK
  <2>3. Rejected(r)' <=> Rejected(r)
    BY <1>0, <2>1 DEF Rejected
  <2> QED
    BY <2>1, <2>2, <2>3 DEF EndOK
<1>9. CASE ArriveLogin(r) \/ ArriveSignup(r) \/ ArriveConsoleLogin(r) \/ ArriveLogout(r) \/ Arrive(r)
  <2>1. /\ pc' = pc /\ pc[r] \in {"idle", "done"} /\ kind'[r] = "none" /\ at'[r] = "over"
    BY <1>0, <1>9 DEF ArriveLogin, ArriveSignup, ArriveConsoleLogin, ArriveLogout, Arrive, SignInArrives,
       Forget, tokenVars, CallOK, TypeOK
  <2> QED
    BY <2>1 DEF EndOK, Rejected
<1>10. CASE AnswerLost(r) \/ \E a \in {"unreachable", "failed"} : ApiDown(r, a)
  <2>1. /\ pc'[r] = "done" /\ ans'[r] \in {"unreachable", "failed"} /\ sends'[r] = "none" /\ at'[r] = "wait"
    BY <1>0, <1>10 DEF AnswerLost, ApiDown, Answer, CallOK, TokenTypeOK, bffVars
  <2> QED
    BY <2>1 DEF EndOK, Rejected
<1> QED
  BY <1>4, <1>5, <1>6, <1>7, <1>8, <1>9, <1>10 DEF CallStep

\* Staff and time.
LEMMA WorldKeepsCauses ==
    ASSUME SessionInv, SessionInv', CauseInv,
           SeedStaff \/ Tick \/ \E s \in {"active", "suspended"} : StaffSetsStatus(s)
    PROVE  CauseInv'
<1>0. /\ [Next]_vars /\ TypeOK /\ TokenTypeOK /\ now \in Nat /\ now' \in Nat /\ now <= now'
      /\ token' = token /\ pc' = pc /\ tok' = tok /\ since' = since
      /\ (row' = row \/ (status' = "suspended" /\ row' = [t \in Call |-> Absent]))
      /\ at' = at /\ sends' = sends /\ kind' = kind /\ ans' = ans
      /\ jar'.refresh \in {jar.refresh, Nobody}
  <2>1. now \in Nat /\ now' \in Nat /\ TypeOK /\ TokenTypeOK
    BY TokenAssumption DEF SessionInv, TypeOK, TokenTypeOK, Time
  <2>2. now <= now' /\ at' = at /\ sends' = sends /\ kind' = kind /\ ans' = ans
        /\ jar'.refresh \in {jar.refresh, Nobody}
    BY <2>1 DEF SeedStaff, Tick, StaffSetsStatus, UpdateStatus, bffVars
  <2> QED
    BY <2>1, <2>2, WorldRows DEF Next
<1>1. \A q \in Call : EndOK(q)'
  <2> SUFFICES ASSUME NEW q \in Call PROVE EndOK(q)'
    OBVIOUS
  <2>1. Same(q) /\ EndOK(q) /\ CallOK(q)
    BY <1>0, Ground DEF Same, CauseInv
  <2>2. tok[q] # Nobody /\ row'[tok[q]] \in Time => row'[tok[q]] \in {row[tok[q]], now}
    BY <1>0, <2>1, Ground DEF CallOK, Issued
  <2> QED
    BY <1>0, <2>1, <2>2, OthersKeepEndOK
<1>2. StatusKnown' /\ RowsGoForCause'
  <2>1. CASE row' = row /\ causes' = causes /\ status' # "suspended"
    <3>1. StatusKnown'
      BY <1>0, <2>1 DEF CauseInv, StatusKnown, Issued, SeedStaff, Tick, StaffSetsStatus, UpdateStatus
    <3>2. RowsGoForCause'
      BY <1>0, <2>1, CausesGrow DEF CauseInv, RowsGoForCause, Issued
    <3> QED
      BY <3>1, <3>2
  <2>2. CASE Tick
    <3>1. StatusKnown'
      BY <1>0, <2>2 DEF CauseInv, StatusKnown, Issued, Tick
    <3>2. RowsGoForCause'
      BY <1>0, <2>2, CausesGrow DEF CauseInv, RowsGoForCause, Issued, Tick
    <3> QED
      BY <3>1, <3>2
  <2>3. CASE StaffSetsStatus("suspended")
    <3>1. \A f \in Call : token[f].family = f \/ pc[f] = "issue" => causes'[f] # {}
      BY <2>3 DEF StaffSetsStatus
    <3>2. status' = "suspended"
      BY <2>3 DEF StaffSetsStatus, UpdateStatus
    <3>3. RowsGoForCause'
      <4> SUFFICES ASSUME NEW t \in Call, Issued(t) PROVE Over(t)'
        BY <1>0 DEF RowsGoForCause, Issued
      <4>1. token[t].family \in Call /\ token[token[t].family].family = token[t].family
        BY Ground DEF TokenOK
      <4> QED
        BY <1>0, <3>1, <4>1 DEF Over, Caused
    <3> QED
      BY <1>0, <3>1, <3>2, <3>3 DEF StatusKnown
  <2>4. CASE SeedStaff
    BY <2>1, <2>4 DEF SeedStaff, bffVars
  <2>5. CASE StaffSetsStatus("active")
    <3>1. causes' = causes
      BY <1>0, <2>5 DEF StaffSetsStatus, TypeOK
    <3>2. row' = row /\ status' = "active"
      BY <2>5 DEF StaffSetsStatus, UpdateStatus
    <3> QED
      BY <2>1, <3>1, <3>2
  <2> QED
    BY <2>2, <2>3, <2>4, <2>5
<1>3. SuccessorOnItsWay'
  <2> SUFFICES ASSUME jar'.refresh # Nobody, row'[jar'.refresh] \in Time,
                      ~(causes'[token'[jar'.refresh].family] # {})
               PROVE  \E d \in Call : Bears(d)' /\ tok'[d] = jar'.refresh /\ since'[d] <= row'[jar'.refresh]
    BY DEF SuccessorOnItsWay, Caused
  <2>1. jar'.refresh = jar.refresh /\ Issued(jar.refresh)
    BY <1>0 DEF SessionInv, JarOK
  <2>2. row' = row
    BY <1>0, <2>1, Ground DEF Issued
  <2>3. ~Caused(jar.refresh)
    BY <1>0, <2>1, CausesGrow DEF Caused, Issued
  <2>4. PICK d \in Call : Bears(d) /\ tok[d] = jar.refresh /\ since[d] <= row[jar.refresh]
    BY <2>1, <2>2, <2>3 DEF CauseInv, SuccessorOnItsWay
  <2> QED
    BY <1>0, <2>1, <2>2, <2>4 DEF Bears
<1> QED
  BY <1>1, <1>2, <1>3 DEF CauseInv

LEMMA CausesKept == SessionInv /\ CauseInv /\ [Next]_vars => CauseInv'
<1> SUFFICES ASSUME SessionInv, CauseInv, [Next]_vars PROVE CauseInv'
  OBVIOUS
<1>0. SessionInv'
  BY StaysInPlace
<1>1. ASSUME NEW r \in Call, CallStep(r) PROVE CauseInv'
  <2>1. \A q \in Call : EndOK(q)'
    <3> SUFFICES ASSUME NEW q \in Call, q # r PROVE EndOK(q)'
      BY <1>0, <1>1, OneKeepsEndOK
    <3>1. Same(q) /\ EndOK(q) /\ CallOK(q) /\ now' = now /\ now \in Nat
      BY <1>1, Ground, OneCallMoves DEF CauseInv
    <3>2. \A t \in Call : row'[t] \in Time => row'[t] \in {row[t], now}
      BY <1>1, RowKinds, Ground DEF Deletes, IssuesPair
    <3>3. tok[q] # Nobody => tok[q] \in Call
      BY <3>1 DEF CallOK, Issued
    <3> QED
      BY <1>0, <3>1, <3>2, <3>3, OthersKeepEndOK
  <2> QED
    BY <1>1, <2>1, CallKeepsStatusKnown, CallKeepsRowsGoForCause, CallKeepsSuccessor DEF CauseInv
<1>2. CASE UNCHANGED vars
  BY <1>2 DEF vars, tokenVars, bffVars, CauseInv, StatusKnown, RowsGoForCause, SuccessorOnItsWay, EndOK,
              Rejected, Bears, Over, Caused, Expired, Issued
<1> QED
  BY <1>0, <1>1, <1>2, NextSteps, WorldKeepsCauses

\* A page or a route of the customer app drops the cookies only of a session
\* that was logged out, suspended, has expired, or lost an answer with its
\* tokens: refreshing it from any number of requests at once never ends it.
THEOREM EndsForCause == Spec => []SessionEndsForCause
<1>1. Init => CauseInv
  BY DEF Init, TokenInit, NoCookies, CauseInv, StatusKnown, RowsGoForCause, SuccessorOnItsWay, EndOK,
         Rejected, Issued
<1>2. SessionInv /\ CauseInv => SessionEndsForCause
  BY DEF CauseInv, EndOK, Over, Caused, FamilyOf, SessionEndsForCause
<1> QED
  BY <1>1, <1>2, SessionsInPlace, CausesKept, PTL DEF Spec
=============================================================================

---------------------------- MODULE BffSession ----------------------------
(***************************************************************************)
(* A browser session through a Next.js app: the cookies of one browser,    *)
(* the proxy that runs before every page, the route handlers under /api,   *)
(* and the login, sign-up and logout forms, in front of TokenRotation.     *)
(*                                                                         *)
(* A request is named like the call of TokenRotation it may make.  It      *)
(* takes the cookies when it leaves the browser; the answer changes them   *)
(* when it arrives, and answers arrive in any order.  Both apps are here:  *)
(* the customer app keeps a session over a failing API, the staff console  *)
(* does not.                                                               *)
(***************************************************************************)
EXTENDS TokenRotation

CONSTANTS
    MaxLatency,  \* a request is answered, or given up, within this time
    Faults       \* what may go wrong in this instance

FaultNames == {"unreachable", "serverError", "lost"}

\* Two round trips fit into the reuse window: a request that took the old
\* cookie just before the rotated one arrived still finds it open.
ASSUME LatencyAssumption ==
    /\ MaxLatency \in Nat \ {0}
    /\ 2 * MaxLatency < REUSE_GRACE
    /\ Faults \subseteq FaultNames

VARIABLES
    app,    \* "customer" or "console"
    jar,    \* the browser's cookies
    page,   \* the page it shows
    kind,   \* what each request is
    at,     \* where it is
    acc,    \* the access token it carries
    sends,  \* the Set-Cookie of its answer
    shows,  \* the page its answer leads to
    since,  \* when it left the browser
    causes  \* per family, what ended it or may end it: a logout, a
            \* suspension, an answer with its tokens that was lost

bffVars == <<app, jar, page, kind, at, acc, sends, shows, since, causes>>
vars == <<tokenVars, bffVars>>

NoCookies == [access |-> Nobody, accessTill |-> 0, refresh |-> Nobody,
              refreshTill |-> 0, sessionTill |-> 0]
Kinds == {"none", "page", "api", "login", "register", "logout"}
Stages == {"idle", "first", "wait", "render", "answer", "over"}

TypeOK ==
    /\ TokenTypeOK
    /\ app \in {"customer", "console"}
    /\ jar \in [access : Call \cup {Nobody}, accessTill : Nat, refresh : Call \cup {Nobody},
                refreshTill : Nat, sessionTill : Nat]
    /\ page \in {"login", "app"}
    /\ kind \in [Call -> Kinds]
    /\ at \in [Call -> Stages]
    /\ acc \in [Call -> Call \cup {Nobody}]
    /\ sends \in [Call -> {"none", "tokens", "clear"}]
    /\ shows \in [Call -> {"same", "login", "app"}]
    /\ since \in [Call -> Time]
    /\ causes \in [Call -> SUBSET {"logout", "suspended", "lost"}]

Init ==
    /\ TokenInit
    /\ app \in {"customer", "console"}
    /\ jar = NoCookies
    /\ page = "login"
    /\ kind = [r \in Call |-> "none"]
    /\ at = [r \in Call |-> "idle"]
    /\ acc = [r \in Call |-> Nobody]
    /\ sends = [r \in Call |-> "none"]
    /\ shows = [r \in Call |-> "same"]
    /\ since = [r \in Call |-> 0]
    /\ causes = [f \in Call |-> {}]

HasSession == jar.sessionTill # 0

-----------------------------------------------------------------------------
(* The cookie helpers of lib/auth/session.ts.                              *)

RefreshAuthCookies(j, r) ==
    [j EXCEPT !.access = r, !.accessTill = now + ACCESS_TTL,
              !.refresh = r, !.refreshTill = now + REFRESH_TTL]
SetAuthCookies(j, r) == [RefreshAuthCookies(j, r) EXCEPT !.sessionTill = now + REFRESH_TTL]
ClearAuthCookies == NoCookies

\* The browser applies an answer.
WithAnswer(j, r) ==
    CASE sends[r] = "tokens" -> RefreshAuthCookies(j, r)
      [] sends[r] = "clear" -> ClearAuthCookies
      [] OTHER -> j

-----------------------------------------------------------------------------
(* Requests leave the browser.                                             *)

Depart(r, k, stage) ==
    /\ at[r] = "idle"
    /\ kind' = [kind EXCEPT ![r] = k]
    /\ at' = [at EXCEPT ![r] = stage]
    /\ since' = [since EXCEPT ![r] = now]
\* Nothing of a request outlives its answer.
Forget(r) ==
    /\ kind' = [kind EXCEPT ![r] = "none"]
    /\ at' = [at EXCEPT ![r] = "over"]
    /\ acc' = [acc EXCEPT ![r] = Nobody]
    /\ sends' = [sends EXCEPT ![r] = "none"]
    /\ shows' = [shows EXCEPT ![r] = "same"]
    /\ since' = [since EXCEPT ![r] = 0]
Ask(r, place, t) ==
    /\ pc' = [pc EXCEPT ![r] = place]
    /\ tok' = [tok EXCEPT ![r] = t]
    /\ UNCHANGED <<now, status, changes, token, row, ans, late>>

\* The decision of the proxy for a page that needs a session.
ProxyDecision ==
    IF ~HasSession THEN "redirect"
    ELSE IF jar.access = Nobody /\ jar.refresh # Nobody THEN "refresh" ELSE "next"

\* A navigation, or one of its prefetches.
Navigate(r) ==
    /\ \/ /\ ProxyDecision = "redirect"
          /\ Depart(r, "page", "answer")
          /\ shows' = [shows EXCEPT ![r] = "login"]
          /\ UNCHANGED <<tokenVars, page, acc>>
       \/ /\ ProxyDecision = "refresh"
          /\ Depart(r, "page", "wait")
          /\ Ask(r, "rotate", jar.refresh)
          /\ UNCHANGED <<page, acc, shows>>
       \/ /\ ProxyDecision = "next"
          /\ Depart(r, "page", "render")
          /\ acc' = [acc EXCEPT ![r] = jar.access]
          /\ UNCHANGED <<tokenVars, page, shows>>
    /\ UNCHANGED <<app, jar, sends, causes>>

\* A fetch to a route handler, from a page of the app.
ApiRequest(r) ==
    /\ page = "app"
    /\ Depart(r, "api", "first")
    /\ acc' = [acc EXCEPT ![r] = jar.access]
    /\ tok' = [tok EXCEPT ![r] = jar.refresh]
    /\ UNCHANGED <<now, status, changes, token, row, pc, ans, late>>
    /\ UNCHANGED <<app, jar, page, sends, shows, causes>>

\* serverApiWithRefresh: the first call; only a 401 with a refresh cookie
\* goes on to the refresh.
FirstCall(r) ==
    /\ at[r] = "first"
    /\ IF Authorized(acc[r]) \/ tok[r] = Nobody
       THEN at' = [at EXCEPT ![r] = "answer"] /\ UNCHANGED tokenVars
       ELSE at' = [at EXCEPT ![r] = "wait"] /\ Ask(r, "rotate", tok[r])
    /\ UNCHANGED <<app, jar, page, kind, acc, sends, shows, since, causes>>

\* The forms are on the login page, and disabled while their own request runs.
FormIsFree == \A r \in Call : kind[r] \notin {"login", "register"}
LoginDeparts(r) ==
    /\ page = "login" /\ FormIsFree
    /\ Depart(r, "login", "wait")
    /\ Ask(r, "login", Nobody)
    /\ UNCHANGED <<app, jar, page, acc, sends, shows, causes>>

\* The customer's password form, with the code of a second factor if asked.
SubmitLogin(r) == app = "customer" /\ LoginDeparts(r)

\* The passkey button: the signed challenge takes the place of the password.
SubmitPasskey(r) == app = "customer" /\ LoginDeparts(r)

SubmitConsoleLogin(r) == app = "console" /\ LoginDeparts(r)

SubmitSignup(r) ==
    /\ app = "customer" /\ page = "login" /\ FormIsFree
    /\ Depart(r, "register", "wait")
    /\ Ask(r, "register", Nobody)
    /\ UNCHANGED <<app, jar, page, acc, sends, shows, causes>>

\* The account of a member of staff exists before the console is used.
SeedStaff ==
    /\ app = "console" /\ status = "none"
    /\ status' = "active"
    /\ UNCHANGED <<now, changes, token, row, pc, tok, ans, late, bffVars>>

\* Logout tells the API when there is a token to revoke, and clears anyway.
SubmitLogout(r) ==
    /\ page = "app"
    /\ IF jar.refresh = Nobody
       THEN /\ Depart(r, "logout", "wait")
            /\ Answer(r, "ok")
            /\ UNCHANGED <<now, status, changes, token, row, tok, late, causes>>
       ELSE /\ Depart(r, "logout", "wait")
            /\ Ask(r, "logout", jar.refresh)
            /\ causes' = [causes EXCEPT ![token[jar.refresh].family] = @ \cup {"logout"}]
    /\ UNCHANGED <<app, jar, page, acc, sends, shows>>

-----------------------------------------------------------------------------
(* The route goes on with what the API said.                               *)

Outcome(cookies, stage) == [cookies |-> cookies, stage |-> stage]

\* refreshAtEdge of the customer app: only an explicit rejection ends a session.
EdgeCustomer(a) ==
    CASE a = "tokens" -> Outcome("tokens", "render")
      [] a = "rejected" -> Outcome("clear", "answer")
      [] OTHER -> Outcome("none", "render")
\* refreshAtEdge of the console: a failing answer ends it; a fetch that
\* throws is an error page.
EdgeConsole(a) ==
    CASE a = "tokens" -> Outcome("tokens", "render")
      [] a = "unreachable" -> Outcome("none", "answer")
      [] OTHER -> Outcome("clear", "answer")
\* serverApiWithRefresh of both, after the refresh.
RouteCustomer(a) ==
    CASE a = "tokens" -> Outcome("tokens", "render")
      [] a = "rejected" -> Outcome("clear", "answer")
      [] OTHER -> Outcome("none", "answer")
RouteConsole(a) ==
    CASE a = "tokens" -> Outcome("tokens", "render")
      [] a = "unreachable" -> Outcome("none", "answer")
      [] OTHER -> Outcome("clear", "answer")

AfterRefresh(r) ==
    LET o == IF kind[r] = "page"
             THEN IF app = "customer" THEN EdgeCustomer(ans[r]) ELSE EdgeConsole(ans[r])
             ELSE IF app = "customer" THEN RouteCustomer(ans[r]) ELSE RouteConsole(ans[r])
    IN
    /\ at[r] = "wait" /\ kind[r] \in {"page", "api"} /\ pc[r] = "done"
    /\ sends' = [sends EXCEPT ![r] = o.cookies]
    /\ at' = [at EXCEPT ![r] = o.stage]
    /\ acc' = [acc EXCEPT ![r] = IF ans[r] = "tokens" THEN r ELSE Nobody]
    /\ shows' = [shows EXCEPT ![r] =
                    IF kind[r] = "page" /\ o.cookies = "clear" THEN "login" ELSE "same"]
    /\ UNCHANGED <<tokenVars, app, jar, page, kind, since, causes>>

\* The page renders, or the route retries, with the token it now has.  A
\* page that is refused redirects to /login.
Render(r) ==
    /\ at[r] = "render"
    /\ at' = [at EXCEPT ![r] = "answer"]
    /\ shows' = [shows EXCEPT ![r] =
                    IF kind[r] # "page" THEN "same"
                    ELSE IF Authorized(acc[r]) THEN "app" ELSE "login"]
    /\ UNCHANGED <<tokenVars, app, jar, page, kind, acc, sends, since, causes>>

\* The routes that sign in: the cookies are set when the answer arrives, and the
\* form goes to the app.
SignInArrives(r, k) ==
    /\ at[r] = "wait" /\ kind[r] = k /\ pc[r] = "done"
    /\ Forget(r)
    /\ IF ans[r] = "tokens"
       THEN jar' = SetAuthCookies(jar, r) /\ page' = "app"
       ELSE UNCHANGED <<jar, page>>
    /\ UNCHANGED <<tokenVars, app, causes>>

ArriveLogin(r) == app = "customer" /\ SignInArrives(r, "login")
ArriveSignup(r) == SignInArrives(r, "register")
ArriveConsoleLogin(r) == app = "console" /\ SignInArrives(r, "login")

\* /api/auth/logout: whatever the API said.
ArriveLogout(r) ==
    /\ at[r] = "wait" /\ kind[r] = "logout" /\ pc[r] = "done"
    /\ Forget(r)
    /\ jar' = ClearAuthCookies
    /\ page' = "login"
    /\ UNCHANGED <<tokenVars, app, causes>>

\* The answer reaches the browser.  /login sends a browser that still has a
\* session cookie back to the app.
Arrive(r) ==
    /\ at[r] = "answer"
    /\ Forget(r)
    /\ jar' = WithAnswer(jar, r)
    /\ page' = CASE shows[r] = "same" -> page
                 [] shows[r] = "app" -> "app"
                 [] OTHER -> IF jar'.sessionTill # 0 THEN page ELSE "login"
    /\ UNCHANGED <<tokenVars, app, causes>>

-----------------------------------------------------------------------------
(* Faults, staff and time.                                                 *)

\* The request never reaches the API, or the API is failing.
ApiDown(r, a) ==
    /\ (IF a = "failed" THEN "serverError" ELSE "unreachable") \in Faults
    /\ at[r] = "wait" /\ pc[r] \in {"rotate", "login", "register", "logout"}
    /\ Answer(r, a)
    /\ UNCHANGED <<now, status, changes, token, row, tok, late, bffVars>>

\* The API answered a refresh, and the answer is lost on its way to the app.
AnswerLost(r) ==
    /\ "lost" \in Faults
    /\ at[r] = "wait" /\ pc[r] = "done" /\ ans[r] # "unreachable" /\ kind[r] \in {"page", "api"}
    /\ Answer(r, "unreachable")
    /\ causes' = IF ans[r] = "tokens"
                 THEN [causes EXCEPT ![token[r].family] = @ \cup {"lost"}] ELSE causes
    /\ UNCHANGED <<now, status, changes, token, row, tok, late>>
    /\ UNCHANGED <<app, jar, page, kind, at, acc, sends, shows, since>>

\* Staff suspend or reactivate the account; the console offers the other
\* status only.
StaffSetsStatus(s) ==
    /\ s # status
    /\ UpdateStatus(s)
    /\ causes' = [f \in Call |->
                     IF s = "suspended" /\ (token[f].family = f \/ pc[f] = "issue")
                     THEN causes[f] \cup {"suspended"} ELSE causes[f]]
    /\ UNCHANGED <<app, jar, page, kind, at, acc, sends, shows, since>>

\* Time passes, but not beyond the latency of a request under way; the
\* browser drops the cookies whose age is up.
Tick ==
    /\ now < MaxTime
    /\ \A r \in Call : at[r] \notin {"idle", "over"} => now < since[r] + MaxLatency
    /\ now' = now + 1
    /\ jar' = [access |-> IF now' < jar.accessTill THEN jar.access ELSE Nobody,
               accessTill |-> IF now' < jar.accessTill THEN jar.accessTill ELSE 0,
               refresh |-> IF now' < jar.refreshTill THEN jar.refresh ELSE Nobody,
               refreshTill |-> IF now' < jar.refreshTill THEN jar.refreshTill ELSE 0,
               sessionTill |-> IF now' < jar.sessionTill THEN jar.sessionTill ELSE 0]
    /\ UNCHANGED <<status, changes, token, row, pc, tok, ans, late>>
    /\ UNCHANGED <<app, page, kind, at, acc, sends, shows, since, causes>>

AllOver == (\A r \in Call : at[r] = "over") /\ UNCHANGED vars

BackendStep(r) == TokenStep(r) /\ UNCHANGED bffVars

Next ==
    \/ \E r \in Call :
          \/ Navigate(r) \/ ApiRequest(r) \/ SubmitLogin(r) \/ SubmitPasskey(r)
          \/ SubmitConsoleLogin(r) \/ SubmitSignup(r) \/ SubmitLogout(r)
          \/ BackendStep(r)
          \/ FirstCall(r) \/ AfterRefresh(r) \/ Render(r)
          \/ ArriveLogin(r) \/ ArriveSignup(r) \/ ArriveConsoleLogin(r) \/ ArriveLogout(r)
          \/ Arrive(r)
          \/ AnswerLost(r)
          \/ \E a \in {"unreachable", "failed"} : ApiDown(r, a)
    \/ \E s \in {"active", "suspended"} : StaffSetsStatus(s)
    \/ SeedStaff \/ Tick \/ AllOver

Spec == Init /\ [][Next]_vars

-----------------------------------------------------------------------------
(* Properties.                                                             *)

Rejected(r) == app = "customer" /\ kind[r] \in {"page", "api"} /\ sends[r] = "clear"

\* "Only an explicit rejection ends a session", and the API rejects only for
\* a reason: the customer's cookies are dropped by a page or a route only if
\* the session was logged out, suspended, has expired, or lost an answer
\* with its tokens, however many requests refresh it at once.
SessionEndsForCause ==
    \A r \in Call : Rejected(r) => causes[FamilyOf(r)] # {} \/ Expired(tok[r])

\* A token is used for one rotation and its siblings: every pair issued for
\* it is issued within the reuse window and one latency of the first.
SiblingsWithinGrace ==
    \A c, d \in Call :
        /\ tok[c] = tok[d] /\ tok[c] # Nobody
        /\ token[c].at # Never /\ token[d].at # Never
        => token[d].at - token[c].at < REUSE_GRACE + MaxLatency

\* What is ended stays ended: a family without rows gets none, and a suspended
\* account has only the rows of calls that were past their status check.
EndedStaysEnded ==
    /\ [](TypeOK /\ SuspendedRowsAreRaces)
    /\ RevokedStaysDead
=============================================================================

------------------------------ MODULE Sessions ------------------------------
(***************************************************************************)
(* Keycloak sign-in sessions in one browser: tabs that share the tokens in *)
(* localStorage, the server that exchanges a refresh token for a new pair, *)
(* and the Keycloak refresh tokens it keeps in Redis.                      *)
(*                                                                         *)
(* A pair of tokens is the number of the Keycloak refresh token it was     *)
(* minted with; a session is the number of its first pair.  An access      *)
(* token is good until it expires, whatever became of its session: only a  *)
(* refresh asks Keycloak.  Tabs act between two awaits in one step.        *)
(***************************************************************************)
EXTENDS Naturals

CONSTANTS
    Tab,
    NoTab,       \* nobody waits for the answer any more
    DataCall,    \* the API calls a signed-in page has in flight
    Exchange,    \* refresh requests at the server
    MaxPair,     \* bound on the tokens Keycloak gives out
    MaxUpset     \* bound on the page loads, failures and ended sessions

ASSUME TabAssumption == NoTab \notin Tab
ASSUME CallAssumption == "check" \notin DataCall
ASSUME BoundAssumption == MaxPair \in Nat \ {0} /\ MaxUpset \in Nat

Pair == 1..MaxPair
PairOrNone == 0..MaxPair

\* checkAuth asks who is signed in when a page loads.
Call == DataCall \cup {"check"}

VARIABLES
    locks,       \* whether the browser has Web Locks
    rotates,     \* whether the realm accepts a refresh token only once
    store,       \* localStorage: rw:token and rw:refresh_token
    page,        \* per tab: what it shows
    call,        \* per tab: its API calls
    refresh,     \* per tab: its refreshTokens, and the access token that failed
    leaving,     \* per tab: its sign-out, and the refresh token it revokes
    exchange,    \* the refresh requests at the server
    issued,      \* tokens Keycloak gave out so far
    session,     \* whose session each belongs to
    alive,       \* the sessions Keycloak knows
    kept,        \* Redis: the Keycloak token kept for each refresh token, 0 for none
    grace,       \* those kept for a minute only
    expired,     \* expired access tokens
    waived,      \* history: sessions the user left, or of which a refresh lost its answer
    upsets       \* page loads, failures and ended sessions so far

tabVars == <<page, call, refresh, leaving>>
serverVars == <<issued, session, kept, grace>>
fixed == <<locks, rotates>>
vars == <<fixed, store, tabVars, exchange, serverVars, alive, expired, waived, upsets>>

Empty == [access |-> 0, refresh |-> 0]
IdleCall == [at |-> "idle", token |-> 0, retried |-> FALSE]
Sent(n) == [at |-> "sent", token |-> n, retried |-> FALSE]
NoRefresh == [at |-> "none", stale |-> 0]
Staying == [at |-> "no", jti |-> 0]
Free == [at |-> "free", tab |-> NoTab, jti |-> 0, token |-> 0]
Answers == {"granted", "refused", "unavailable"}

CallState == [at : {"idle", "sent", "leading", "queued"}, token : PairOrNone, retried : BOOLEAN]
RefreshState == [at : {"none", "waiting", "sent"}, stale : PairOrNone]
LeavingState == [at : {"no", "asked"}, jti : PairOrNone]
ExchangeState == [at : {"free", "asked", "read", "renewed"} \cup Answers,
                  tab : Tab \cup {NoTab}, jti : PairOrNone, token : PairOrNone]

TypeOK ==
    /\ locks \in BOOLEAN /\ rotates \in BOOLEAN
    /\ store \in [access : PairOrNone, refresh : PairOrNone]
    /\ page \in [Tab -> {"login", "checking", "app"}]
    /\ call \in [Tab -> [Call -> CallState]]
    /\ refresh \in [Tab -> RefreshState]
    /\ leaving \in [Tab -> LeavingState]
    /\ exchange \in [Exchange -> ExchangeState]
    /\ issued \in PairOrNone
    /\ session \in [Pair -> PairOrNone]
    /\ alive \subseteq Pair
    /\ kept \in [Pair -> PairOrNone]
    /\ grace \subseteq Pair
    /\ expired \subseteq Pair
    /\ waived \subseteq Pair
    /\ upsets \in 0..MaxUpset

\* The user and the world disturb what goes on at most MaxUpset times.
Upset == upsets < MaxUpset /\ upsets' = upsets + 1

-----------------------------------------------------------------------------
(***************************************************************************)
(* A page                                                                  *)
(***************************************************************************)

\* The requests a tab waits for are answered to nobody once it is gone.
Unheard(t) == [e \in Exchange |-> IF exchange[e].tab = t
                                  THEN [exchange[e] EXCEPT !.tab = NoTab] ELSE exchange[e]]
Unanswered(t) == {session[exchange[e].jti] : e \in {x \in Exchange : exchange[x].tab = t}}

\* A page of t loads: it shows p and makes the calls C.
LoadPage(t, p, C) ==
    /\ page' = [page EXCEPT ![t] = p]
    /\ call' = [call EXCEPT ![t] = C]
    /\ refresh' = [refresh EXCEPT ![t] = NoRefresh]
    /\ leaving' = [leaving EXCEPT ![t] = Staying]
    /\ exchange' = Unheard(t)
    /\ waived' = waived \cup Unanswered(t)

Checking(s) == [c \in Call |-> IF c = "check" /\ s.access # 0 THEN Sent(s.access) ELSE IdleCall]

\* The user opens the app in a tab, or reloads it.
Open(t) ==
    /\ Upset
    /\ LoadPage(t, IF store.access = 0 THEN "login" ELSE "checking", Checking(store))
    /\ UNCHANGED <<fixed, store, serverVars, alive, expired>>

\* The Keycloak redirect lands: a new session and a pair of tokens, kept by the
\* server and stored by the landing page.
SignIn(t) ==
    LET n == issued + 1 IN
    /\ page[t] = "login"
    /\ issued < MaxPair
    /\ issued' = n
    /\ session' = [session EXCEPT ![n] = n]
    /\ alive' = alive \cup {n}
    /\ kept' = [kept EXCEPT ![n] = n]
    /\ LoadPage(t, "app", Checking(Empty))
    /\ store' = [access |-> n, refresh |-> n]
    /\ UNCHANGED <<fixed, upsets, grace, expired>>

\* A call of the signed-in page.
Request(t, c) ==
    /\ page[t] = "app"
    /\ call[t][c].at = "idle"
    /\ call' = [call EXCEPT ![t][c] = Sent(store.access)]
    /\ UNCHANGED <<fixed, upsets, store, page, refresh, leaving, exchange, serverVars, alive,
                   expired, waived>>

Good(n) == n # 0 /\ n \notin expired

\* A call succeeds; for a check, the user is signed in.
Succeed(t, c) ==
    /\ call[t][c].at = "sent" /\ Good(call[t][c].token)
    /\ call' = [call EXCEPT ![t][c] = IdleCall]
    /\ page' = [page EXCEPT ![t] = IF c = "check" THEN "app" ELSE @]
    /\ UNCHANGED <<fixed, upsets, store, refresh, leaving, exchange, serverVars, alive, expired, waived>>

\* What becomes of the page and the tokens when the calls F end in an error: a
\* check that fails, for whatever reason, forgets them.
PageAfter(t, F) == IF "check" \in F THEN "login" ELSE page[t]
StoreAfter(F) == IF "check" \in F THEN Empty ELSE store

\* A second 401, or any other error: the network, the server.
CallFails(t, c) ==
    /\ call[t][c].at = "sent"
    /\ \/ Upset
       \/ call[t][c].retried /\ ~Good(call[t][c].token) /\ UNCHANGED upsets
    /\ call' = [call EXCEPT ![t][c] = IdleCall]
    /\ page' = [page EXCEPT ![t] = PageAfter(t, {c})]
    /\ store' = StoreAfter({c})
    /\ UNCHANGED <<fixed, refresh, leaving, exchange, serverVars, alive, expired, waived>>

\* The first 401 of a call: it leads a refresh, or waits for the one under way.
Unauthorized(t, c) ==
    LET first == refresh[t].at = "none" IN
    /\ call[t][c].at = "sent" /\ ~Good(call[t][c].token) /\ ~call[t][c].retried
    /\ call' = [call EXCEPT ![t][c] = [at |-> IF first THEN "leading" ELSE "queued", token |-> 0, retried |-> FALSE]]
    /\ refresh' = IF first THEN [refresh EXCEPT ![t] = [at |-> "waiting", stale |-> call[t][c].token]]
                  ELSE refresh
    /\ UNCHANGED <<fixed, upsets, store, page, leaving, exchange, serverVars, alive, expired, waived>>

-----------------------------------------------------------------------------
(***************************************************************************)
(* refreshTokens                                                           *)
(***************************************************************************)
Waiting(t) == {c \in Call : call[t][c].at \in {"leading", "queued"}}

\* It is over, and the calls that wait for it are sent again with the token of s.
Resume(t, s) ==
    /\ refresh' = [refresh EXCEPT ![t] = NoRefresh]
    /\ call' = [call EXCEPT ![t] = [c \in Call |->
          IF c \in Waiting(t)
          THEN [at |-> "sent", token |-> s.access, retried |-> @[c].at = "leading"]
          ELSE @[c]]]
    /\ store' = s
    /\ UNCHANGED <<page, leaving>>

\* Mutation: the calls that waited for the failed refresh are left waiting.
GiveUpLeader(t, leave) ==
    LET F == {c \in Call : call[t][c].at = "leading"} IN
    /\ refresh' = [refresh EXCEPT ![t] = NoRefresh]
    /\ call' = [call EXCEPT ![t] = [c \in Call |-> IF c \in F \/ leave THEN IdleCall ELSE @[c]]]
    /\ page' = [page EXCEPT ![t] = IF leave THEN "login" ELSE PageAfter(t, F)]
    /\ store' = IF leave THEN Empty ELSE StoreAfter(F)
    /\ leaving' = IF leave THEN [leaving EXCEPT ![t] = Staying] ELSE leaving

\* It threw: the calls fail.  A definitive answer ends the session and leaves
\* the page.
GiveUp(t, leave) ==
    LET F == Waiting(t) IN
    /\ refresh' = [refresh EXCEPT ![t] = NoRefresh]
    /\ call' = [call EXCEPT ![t] = [c \in Call |-> IF c \in F \/ leave THEN IdleCall ELSE @[c]]]
    /\ page' = [page EXCEPT ![t] = IF leave THEN "login" ELSE PageAfter(t, F)]
    /\ store' = IF leave THEN Empty ELSE StoreAfter(F)
    /\ leaving' = IF leave THEN [leaving EXCEPT ![t] = Staying] ELSE leaving

\* Under the Web Lock, where there is one.
MyTurn(t) == refresh[t].at = "waiting" /\ (locks => \A u \in Tab : refresh[u].at # "sent")

\* Another tab has stored a newer token meanwhile.
Reuse(t) ==
    /\ MyTurn(t)
    /\ store.access \notin {0, refresh[t].stale}
    /\ Resume(t, store)
    /\ UNCHANGED <<fixed, upsets, exchange, serverVars, alive, expired, waived>>

NothingStored(t) ==
    /\ MyTurn(t)
    /\ store.access \in {0, refresh[t].stale}
    /\ store.refresh = 0
    /\ GiveUp(t, TRUE)
    /\ UNCHANGED <<fixed, upsets, exchange, serverVars, alive, expired, waived>>

Ask(t, e) ==
    /\ MyTurn(t)
    /\ store.access \in {0, refresh[t].stale}
    /\ store.refresh # 0
    /\ exchange[e] = Free
    /\ exchange' = [exchange EXCEPT ![e] = [at |-> "asked", tab |-> t, jti |-> store.refresh, token |-> 0]]
    /\ refresh' = [refresh EXCEPT ![t] = [at |-> "sent", stale |-> 0]]
    /\ UNCHANGED <<fixed, upsets, store, page, call, leaving, serverVars, alive, expired, waived>>

\* The answer arrives.
Deliver(e) ==
    LET x == exchange[e] IN
    /\ x.at \in Answers /\ x.tab # NoTab
    /\ IF x.at = "granted" THEN Resume(x.tab, [access |-> x.token, refresh |-> x.token])
       ELSE GiveUp(x.tab, x.at = "refused")
    /\ exchange' = [exchange EXCEPT ![e] = Free]
    /\ UNCHANGED <<fixed, upsets, serverVars, alive, expired, waived>>

\* The connection drops; the server may go on.
HangUp(e) ==
    LET x == exchange[e] IN
    /\ Upset
    /\ x.tab # NoTab
    /\ GiveUp(x.tab, FALSE)
    /\ exchange' = [exchange EXCEPT ![e].tab = NoTab]
    /\ waived' = waived \cup {session[x.jti]}
    /\ UNCHANGED <<fixed, serverVars, alive, expired>>

-----------------------------------------------------------------------------
(***************************************************************************)
(* POST /auth/refresh                                                      *)
(***************************************************************************)
ServerStep == UNCHANGED <<fixed, upsets, store, tabVars, alive, expired, waived>>

\* get_kc_refresh
Read(e) ==
    LET x == exchange[e] IN
    /\ x.at = "asked"
    /\ exchange' = [exchange EXCEPT ![e] = [x EXCEPT !.at = IF kept[x.jti] = 0 THEN "refused" ELSE "read",
                                                     !.token = kept[x.jti]]]
    /\ UNCHANGED serverVars
    /\ ServerStep

\* What Keycloak makes of a refresh token.
Accepts(n) ==
    /\ session[n] \in alive
    /\ rotates => \A m \in Pair : session[m] = session[n] => m <= n

\* refresh_session: Keycloak accepts the token and gives a new one.
Renew(e) ==
    LET x == exchange[e] IN
    /\ x.at = "read" /\ Accepts(x.token)
    /\ issued < MaxPair
    /\ issued' = issued + 1
    /\ session' = [session EXCEPT ![issued + 1] = session[x.token]]
    /\ exchange' = [exchange EXCEPT ![e] = [x EXCEPT !.at = "renewed", !.token = issued + 1]]
    /\ UNCHANGED <<kept, grace>>
    /\ ServerStep

Reject(e) ==
    LET x == exchange[e] IN
    /\ x.at = "read" /\ ~Accepts(x.token)
    /\ kept' = [kept EXCEPT ![x.jti] = 0]
    /\ grace' = grace \ {x.jti}
    /\ exchange' = [exchange EXCEPT ![e] = [x EXCEPT !.at = "refused", !.token = 0]]
    /\ UNCHANGED <<issued, session>>
    /\ ServerStep

\* Keycloak does not answer: 503.
Unavailable(e) ==
    /\ Upset
    /\ exchange[e].at = "read"
    /\ exchange' = [exchange EXCEPT ![e].at = "unavailable", ![e].token = 0]
    /\ UNCHANGED <<fixed, store, tabVars, serverVars, alive, expired, waived>>

\* Mutation: the old refresh token is forgotten at once, without a grace.
KeepNewOnly(e) ==
    LET x == exchange[e] IN
    /\ x.at = "renewed"
    /\ kept' = [kept EXCEPT ![x.token] = x.token, ![x.jti] = 0]
    /\ exchange' = [exchange EXCEPT ![e].at = "granted"]
    /\ UNCHANGED <<issued, session, grace>>
    /\ ServerStep

\* store_kc_refresh and retire_kc_refresh: nobody has the new refresh token yet.
Keep(e) ==
    LET x == exchange[e] IN
    /\ x.at = "renewed"
    /\ kept' = [kept EXCEPT ![x.token] = x.token, ![x.jti] = x.token]
    /\ grace' = grace \cup {x.jti}
    /\ exchange' = [exchange EXCEPT ![e].at = "granted"]
    /\ UNCHANGED <<issued, session>>
    /\ ServerStep

\* The answer nobody waits for any more.
Vanish(e) ==
    /\ exchange[e].at \in Answers /\ exchange[e].tab = NoTab
    /\ exchange' = [exchange EXCEPT ![e] = Free]
    /\ UNCHANGED serverVars
    /\ ServerStep

-----------------------------------------------------------------------------
(***************************************************************************)
(* Signing out, and time                                                   *)
(***************************************************************************)
SignOut(t) ==
    /\ page[t] = "app" /\ leaving[t].at = "no"
    /\ leaving' = [leaving EXCEPT ![t] = [at |-> "asked", jti |-> store.refresh]]
    /\ waived' = IF store.refresh = 0 THEN waived ELSE waived \cup {session[store.refresh]}
    /\ UNCHANGED <<fixed, upsets, store, page, call, refresh, exchange, serverVars, alive, expired>>

\* POST /auth/logout, and its answer.
Revoke(t) ==
    /\ leaving[t].jti # 0
    /\ kept' = [kept EXCEPT ![leaving[t].jti] = 0]
    /\ grace' = grace \ {leaving[t].jti}

\* Whatever the server answered, the tokens go and the sign-in page loads.
Leave(t) ==
    /\ leaving[t].at = "asked"
    /\ Revoke(t) \/ UNCHANGED <<kept, grace>>
    /\ store' = Empty
    /\ LoadPage(t, "login", Checking(Empty))
    /\ UNCHANGED <<fixed, upsets, issued, session, alive, expired>>

\* A minute is longer than any refresh takes.
Quiet ==
    /\ \A e \in Exchange : exchange[e] = Free
    /\ \A t \in Tab : refresh[t].at = "none" /\ \A c \in Call : ~call[t][c].retried

AccessExpires(n) ==
    /\ Quiet
    /\ n <= issued /\ n \notin expired
    /\ expired' = expired \cup {n}
    /\ UNCHANGED <<fixed, upsets, store, tabVars, exchange, serverVars, alive, waived>>

\* KC_REFRESH_GRACE_SECONDS
GraceExpires(n) ==
    /\ Quiet
    /\ n \in grace
    /\ grace' = grace \ {n}
    /\ kept' = [kept EXCEPT ![n] = 0]
    /\ UNCHANGED <<fixed, upsets, store, tabVars, exchange, issued, session, alive, expired, waived>>

\* Idle for too long, revoked, or the user was disabled.
SessionEnds(s) ==
    /\ Upset
    /\ s \in alive
    /\ alive' = alive \ {s}
    /\ UNCHANGED <<fixed, store, tabVars, exchange, serverVars, expired, waived>>

\* A browser that restores its tabs, with the tokens of a session in
\* localStorage.
First == [n \in Pair |-> IF n = 1 THEN 1 ELSE 0]

Init ==
    /\ locks \in BOOLEAN /\ rotates \in BOOLEAN
    /\ store = [access |-> 1, refresh |-> 1]
    /\ page = [t \in Tab |-> "checking"]
    /\ call = [t \in Tab |-> Checking(store)]
    /\ refresh = [t \in Tab |-> NoRefresh]
    /\ leaving = [t \in Tab |-> Staying]
    /\ exchange = [e \in Exchange |-> Free]
    /\ issued = 1 /\ session = First /\ kept = First
    /\ alive = {1}
    /\ grace = {} /\ expired = {} /\ waived = {}
    /\ upsets = 0

TabStep(t) ==
    \/ Open(t) \/ SignIn(t)
    \/ \E c \in DataCall : Request(t, c)
    \/ \E c \in Call : Succeed(t, c) \/ CallFails(t, c) \/ Unauthorized(t, c)
    \/ Reuse(t) \/ NothingStored(t)
    \/ \E e \in Exchange : Ask(t, e)
    \/ SignOut(t) \/ Leave(t)

ExchangeStep(e) ==
    \/ Deliver(e) \/ HangUp(e)
    \/ Read(e) \/ Renew(e) \/ Reject(e) \/ Unavailable(e) \/ Keep(e) \/ Vanish(e)

Next ==
    \/ \E t \in Tab : TabStep(t)
    \/ \E e \in Exchange : ExchangeStep(e)
    \/ \E n \in Pair : AccessExpires(n) \/ GraceExpires(n) \/ SessionEnds(n)

Spec == Init /\ [][Next]_vars

-----------------------------------------------------------------------------
\* A refresh token is refused only when Keycloak has ended its session, the
\* user has left it, or a refresh of it lost its answer.
SecondTabSucceeds ==
    \A e \in Exchange :
        exchange[e].at = "refused" => session[exchange[e].jti] \notin alive \ waived

\* "Only a definitive answer ends the session": that holds whatever the tabs
\* refresh at once, if the realm does not rotate its refresh tokens or the
\* browser has Web Locks.  Where it rotates them and tabs refresh without a
\* lock, the second to reach Keycloak is refused.
RefusedIsOver == (rotates => locks) => SecondTabSucceeds

\* No call waits for a refresh that is not under way, and no refresh for a
\* request that is not: a tab that is gone holds up no other.
NoCallStranded ==
    \A t \in Tab :
        /\ Waiting(t) # {} <=> refresh[t].at # "none"
        /\ refresh[t].at = "sent" <=> \E e \in Exchange : exchange[e].tab = t
=============================================================================

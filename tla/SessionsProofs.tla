--------------------------- MODULE SessionsProofs ---------------------------
(***************************************************************************)
(* What Sessions promises, for any tabs, calls, requests and tokens.       *)
(***************************************************************************)
EXTENDS Sessions, TLAPS

(***************************************************************************)
(* The inductive invariant                                                 *)
(***************************************************************************)
\* The sessions a refresh must find: those that are not over, unless the realm
\* rotates its tokens and the tabs have no lock.
Live(s) == (rotates => locks) /\ s \in alive \ waived
Newest(n) == \A m \in Pair : session[m] = session[n] => m <= n
Of(e) == session[exchange[e].jti]
Fresh(e) == exchange[e].at \in {"renewed", "granted"}

\* Every number in use was given out; a token kept for another, or read or
\* renewed for it, is of the same session.
IssuedNumbers ==
    /\ issued \in Pair
    /\ \A n \in Pair : n > issued => session[n] = 0
    /\ \A n \in Pair : n <= issued => session[n] \in 1..issued
    /\ \A n \in Pair : kept[n] # 0 =>
          n <= issued /\ kept[n] <= issued /\ session[kept[n]] = session[n]
    /\ \A n \in grace : n <= issued
    /\ store.refresh <= issued

LeavingWaived ==
    \A t \in Tab : leaving[t].jti # 0 =>
        leaving[t].jti <= issued /\ session[leaving[t].jti] \in waived

ExchangeNumbers ==
    \A e \in Exchange :
        /\ exchange[e].at = "free" => exchange[e] = Free
        /\ exchange[e].at # "free" => exchange[e].jti \in 1..issued
        /\ exchange[e].at \in {"read", "renewed", "granted"} =>
              exchange[e].token \in 1..issued /\ session[exchange[e].token] = Of(e)

\* A tab waits for one request, and under the lock one tab at a time does.
OneExchange ==
    \A d, e \in Exchange :
        (/\ exchange[d].tab # NoTab /\ exchange[e].tab # NoTab
         /\ locks \/ exchange[d].tab = exchange[e].tab) => d = e

\* Nobody has a renewed token before it is delivered.
FreshTokens ==
    \A e \in Exchange : Fresh(e) =>
        /\ exchange[e].token \notin grace /\ exchange[e].token # store.refresh
        /\ \A d \in Exchange :
              /\ exchange[d].jti # exchange[e].token
              /\ d # e /\ Fresh(d) => exchange[d].token # exchange[e].token

\* A request for a live session has the token Keycloak accepts.
ExchangeLive(e) ==
    LET x == exchange[e] IN
    /\ x.tab # NoTab /\ x.at # "refused"
    /\ x.at = "asked" => kept[x.jti] # 0 /\ (rotates => Newest(kept[x.jti]))
    /\ x.at \in {"read", "renewed"} => (rotates => Newest(x.token))
    /\ x.at = "granted" => kept[x.token] # 0 /\ (rotates => Newest(kept[x.token]))

ExchangesLive ==
    \A e \in Exchange : exchange[e].at # "free" /\ Live(Of(e)) => ExchangeLive(e)

\* So has the browser, or the answer under way brings it.
StoreLive ==
    LET n == store.refresh IN
    n # 0 /\ Live(session[n]) =>
        /\ kept[n] # 0
        /\ rotates => Newest(kept[n]) \/ \E e \in Exchange : Fresh(e) /\ Of(e) = session[n]
        /\ n \in grace => \E e \in Exchange : exchange[e].at = "granted" /\ exchange[e].jti = n

Rest == IssuedNumbers /\ LeavingWaived /\ ExchangeNumbers /\ OneExchange /\ FreshTokens /\ ExchangesLive /\ StoreLive
Inv == TypeOK /\ NoCallStranded /\ Rest

(***************************************************************************)
(* Steps that only withdraw: tokens from the browser, from sessions that   *)
(* are over, and from requests that lose their tab                         *)
(***************************************************************************)
Withdrawn ==
    /\ UNCHANGED <<fixed, issued, session>>
    /\ alive' \subseteq alive /\ waived \subseteq waived' /\ grace' \subseteq grace
    /\ store'.refresh \in {0, store.refresh}
    /\ \A n \in Pair : kept'[n] = kept[n] \/ (kept'[n] = 0 /\ session[n] \notin alive' \ waived')
    /\ \A e \in Exchange :
          \/ exchange'[e] = exchange[e]
          \/ /\ exchange'[e] = [exchange[e] EXCEPT !.tab = NoTab]
             /\ exchange[e].at # "free" /\ Of(e) \in waived'
    /\ \A t \in Tab : leaving'[t].jti # 0 =>
          \/ leaving'[t] = leaving[t]
          \/ leaving'[t].jti <= issued /\ session[leaving'[t].jti] \in waived'

LEMMA WithdrawnExchange ==
    ASSUME TypeOK, Withdrawn, NEW e \in Exchange
    PROVE  /\ exchange'[e].at = exchange[e].at /\ exchange'[e].jti = exchange[e].jti
           /\ exchange'[e].token = exchange[e].token
           /\ exchange'[e].tab \in {NoTab, exchange[e].tab}
           /\ exchange'[e].tab # exchange[e].tab => Of(e) \in waived'
           /\ Of(e)' = Of(e) /\ Fresh(e)' = Fresh(e)
<1>1. exchange[e] \in ExchangeState
    BY DEF TypeOK
<1>2. QED BY <1>1 DEF Withdrawn, ExchangeState, Of, Fresh

LEMMA WithdrawnKeepsRest == TypeOK /\ Rest /\ Withdrawn => Rest'
<1> SUFFICES ASSUME TypeOK, Rest, Withdrawn PROVE Rest'
    OBVIOUS
<1> USE DEF Rest, Withdrawn, fixed
<1>1. IssuedNumbers'
    BY DEF IssuedNumbers, Pair
<1>2. LeavingWaived'
    BY DEF LeavingWaived
<1>3. ExchangeNumbers'
    <2> SUFFICES ASSUME NEW e \in Exchange
                 PROVE  /\ exchange'[e].at = "free" => exchange'[e] = Free
                        /\ exchange'[e].at # "free" => exchange'[e].jti \in 1..issued'
                        /\ exchange'[e].at \in {"read", "renewed", "granted"} =>
                              exchange'[e].token \in 1..issued' /\ session'[exchange'[e].token] = Of(e)'
        BY DEF ExchangeNumbers
    <2>1. QED BY WithdrawnExchange DEF ExchangeNumbers, Free
<1>4. OneExchange'
    BY WithdrawnExchange DEF OneExchange
<1>5. FreshTokens'
    <2>1. \A e \in Exchange : Fresh(e) => exchange[e].token # 0
        BY DEF Fresh, ExchangeNumbers
    <2>2. QED BY <2>1, WithdrawnExchange DEF FreshTokens
<1>6. ExchangesLive'
    <2> SUFFICES ASSUME NEW e \in Exchange, exchange'[e].at # "free", Live(Of(e))'
                 PROVE  ExchangeLive(e)'
        BY DEF ExchangesLive
    <2>1. exchange[e].at # "free" /\ Live(Of(e)) /\ exchange'[e] = exchange[e]
        BY WithdrawnExchange DEF Live
    <2>2. ExchangeLive(e)
        BY <2>1 DEF ExchangesLive
    <2>3. \A n \in Pair : session[n] = Of(e) => kept'[n] = kept[n]
        BY <2>1, WithdrawnExchange DEF Live
    <2>4. exchange[e].jti \in Pair /\ (exchange[e].at = "granted" => exchange[e].token \in Pair /\ session[exchange[e].token] = Of(e))
        BY <2>1, BoundAssumption DEF ExchangeNumbers, IssuedNumbers, Pair
    <2>5. QED BY <2>1, <2>2, <2>3, <2>4 DEF ExchangeLive, Newest, Of
<1>7. StoreLive'
    <2> SUFFICES ASSUME store'.refresh # 0, Live(session[store.refresh])'
                 PROVE  /\ kept'[store.refresh] # 0
                        /\ rotates => \/ Newest(kept[store.refresh])'
                                      \/ \E e \in Exchange : Fresh(e)' /\ Of(e)' = session[store.refresh]'
                        /\ store.refresh \in grace' =>
                              \E e \in Exchange : exchange'[e].at = "granted" /\ exchange'[e].jti = store.refresh
        BY DEF StoreLive
    <2> DEFINE n == store.refresh
    <2>1. store'.refresh = n /\ n # 0 /\ Live(session[n]) /\ session'[n] = session[n]
        BY DEF Live
    <2>2. n \in Pair
        BY <2>1 DEF IssuedNumbers, Pair, TypeOK, PairOrNone
    <2>3. kept'[n] = kept[n]
        BY <2>1, <2>2 DEF Live
    <2>4. QED BY <2>1, <2>3, WithdrawnExchange DEF StoreLive, Newest
<1> QED BY <1>1, <1>2, <1>3, <1>4, <1>5, <1>6, <1>7

(***************************************************************************)
(* Pages and their calls                                                   *)
(***************************************************************************)
LEMMA Values ==
    /\ MaxPair \in Nat /\ 0 \in PairOrNone /\ Pair \subseteq PairOrNone
    /\ \A n \in PairOrNone : n = 0 \/ n \in Pair
    /\ Empty \in [access : PairOrNone, refresh : PairOrNone] /\ Empty.refresh = 0 /\ Empty.access = 0
    /\ IdleCall \in CallState /\ IdleCall.at = "idle" /\ \A n \in PairOrNone : Sent(n) \in CallState
    /\ NoRefresh \in RefreshState /\ NoRefresh.at = "none"
    /\ Staying \in LeavingState /\ Staying.jti = 0
    /\ Free \in ExchangeState /\ Free.tab = NoTab /\ Free.at = "free"
<1>1. MaxPair \in Nat /\ 0 \in PairOrNone /\ Pair \subseteq PairOrNone /\ \A n \in PairOrNone : n = 0 \/ n \in Pair
    BY BoundAssumption DEF Pair, PairOrNone
<1>2. QED BY <1>1 DEF Empty, IdleCall, Sent, CallState, NoRefresh, RefreshState, Staying, LeavingState, Free, ExchangeState

LEMMA SessionsTaken ==
    ASSUME TypeOK, IssuedNumbers, ExchangeNumbers
    PROVE  /\ \A e \in Exchange : exchange[e].tab # NoTab => exchange[e].at # "free"
           /\ \A e \in Exchange : exchange[e].at # "free" => exchange[e].jti \in Pair /\ Of(e) \in Pair
           /\ store.refresh # 0 => store.refresh \in Pair /\ session[store.refresh] \in Pair
<1>1. 1..issued \subseteq Pair
    BY BoundAssumption DEF IssuedNumbers, Pair
<1>2. \A n \in Pair : n <= issued => session[n] \in Pair
    BY <1>1 DEF IssuedNumbers
<1>3. \A n \in 1..issued : n \in Pair /\ session[n] \in Pair
    BY <1>1 DEF IssuedNumbers
<1>4. store.refresh \in PairOrNone
    BY DEF TypeOK
<1>5. store.refresh # 0 => store.refresh \in Pair /\ store.refresh <= issued
    BY <1>4, Values DEF IssuedNumbers
<1>6. QED BY <1>2, <1>3, <1>5, Values DEF ExchangeNumbers, Of

\* The tab t waits for nothing any more, and the others as before.
LEMMA TabSettled ==
    ASSUME TypeOK, NoCallStranded, NEW t \in Tab,
           refresh'[t].at = "none", \A c \in Call : call'[t][c].at \notin {"leading", "queued"},
           \A u \in Tab \ {t} : refresh'[u] = refresh[u] /\ call'[u] = call[u],
           \A e \in Exchange : exchange'[e].tab # t,
           \A u \in Tab \ {t} : \A e \in Exchange : exchange'[e].tab = u <=> exchange[e].tab = u
    PROVE  NoCallStranded'
<1> SUFFICES ASSUME NEW u \in Tab
             PROVE  /\ Waiting(u)' # {} <=> refresh'[u].at # "none"
                    /\ refresh'[u].at = "sent" <=> \E e \in Exchange : exchange'[e].tab = u
    BY DEF NoCallStranded
<1>1. CASE u = t
    BY <1>1 DEF Waiting
<1>2. CASE u # t
    <2>1. Waiting(u)' = Waiting(u)
        BY <1>2 DEF Waiting
    <2>2. QED BY <1>2, <2>1 DEF NoCallStranded
<1> QED BY <1>1, <1>2

LEMMA LoadPageEffect ==
    ASSUME Inv, NEW t \in Tab, NEW p \in {"login", "checking", "app"},
           NEW C \in [Call -> CallState], \A c \in Call : C[c].at \notin {"leading", "queued"},
           LoadPage(t, p, C)
    PROVE  /\ page' \in [Tab -> {"login", "checking", "app"}]
           /\ call' \in [Tab -> [Call -> CallState]] /\ refresh' \in [Tab -> RefreshState]
           /\ leaving' \in [Tab -> LeavingState] /\ exchange' \in [Exchange -> ExchangeState]
           /\ waived' \subseteq Pair /\ waived \subseteq waived'
           /\ NoCallStranded'
           /\ \A u \in Tab : leaving'[u] = leaving[u] \/ leaving'[u].jti = 0
           /\ \A e \in Exchange :
                 \/ exchange'[e] = exchange[e]
                 \/ /\ exchange'[e] = [exchange[e] EXCEPT !.tab = NoTab]
                    /\ exchange[e].at # "free" /\ Of(e) \in waived'
<1> USE DEF LoadPage
<1>1. /\ page' \in [Tab -> {"login", "checking", "app"}]
      /\ call' \in [Tab -> [Call -> CallState]]
    BY DEF Inv, TypeOK
<1>2. refresh' \in [Tab -> RefreshState]
    BY Values DEF Inv, TypeOK
<1>3. /\ leaving' \in [Tab -> LeavingState]
      /\ \A u \in Tab : leaving'[u] = leaving[u] \/ leaving'[u].jti = 0
    BY Values DEF Inv, TypeOK
<1>4. \A e \in Exchange : exchange[e] \in ExchangeState
    BY DEF Inv, TypeOK
<1>5. \A e \in Exchange : exchange[e].tab = t => exchange[e].at # "free" /\ Of(e) \in Pair
    BY SessionsTaken, TabAssumption DEF Inv, Rest
<1>6. \A e \in Exchange :
          /\ exchange[e].tab # t => exchange'[e] = exchange[e]
          /\ exchange[e].tab = t => exchange'[e] = [exchange[e] EXCEPT !.tab = NoTab]
    BY DEF Unheard
<1>7. exchange' \in [Exchange -> ExchangeState]
    <2>1. \A e \in Exchange : [exchange[e] EXCEPT !.tab = NoTab] \in ExchangeState
        BY <1>4 DEF ExchangeState
    <2>2. QED BY <1>4, <2>1 DEF Unheard
<1>8. Unanswered(t) \subseteq Pair /\ \A e \in Exchange : exchange[e].tab = t => Of(e) \in Unanswered(t)
    BY <1>5 DEF Unanswered, Of
<1>9. waived' \subseteq Pair /\ waived \subseteq waived'
    BY <1>8 DEF Inv, TypeOK
<1>10. NoCallStranded'
    <2>1. /\ refresh'[t].at = "none" /\ call'[t] = C
          /\ \A u \in Tab \ {t} : refresh'[u] = refresh[u] /\ call'[u] = call[u]
        BY DEF Inv, TypeOK, NoRefresh
    <2>2. /\ \A e \in Exchange : exchange'[e].tab # t
          /\ \A u \in Tab \ {t} : \A e \in Exchange : exchange'[e].tab = u <=> exchange[e].tab = u
        <3>1. \A e \in Exchange : exchange[e].tab = t => exchange'[e].tab = NoTab
            BY <1>4, <1>6 DEF ExchangeState
        <3>2. QED BY <3>1, <1>6, TabAssumption
    <2>3. QED BY <2>1, <2>2, TabSettled DEF Inv
<1> QED BY <1>1, <1>2, <1>3, <1>5, <1>6, <1>7, <1>8, <1>9, <1>10

LEMMA CheckingType ==
    ASSUME NEW s \in [access : PairOrNone, refresh : PairOrNone]
    PROVE  /\ Checking(s) \in [Call -> CallState]
           /\ \A c \in Call : Checking(s)[c].at \notin {"leading", "queued"}
<1>1. Sent(s.access) \in CallState /\ IdleCall \in CallState
    BY Values
<1>2. QED BY <1>1, Values DEF Checking, Sent

LEMMA UpsetType == TypeOK /\ Upset => upsets' \in 0..MaxUpset
    BY BoundAssumption DEF TypeOK, Upset

LEMMA OpenKeeps == ASSUME Inv, NEW t \in Tab, Open(t) PROVE Inv'
<1> USE DEF Open
<1>1. Checking(store) \in [Call -> CallState] /\ \A c \in Call : Checking(store)[c].at \notin {"leading", "queued"}
    BY CheckingType DEF Inv, TypeOK
<1>2. PICK p \in {"login", "checking", "app"} : LoadPage(t, p, Checking(store))
    BY DEF Open
<1>3. TypeOK' /\ NoCallStranded' /\ Withdrawn
    BY <1>1, <1>2, LoadPageEffect, UpsetType DEF Inv, TypeOK, Withdrawn, fixed, serverVars
<1>4. QED BY <1>3, WithdrawnKeepsRest DEF Inv, fixed

LEMMA LeaveKeeps == ASSUME Inv, NEW t \in Tab, Leave(t) PROVE Inv'
<1> USE DEF Leave
<1>1. Checking(Empty) \in [Call -> CallState] /\ \A c \in Call : Checking(Empty)[c].at \notin {"leading", "queued"}
    BY CheckingType, Values
<1>2. LoadPage(t, "login", Checking(Empty))
    OBVIOUS
<1>3. leaving[t] \in LeavingState
    BY DEF Inv, TypeOK
<1>4. leaving[t].jti # 0 => leaving[t].jti \in Pair /\ session[leaving[t].jti] \in waived
    BY <1>3, Values DEF LeavingState, Inv, Rest, LeavingWaived
<1>5. /\ kept' \in [Pair -> PairOrNone] /\ grace' \subseteq grace
      /\ \A n \in Pair : kept'[n] = kept[n] \/ (kept'[n] = 0 /\ session[n] \in waived)
    <2>1. CASE Revoke(t)
        BY <2>1, <1>4, Values DEF Revoke, Inv, TypeOK
    <2>2. CASE UNCHANGED <<kept, grace>>
        BY <2>2 DEF Inv, TypeOK
    <2>3. QED BY <2>1, <2>2
<1>6. TypeOK' /\ NoCallStranded' /\ Withdrawn
    BY <1>1, <1>2, <1>5, LoadPageEffect, Values DEF Inv, TypeOK, Withdrawn, fixed
<1>7. QED BY <1>6, WithdrawnKeepsRest DEF Inv, fixed

\* One call changes that neither waited nor waits.
LEMMA OneCallChanges ==
    ASSUME TypeOK, NoCallStranded, NEW t \in Tab, NEW c \in Call, NEW r \in CallState,
           call[t][c].at \notin {"leading", "queued"}, r.at \notin {"leading", "queued"},
           call' = [call EXCEPT ![t][c] = r], UNCHANGED <<refresh, exchange>>
    PROVE  call' \in [Tab -> [Call -> CallState]] /\ NoCallStranded'
<1>1. call' \in [Tab -> [Call -> CallState]]
    BY DEF TypeOK
<1>2. \A u \in Tab : \A d \in Call : call'[u][d] = call[u][d] \/ (u = t /\ d = c /\ call'[u][d] = r)
    BY DEF TypeOK
<1>3. \A u \in Tab : Waiting(u)' = Waiting(u)
    BY <1>2 DEF Waiting
<1>4. QED BY <1>1, <1>3 DEF NoCallStranded

LEMMA CallStepsKeep ==
    ASSUME Inv, NEW t \in Tab, NEW c \in Call,
           (c \in DataCall /\ Request(t, c)) \/ Succeed(t, c) \/ CallFails(t, c)
    PROVE  Inv'
<1>1. /\ store.access \in PairOrNone
      /\ call[t][c].at \in {"idle", "sent"} /\ UNCHANGED <<fixed, refresh, leaving, exchange, serverVars, alive, waived>>
      /\ \/ call' = [call EXCEPT ![t][c] = Sent(store.access)]
         \/ call' = [call EXCEPT ![t][c] = IdleCall]
    BY DEF Request, Succeed, CallFails, Inv, TypeOK
<1>2. call' \in [Tab -> [Call -> CallState]] /\ NoCallStranded'
    <2>1. Sent(store.access) \in CallState /\ Sent(store.access).at = "sent"
        BY <1>1, Values DEF Sent
    <2>2. QED BY <1>1, <2>1, OneCallChanges, Values DEF Inv
<1>3. page' \in [Tab -> {"login", "checking", "app"}]
    BY DEF Request, Succeed, CallFails, PageAfter, Inv, TypeOK
<1>4. store' = store \/ store' = Empty
    BY DEF Request, Succeed, CallFails, StoreAfter
<1>5. expired' = expired /\ upsets' \in 0..MaxUpset
    BY UpsetType DEF Request, Succeed, CallFails, Inv, TypeOK
<1>6. TypeOK' /\ Withdrawn
    BY <1>1, <1>2, <1>3, <1>4, <1>5, Values DEF Inv, TypeOK, Withdrawn, fixed, serverVars
<1>7. QED BY <1>2, <1>6, <1>1, WithdrawnKeepsRest DEF Inv, fixed

LEMMA UnauthorizedKeeps == ASSUME Inv, NEW t \in Tab, NEW c \in Call, Unauthorized(t, c) PROVE Inv'
<1> USE DEF Unauthorized
<1>1. \A a \in {"leading", "queued"} : [at |-> a, token |-> 0, retried |-> FALSE] \in CallState
    BY Values DEF CallState
<1>2. call[t][c] \in CallState
    BY DEF Inv, TypeOK
<1>3. PICK a \in {"leading", "queued"} : call' = [call EXCEPT ![t][c] = [at |-> a, token |-> 0, retried |-> FALSE]]
    OBVIOUS
<1>4. call' \in [Tab -> [Call -> CallState]]
    <2>1. PICK r \in CallState : call' = [call EXCEPT ![t][c] = r]
        BY <1>1, <1>3
    <2>2. call \in [Tab -> [Call -> CallState]]
        BY DEF Inv, TypeOK
    <2> HIDE DEF Unauthorized
    <2>3. QED BY <2>1, <2>2
<1>5. /\ refresh' \in [Tab -> RefreshState] /\ refresh'[t].at # "none"
      /\ refresh'[t].at = "sent" <=> refresh[t].at = "sent"
      /\ \A u \in Tab \ {t} : refresh'[u] = refresh[u]
    BY <1>2 DEF Inv, TypeOK, RefreshState, CallState
<1>6. NoCallStranded'
    <2>1. c \in Waiting(t)' /\ \A u \in Tab \ {t} : call'[u] = call[u]
        BY <1>3 DEF Waiting, Inv, TypeOK
    <2>2. \A u \in Tab \ {t} : Waiting(u)' = Waiting(u)
        BY <2>1 DEF Waiting
    <2>3. QED BY <1>5, <2>1, <2>2 DEF NoCallStranded, Inv
<1>7. TypeOK' /\ Withdrawn
    BY <1>4, <1>5 DEF Inv, TypeOK, Withdrawn, fixed, serverVars
<1>8. QED BY <1>6, <1>7, WithdrawnKeepsRest DEF Inv, fixed

(***************************************************************************)
(* A tab whose refresh is over                                             *)
(***************************************************************************)
TabRests(t) ==
    /\ page' \in [Tab -> {"login", "checking", "app"}] /\ call' \in [Tab -> [Call -> CallState]]
    /\ refresh' \in [Tab -> RefreshState] /\ leaving' \in [Tab -> LeavingState]
    /\ refresh'[t].at = "none" /\ \A c \in Call : call'[t][c].at \notin {"leading", "queued"}
    /\ \A u \in Tab \ {t} : refresh'[u] = refresh[u] /\ call'[u] = call[u]
    /\ \A u \in Tab : leaving'[u] = leaving[u] \/ leaving'[u].jti = 0

LEMMA ResumeRests ==
    ASSUME Inv, NEW t \in Tab, NEW s \in [access : PairOrNone, refresh : PairOrNone], Resume(t, s)
    PROVE  TabRests(t)
<1> DEFINE C == [c \in Call |-> IF c \in Waiting(t)
                                THEN [at |-> "sent", token |-> s.access, retried |-> call[t][c].at = "leading"]
                                ELSE call[t][c]]
<1>1. call \in [Tab -> [Call -> CallState]] /\ refresh \in [Tab -> RefreshState]
    BY DEF Inv, TypeOK
<1>2. \A c \in Call : [at |-> "sent", token |-> s.access, retried |-> call[t][c].at = "leading"] \in CallState
    BY DEF CallState
<1>3. C \in [Call -> CallState] /\ \A c \in Call : C[c].at \notin {"leading", "queued"}
    BY <1>1, <1>2 DEF Waiting
<1>4. call' = [call EXCEPT ![t] = C]
    BY DEF Resume
<1> HIDE DEF C
<1>5. call' \in [Tab -> [Call -> CallState]] /\ call'[t] = C /\ \A u \in Tab \ {t} : call'[u] = call[u]
    BY <1>1, <1>3, <1>4
<1>6. /\ refresh' \in [Tab -> RefreshState] /\ refresh'[t].at = "none"
      /\ \A u \in Tab \ {t} : refresh'[u] = refresh[u]
    BY <1>1, Values DEF Resume
<1>7. QED BY <1>3, <1>5, <1>6 DEF Resume, TabRests, Inv, TypeOK

LEMMA GiveUpRests ==
    ASSUME Inv, NEW t \in Tab, NEW leave \in BOOLEAN, GiveUp(t, leave)
    PROVE  /\ TabRests(t)
           /\ store' \in [access : PairOrNone, refresh : PairOrNone] /\ store'.refresh \in {0, store.refresh}
           /\ leave => store'.refresh = 0
<1> DEFINE C == [c \in Call |-> IF c \in Waiting(t) \/ leave THEN IdleCall ELSE call[t][c]]
<1>1. /\ call \in [Tab -> [Call -> CallState]] /\ refresh \in [Tab -> RefreshState]
      /\ leaving \in [Tab -> LeavingState] /\ page \in [Tab -> {"login", "checking", "app"}]
    BY DEF Inv, TypeOK
<1>2. C \in [Call -> CallState] /\ \A c \in Call : C[c].at \notin {"leading", "queued"}
    BY <1>1, Values DEF Waiting
<1>3. call' = [call EXCEPT ![t] = C]
    BY DEF GiveUp
<1> HIDE DEF C
<1>4. call' \in [Tab -> [Call -> CallState]] /\ call'[t] = C /\ \A u \in Tab \ {t} : call'[u] = call[u]
    BY <1>1, <1>2, <1>3
<1>5. /\ refresh' \in [Tab -> RefreshState] /\ refresh'[t].at = "none"
      /\ \A u \in Tab \ {t} : refresh'[u] = refresh[u]
    BY <1>1, Values DEF GiveUp
<1>6. leaving' \in [Tab -> LeavingState] /\ \A u \in Tab : leaving'[u] = leaving[u] \/ leaving'[u].jti = 0
    BY <1>1, Values DEF GiveUp
<1>7. page' \in [Tab -> {"login", "checking", "app"}]
    BY <1>1 DEF GiveUp, PageAfter
<1>8. /\ store' \in [access : PairOrNone, refresh : PairOrNone] /\ store'.refresh \in {0, store.refresh}
      /\ leave => store'.refresh = 0
    BY Values DEF GiveUp, StoreAfter, Inv, TypeOK
<1>9. QED BY <1>2, <1>4, <1>5, <1>6, <1>7, <1>8 DEF TabRests

LEMMA ReuseKeeps == ASSUME Inv, NEW t \in Tab, Reuse(t) PROVE Inv'
<1> USE DEF Reuse
<1>1. TabRests(t) /\ store' = store
    BY ResumeRests DEF Resume, Inv, TypeOK
<1>2. \A e \in Exchange : exchange'[e].tab # t
    BY DEF MyTurn, Inv, NoCallStranded
<1>3. NoCallStranded'
    BY <1>1, <1>2, TabSettled DEF TabRests, Inv
<1>4. TypeOK' /\ Withdrawn
    BY <1>1 DEF TabRests, Inv, TypeOK, Withdrawn, fixed, serverVars
<1>5. QED BY <1>3, <1>4, WithdrawnKeepsRest DEF Inv, fixed

LEMMA NothingStoredKeeps == ASSUME Inv, NEW t \in Tab, NothingStored(t) PROVE Inv'
<1> USE DEF NothingStored
<1>1. /\ TabRests(t)
      /\ store' \in [access : PairOrNone, refresh : PairOrNone] /\ store'.refresh \in {0, store.refresh}
    BY GiveUpRests
<1>2. \A e \in Exchange : exchange'[e].tab # t
    BY DEF MyTurn, Inv, NoCallStranded
<1>3. NoCallStranded'
    BY <1>1, <1>2, TabSettled DEF TabRests, Inv
<1>4. TypeOK' /\ Withdrawn
    BY <1>1 DEF TabRests, Inv, TypeOK, Withdrawn, fixed, serverVars
<1>5. QED BY <1>3, <1>4, WithdrawnKeepsRest DEF Inv, fixed

\* The tab of a request that is answered, or given up, rests.
LEMMA TabReleased ==
    ASSUME Inv, NEW e \in Exchange, NEW r \in ExchangeState, r.tab = NoTab,
           exchange[e].tab # NoTab, TabRests(exchange[e].tab), exchange' = [exchange EXCEPT ![e] = r]
    PROVE  NoCallStranded' /\ exchange' \in [Exchange -> ExchangeState]
<1>1. PICK t \in Tab : t = exchange[e].tab
    BY DEF Inv, TypeOK, ExchangeState
<1>2. exchange' \in [Exchange -> ExchangeState] /\ exchange'[e] = r /\ \A d \in Exchange \ {e} : exchange'[d] = exchange[d]
    BY DEF Inv, TypeOK
<1>3. \A d \in Exchange \ {e} : exchange[d].tab # t
    BY <1>1 DEF Inv, Rest, OneExchange
<1>4. /\ \A d \in Exchange : exchange'[d].tab # t
      /\ \A u \in Tab \ {t} : \A d \in Exchange : exchange'[d].tab = u <=> exchange[d].tab = u
    BY <1>1, <1>2, <1>3, TabAssumption
<1>5. QED BY <1>1, <1>2, <1>4, TabSettled DEF TabRests, Inv

LEMMA HangUpKeeps == ASSUME Inv, NEW e \in Exchange, HangUp(e) PROVE Inv'
<1> USE DEF HangUp
<1>1. exchange[e] \in ExchangeState /\ exchange[e].tab \in Tab
    BY DEF Inv, TypeOK, ExchangeState
<1>2. /\ TabRests(exchange[e].tab)
      /\ store' \in [access : PairOrNone, refresh : PairOrNone] /\ store'.refresh \in {0, store.refresh}
    BY <1>1, GiveUpRests
<1>3. exchange' = [exchange EXCEPT ![e] = [exchange[e] EXCEPT !.tab = NoTab]]
    BY DEF Inv, TypeOK
<1>4. [exchange[e] EXCEPT !.tab = NoTab] \in ExchangeState /\ [exchange[e] EXCEPT !.tab = NoTab].tab = NoTab
    BY <1>1 DEF ExchangeState
<1>5. NoCallStranded' /\ exchange' \in [Exchange -> ExchangeState]
    BY <1>2, <1>3, <1>4, TabReleased
<1>6. exchange[e].at # "free" /\ Of(e) \in Pair
    BY SessionsTaken DEF Inv, Rest
<1>7. TypeOK'
    <2>1. waived' \subseteq Pair /\ upsets' \in 0..MaxUpset
        BY <1>6, UpsetType DEF Inv, TypeOK, Of
    <2>2. UNCHANGED <<fixed, serverVars, alive, expired>>
        OBVIOUS
    <2> HIDE DEF HangUp
    <2>3. QED BY <1>2, <1>5, <2>1, <2>2 DEF TabRests, Inv, TypeOK, fixed, serverVars
<1>8. Withdrawn
    BY <1>2, <1>3, <1>6 DEF TabRests, Inv, TypeOK, Withdrawn, fixed, serverVars, Of
<1>9. QED BY <1>5, <1>7, <1>8, WithdrawnKeepsRest DEF Inv, fixed

LEMMA SignOutKeeps == ASSUME Inv, NEW t \in Tab, SignOut(t) PROVE Inv'
<1> USE DEF SignOut
<1>1. store.refresh \in PairOrNone /\ (store.refresh # 0 => store.refresh \in Pair /\ session[store.refresh] \in Pair)
    BY SessionsTaken DEF Inv, Rest, TypeOK
<1>2. [at |-> "asked", jti |-> store.refresh] \in LeavingState
    BY <1>1 DEF LeavingState
<1>3. /\ leaving' \in [Tab -> LeavingState] /\ leaving'[t].jti = store.refresh
      /\ \A u \in Tab \ {t} : leaving'[u] = leaving[u]
    BY <1>2 DEF Inv, TypeOK
<1>4. TypeOK'
    BY <1>1, <1>3 DEF Inv, TypeOK, fixed, serverVars
<1>5. store.refresh <= issued
    BY DEF Inv, Rest, IssuedNumbers
<1>6. Withdrawn
    BY <1>1, <1>3, <1>5 DEF Inv, TypeOK, Withdrawn, fixed, serverVars
<1>7. NoCallStranded'
    BY DEF Inv, NoCallStranded, Waiting
<1>8. QED BY <1>4, <1>6, <1>7, WithdrawnKeepsRest DEF Inv, fixed

\* The passing of time, a session that ends, and nothing at all.
LEMMA TimeKeeps ==
    ASSUME Inv, (\E n \in Pair : AccessExpires(n) \/ SessionEnds(n)) \/ UNCHANGED vars
    PROVE  Inv'
<1>1. /\ UNCHANGED <<fixed, store, tabVars, exchange, serverVars, waived>>
      /\ alive' \subseteq alive /\ expired' \subseteq Pair /\ upsets' \in 0..MaxUpset
    BY UpsetType DEF AccessExpires, SessionEnds, vars, Inv, TypeOK
<1>2. TypeOK' /\ Withdrawn
    BY <1>1 DEF Inv, TypeOK, Withdrawn, fixed, tabVars, serverVars
<1>3. NoCallStranded'
    BY <1>1 DEF Inv, NoCallStranded, Waiting, tabVars
<1>4. QED BY <1>1, <1>2, <1>3, WithdrawnKeepsRest DEF Inv, fixed

(***************************************************************************)
(* Steps of the server that give nothing new                               *)
(***************************************************************************)
\* A request is read, refused or not answered; a refused token is forgotten.
LEMMA MovedKeepsRest ==
    ASSUME TypeOK, Rest, NEW e \in Exchange, NEW r \in ExchangeState,
           exchange[e].at \in {"asked", "read"}, r.at \in {"read", "refused", "unavailable"},
           r.tab = exchange[e].tab, r.jti = exchange[e].jti, exchange' = [exchange EXCEPT ![e] = r],
           r.at = "read" => r.token \in 1..issued /\ session[r.token] = Of(e),
           Live(Of(e)) => r.at # "refused" /\ (r.at = "read" /\ rotates => Newest(r.token)),
           UNCHANGED <<fixed, store, leaving, issued, session, alive, waived>>,
           grace' \subseteq grace,
           \A n \in Pair : kept'[n] = kept[n] \/ (kept'[n] = 0 /\ ~Live(session[n]))
    PROVE  Rest'
<1> USE DEF Rest, fixed
<1>1. exchange'[e] = r /\ \A d \in Exchange \ {e} : exchange'[d] = exchange[d]
    BY DEF TypeOK
<1>2. \A d \in Exchange : /\ exchange'[d].tab = exchange[d].tab /\ exchange'[d].jti = exchange[d].jti
                          /\ Of(d)' = Of(d) /\ Live(Of(d))' = Live(Of(d)) /\ Fresh(d)' = Fresh(d)
                          /\ Fresh(d) => exchange'[d] = exchange[d]
    BY <1>1 DEF Of, Live, Fresh
<1>3. IssuedNumbers' /\ LeavingWaived'
    BY DEF IssuedNumbers, LeavingWaived, Pair
<1>4. ExchangeNumbers'
    BY <1>1, <1>2 DEF ExchangeNumbers
<1>5. OneExchange' /\ FreshTokens'
    BY <1>2 DEF OneExchange, FreshTokens
<1>6. \A n \in Pair : Live(session[n]) => kept'[n] = kept[n]
    OBVIOUS
<1>7. ExchangesLive'
    <2> SUFFICES ASSUME NEW d \in Exchange, exchange'[d].at # "free", Live(Of(d)) PROVE ExchangeLive(d)'
        BY <1>2 DEF ExchangesLive
    <2>1. exchange[d].at # "free" /\ ExchangeLive(d)
        BY <1>1 DEF ExchangesLive
    <2>2. CASE d = e
        BY <1>1, <2>1, <2>2 DEF ExchangeLive, Newest
    <2>3. CASE d # e
        <3>1. exchange[d].jti \in Pair /\ (exchange[d].at = "granted" => exchange[d].token \in Pair /\ session[exchange[d].token] = Of(d))
            BY <2>1, BoundAssumption DEF ExchangeNumbers, IssuedNumbers, Pair
        <3>2. QED BY <1>1, <1>6, <2>1, <2>3, <3>1 DEF ExchangeLive, Newest, Of
    <2>4. QED BY <2>2, <2>3
<1>8. StoreLive'
    <2>1. store.refresh # 0 => store.refresh \in Pair
        BY SessionsTaken
    <2>2. QED BY <1>2, <1>6, <2>1 DEF StoreLive, Newest, Live, Fresh
<1> QED BY <1>3, <1>4, <1>5, <1>7, <1>8

\* What a step of the server leaves as it is.
LEMMA ServerStepKeeps ==
    ASSUME Inv, NEW e \in Exchange, NEW r \in ExchangeState, r.tab = exchange[e].tab,
           exchange' = [exchange EXCEPT ![e] = r], UNCHANGED tabVars
    PROVE  NoCallStranded' /\ exchange' \in [Exchange -> ExchangeState]
<1>1. exchange' \in [Exchange -> ExchangeState] /\ \A d \in Exchange : exchange'[d].tab = exchange[d].tab
    BY DEF Inv, TypeOK
<1>2. \A t \in Tab : Waiting(t)' = Waiting(t)
    BY DEF Waiting, tabVars
<1>3. QED BY <1>1, <1>2 DEF Inv, NoCallStranded, tabVars

LEMMA ReadKeeps == ASSUME Inv, NEW e \in Exchange, Read(e) PROVE Inv'
<1> DEFINE x == exchange[e]
           r == [x EXCEPT !.at = IF kept[x.jti] = 0 THEN "refused" ELSE "read", !.token = kept[x.jti]]
<1>1. x \in ExchangeState /\ x.at = "asked" /\ exchange' = [exchange EXCEPT ![e] = r]
    BY DEF Read, Inv, TypeOK
<1>2. x.jti \in Pair /\ x.jti <= issued
    BY <1>1, SessionsTaken DEF Inv, Rest, ExchangeNumbers, IssuedNumbers
<1>3. kept[x.jti] \in PairOrNone
    BY <1>2 DEF Inv, TypeOK
<1>4. /\ r \in ExchangeState /\ r.tab = x.tab /\ r.jti = x.jti /\ r.token = kept[x.jti]
      /\ r.at = IF kept[x.jti] = 0 THEN "refused" ELSE "read"
    BY <1>1, <1>3 DEF ExchangeState, Answers
<1>5. r.at = "read" => r.token \in 1..issued /\ session[r.token] = Of(e)
    BY <1>2, <1>3, <1>4, Values DEF Inv, Rest, IssuedNumbers, Of, Pair
<1>6. Live(Of(e)) => r.at # "refused" /\ (r.at = "read" /\ rotates => Newest(r.token))
    BY <1>1, <1>4 DEF Inv, Rest, ExchangesLive, ExchangeLive
<1>7. UNCHANGED <<fixed, upsets, store, tabVars, serverVars, alive, expired, waived>>
    BY DEF Read, ServerStep
<1> HIDE DEF r
<1>8. NoCallStranded' /\ exchange' \in [Exchange -> ExchangeState]
    BY <1>1, <1>4, <1>7, ServerStepKeeps
<1>9. Rest'
    BY <1>1, <1>4, <1>5, <1>6, <1>7, MovedKeepsRest DEF Inv, serverVars, tabVars
<1>10. QED BY <1>7, <1>8, <1>9 DEF Inv, TypeOK, fixed, tabVars, serverVars

LEMMA UnavailableKeeps == ASSUME Inv, NEW e \in Exchange, Unavailable(e) PROVE Inv'
<1> DEFINE x == exchange[e]
           r == [x EXCEPT !.at = "unavailable", !.token = 0]
<1>1. x \in ExchangeState /\ x.at = "read" /\ exchange' = [exchange EXCEPT ![e] = r]
    BY DEF Unavailable, Inv, TypeOK
<1>2. r \in ExchangeState /\ r.tab = x.tab /\ r.jti = x.jti /\ r.at = "unavailable"
    BY <1>1, Values DEF ExchangeState, Answers
<1>3. UNCHANGED <<fixed, store, tabVars, serverVars, alive, expired, waived>> /\ upsets' \in 0..MaxUpset
    BY UpsetType DEF Unavailable, Inv
<1> HIDE DEF r
<1>4. NoCallStranded' /\ exchange' \in [Exchange -> ExchangeState]
    BY <1>1, <1>2, <1>3, ServerStepKeeps
<1>5. Rest'
    BY <1>1, <1>2, <1>3, MovedKeepsRest DEF Inv, serverVars, tabVars
<1>6. QED BY <1>3, <1>4, <1>5 DEF Inv, TypeOK, fixed, tabVars, serverVars

LEMMA RejectKeeps == ASSUME Inv, NEW e \in Exchange, Reject(e) PROVE Inv'
<1> DEFINE x == exchange[e]
           r == [x EXCEPT !.at = "refused", !.token = 0]
<1>1. x \in ExchangeState /\ x.at = "read" /\ exchange' = [exchange EXCEPT ![e] = r]
    BY DEF Reject, Inv, TypeOK
<1>2. r \in ExchangeState /\ r.tab = x.tab /\ r.jti = x.jti /\ r.at = "refused"
    BY <1>1, Values DEF ExchangeState, Answers
<1>3. x.jti \in Pair /\ session[x.token] = Of(e)
    BY <1>1, SessionsTaken DEF Inv, Rest, ExchangeNumbers
<1>4. ~Live(Of(e))
    <2>1. Live(Of(e)) => Of(e) \in alive /\ (rotates => Newest(x.token))
        BY <1>1 DEF Live, Inv, Rest, ExchangesLive, ExchangeLive
    <2>2. QED BY <1>3, <2>1 DEF Reject, Accepts, Newest
<1>5. /\ kept' \in [Pair -> PairOrNone] /\ grace' \subseteq grace
      /\ \A n \in Pair : kept'[n] = kept[n] \/ (kept'[n] = 0 /\ ~Live(session[n]))
    BY <1>3, <1>4, Values DEF Reject, Of, Inv, TypeOK
<1>6. UNCHANGED <<fixed, upsets, store, tabVars, issued, session, alive, expired, waived>>
    BY DEF Reject, ServerStep
<1> HIDE DEF r
<1>7. NoCallStranded' /\ exchange' \in [Exchange -> ExchangeState]
    BY <1>1, <1>2, <1>6, ServerStepKeeps
<1>8. Rest'
    BY <1>1, <1>2, <1>4, <1>5, <1>6, MovedKeepsRest DEF Inv, serverVars, tabVars
<1>9. QED BY <1>5, <1>6, <1>7, <1>8 DEF Inv, TypeOK, fixed, tabVars, serverVars

(***************************************************************************)
(* Requests that are over                                                  *)
(***************************************************************************)
\* One that brought nothing, or that nobody waits for.
LEMMA FreedKeepsRest ==
    ASSUME TypeOK, Rest, NEW e \in Exchange, exchange' = [exchange EXCEPT ![e] = Free],
           exchange[e].at \in {"refused", "unavailable"} \/ (exchange[e].at = "granted" /\ exchange[e].tab = NoTab),
           UNCHANGED <<fixed, serverVars, alive, waived>>, store'.refresh \in {0, store.refresh},
           \A u \in Tab : leaving'[u] = leaving[u] \/ leaving'[u].jti = 0
    PROVE  Rest'
<1> USE DEF Rest, fixed, serverVars
<1>1. exchange'[e] = Free /\ \A d \in Exchange \ {e} : exchange'[d] = exchange[d]
    BY Values DEF TypeOK
<1>2. Free.at = "free" /\ Free.tab = NoTab /\ Free.jti = 0
    BY DEF Free
<1>3. IssuedNumbers' /\ LeavingWaived'
    BY DEF IssuedNumbers, LeavingWaived, Pair
<1>4. ExchangeNumbers'
    BY <1>1, <1>2 DEF ExchangeNumbers, Of
<1>5. OneExchange'
    BY <1>1, <1>2 DEF OneExchange
<1>6. FreshTokens'
    <2>1. \A d \in Exchange : Fresh(d) => exchange[d].token # 0
        BY DEF Fresh, ExchangeNumbers
    <2>2. \A d \in Exchange : Fresh(d)' => d # e /\ Fresh(d)
        BY <1>1, <1>2 DEF Fresh
    <2>3. QED BY <1>1, <1>2, <2>1, <2>2 DEF FreshTokens
<1>7. ExchangesLive'
    BY <1>1, <1>2 DEF ExchangesLive, ExchangeLive, Of, Live, Newest
<1>8. StoreLive'
    <2>1. ASSUME Live(Of(e)) PROVE ~Fresh(e)
        BY <2>1 DEF ExchangesLive, ExchangeLive, Fresh
    <2>2. \A d \in Exchange : Fresh(d) /\ Live(Of(d)) => exchange'[d] = exchange[d] /\ Fresh(d)' /\ Of(d)' = Of(d)
        BY <1>1, <2>1 DEF Fresh, Of
    <2>3. CASE store'.refresh = 0
        BY <2>3 DEF StoreLive
    <2>4. CASE store'.refresh = store.refresh
        BY <2>2, <2>4 DEF StoreLive, Live, Newest, Fresh, Of
    <2>5. QED BY <2>3, <2>4
<1> QED BY <1>3, <1>4, <1>5, <1>6, <1>7, <1>8

LEMMA VanishKeeps == ASSUME Inv, NEW e \in Exchange, Vanish(e) PROVE Inv'
<1>1. /\ exchange[e].at \in Answers /\ exchange[e].tab = NoTab /\ exchange' = [exchange EXCEPT ![e] = Free]
      /\ UNCHANGED <<fixed, upsets, store, tabVars, serverVars, alive, expired, waived>>
    BY DEF Vanish, ServerStep
<1>2. NoCallStranded' /\ exchange' \in [Exchange -> ExchangeState]
    BY <1>1, Values, ServerStepKeeps
<1>3. Rest'
    BY <1>1, FreedKeepsRest DEF Answers, Inv, tabVars
<1>4. QED BY <1>1, <1>2, <1>3 DEF Inv, TypeOK, fixed, tabVars, serverVars

\* The answer that brings a new pair: the browser has it from here on.
LEMMA GrantedKeepsRest ==
    ASSUME TypeOK, Rest, NEW e \in Exchange, exchange' = [exchange EXCEPT ![e] = Free],
           exchange[e].at = "granted", store'.refresh = exchange[e].token,
           UNCHANGED <<fixed, serverVars, alive, waived, leaving>>
    PROVE  Rest'
<1> USE DEF Rest, fixed, serverVars
<1>1. exchange'[e] = Free /\ \A d \in Exchange \ {e} : exchange'[d] = exchange[d]
    BY Values DEF TypeOK
<1>2. Free.at = "free" /\ Free.tab = NoTab /\ Free.jti = 0
    BY DEF Free
<1>3. /\ exchange[e].token \in 1..issued /\ session[exchange[e].token] = Of(e) /\ Fresh(e)
      /\ exchange[e].token \notin grace
    BY DEF ExchangeNumbers, Fresh, FreshTokens
<1>4. IssuedNumbers' /\ LeavingWaived'
    BY <1>3 DEF IssuedNumbers, LeavingWaived, Pair
<1>5. ExchangeNumbers'
    BY <1>1, <1>2 DEF ExchangeNumbers, Of
<1>6. OneExchange'
    BY <1>1, <1>2 DEF OneExchange
<1>7. FreshTokens'
    <2>1. \A d \in Exchange : Fresh(d) => exchange[d].token # 0
        BY DEF Fresh, ExchangeNumbers
    <2>2. \A d \in Exchange : Fresh(d)' => d # e /\ Fresh(d)
        BY <1>1, <1>2 DEF Fresh
    <2>3. QED BY <1>1, <1>2, <1>3, <2>1, <2>2 DEF FreshTokens
<1>8. ExchangesLive'
    BY <1>1, <1>2 DEF ExchangesLive, ExchangeLive, Of, Live, Newest
<1>9. StoreLive'
    <2>1. Live(Of(e)) => kept[exchange[e].token] # 0 /\ (rotates => Newest(kept[exchange[e].token]))
        BY DEF ExchangesLive, ExchangeLive
    <2>2. QED BY <1>3, <2>1 DEF StoreLive, Live, Newest
<1> QED BY <1>4, <1>5, <1>6, <1>7, <1>8, <1>9

LEMMA DeliverKeeps == ASSUME Inv, NEW e \in Exchange, Deliver(e) PROVE Inv'
<1> DEFINE x == exchange[e]
           s == [access |-> x.token, refresh |-> x.token]
<1>1. /\ x \in ExchangeState /\ x.at \in Answers /\ x.tab \in Tab /\ x.token \in PairOrNone
      /\ exchange' = [exchange EXCEPT ![e] = Free] /\ UNCHANGED <<fixed, upsets, serverVars, alive, expired, waived>>
    BY DEF Deliver, Inv, TypeOK, ExchangeState
<1>2. CASE x.at = "granted"
    <2>1. Resume(x.tab, s) /\ s \in [access : PairOrNone, refresh : PairOrNone] /\ s.refresh = x.token
        BY <1>1, <1>2 DEF Deliver
    <2> HIDE DEF s
    <2>2. TabRests(x.tab) /\ store' = s /\ UNCHANGED leaving
        BY <1>1, <2>1, ResumeRests DEF Resume
    <2>3. NoCallStranded' /\ exchange' \in [Exchange -> ExchangeState]
        BY <1>1, <2>2, Values, TabReleased, TabAssumption
    <2>4. Rest'
        BY <1>1, <1>2, <2>1, <2>2, GrantedKeepsRest DEF Inv
    <2>5. QED BY <1>1, <2>1, <2>2, <2>3, <2>4 DEF Inv, TypeOK, TabRests, fixed, serverVars
<1>3. CASE x.at # "granted"
    <2>1. x.at \in {"refused", "unavailable"}
        BY <1>1, <1>3 DEF Answers
    <2>2. /\ TabRests(x.tab)
          /\ store' \in [access : PairOrNone, refresh : PairOrNone] /\ store'.refresh \in {0, store.refresh}
        <3>1. GiveUp(x.tab, x.at = "refused") /\ (x.at = "refused") \in BOOLEAN
            BY <1>3 DEF Deliver
        <3>2. QED BY <1>1, <3>1, GiveUpRests
    <2>3. NoCallStranded' /\ exchange' \in [Exchange -> ExchangeState]
        BY <1>1, <2>2, Values, TabReleased, TabAssumption
    <2>4. Rest'
        BY <1>1, <2>1, <2>2, FreedKeepsRest DEF Inv, TabRests
    <2>5. QED BY <1>1, <2>2, <2>3, <2>4 DEF Inv, TypeOK, TabRests, fixed, serverVars
<1>4. QED BY <1>2, <1>3

(***************************************************************************)
(* A refresh begins                                                        *)
(***************************************************************************)
LEMMA AskKeeps == ASSUME Inv, NEW t \in Tab, NEW e \in Exchange, Ask(t, e) PROVE Inv'
<1> DEFINE n == store.refresh
           r == [at |-> "asked", tab |-> t, jti |-> n, token |-> 0]
<1>1. /\ refresh[t].at = "waiting" /\ (locks => \A u \in Tab : refresh[u].at # "sent") /\ exchange[e] = Free
      /\ exchange' = [exchange EXCEPT ![e] = r]
      /\ refresh' = [refresh EXCEPT ![t] = [at |-> "sent", stale |-> 0]]
      /\ UNCHANGED <<fixed, upsets, store, page, call, leaving, serverVars, alive, expired, waived>>
    BY DEF Ask, MyTurn
<1>2. n \in Pair /\ n <= issued /\ session[n] \in Pair
    BY SessionsTaken DEF Ask, Inv, Rest, IssuedNumbers
<1>3. /\ r \in ExchangeState /\ r.at = "asked" /\ r.tab = t /\ r.jti = n /\ r.token = 0
      /\ [at |-> "sent", stale |-> 0] \in RefreshState
    BY <1>2, Values DEF ExchangeState, RefreshState
<1> HIDE DEF r
<1>4. /\ exchange' \in [Exchange -> ExchangeState] /\ exchange'[e] = r
      /\ \A d \in Exchange \ {e} : exchange'[d] = exchange[d]
      /\ refresh' \in [Tab -> RefreshState] /\ refresh'[t].at = "sent"
      /\ \A u \in Tab \ {t} : refresh'[u] = refresh[u]
    BY <1>1, <1>3 DEF Inv, TypeOK
<1>5. TypeOK'
    BY <1>1, <1>4 DEF Inv, TypeOK, fixed, serverVars
<1>6. \A d \in Exchange : exchange[d].tab # t /\ (locks => exchange[d].tab = NoTab)
    <2>1. \A d \in Exchange : exchange[d].tab \in Tab \cup {NoTab}
        BY DEF Inv, TypeOK, ExchangeState
    <2>2. \A u \in Tab : refresh[u].at # "sent" => \A d \in Exchange : exchange[d].tab # u
        BY DEF Inv, NoCallStranded
    <2>3. QED BY <1>1, <2>1, <2>2
<1>7. NoCallStranded'
    <2>1. \A u \in Tab : Waiting(u)' = Waiting(u)
        BY <1>1 DEF Waiting
    <2>2. QED BY <1>1, <1>3, <1>4, <1>6, <2>1, Values, TabAssumption DEF Inv, NoCallStranded
<1>8. exchange[e].at = "free" /\ exchange[e].tab = NoTab /\ exchange[e].jti = 0
    BY <1>1 DEF Free
<1>9. IssuedNumbers' /\ LeavingWaived' /\ ExchangeNumbers'
    BY <1>1, <1>2, <1>3, <1>4 DEF Inv, Rest, IssuedNumbers, LeavingWaived, ExchangeNumbers, Of, Pair, fixed, serverVars
<1>10. OneExchange'
    BY <1>1, <1>3, <1>4, <1>6 DEF Inv, Rest, OneExchange, fixed
<1>11. FreshTokens'
    <2>1. \A d \in Exchange : Fresh(d)' => d # e /\ Fresh(d) /\ exchange'[d] = exchange[d]
        BY <1>3, <1>4 DEF Fresh
    <2>2. QED BY <1>1, <1>3, <1>4, <2>1 DEF Inv, Rest, FreshTokens, serverVars
<1>12. ExchangesLive'
    <2> SUFFICES ASSUME NEW d \in Exchange, exchange'[d].at # "free", Live(Of(d))' PROVE ExchangeLive(d)'
        BY DEF ExchangesLive
    <2>1. CASE d # e
        BY <1>1, <1>4, <2>1 DEF Inv, Rest, ExchangesLive, ExchangeLive, Of, Live, Newest, fixed, serverVars
    <2>2. CASE d = e
        <3>1. Live(session[n])
            BY <1>1, <1>3, <1>4, <2>2 DEF Of, Live, serverVars, fixed
        <3>2. rotates => ~ \E f \in Exchange : Fresh(f) /\ Of(f) = session[n]
            BY <1>6, <3>1 DEF Inv, Rest, ExchangesLive, ExchangeLive, Fresh, Live
        <3>3. kept[n] # 0 /\ (rotates => Newest(kept[n]))
            BY <1>2, <3>1, <3>2, BoundAssumption DEF Inv, Rest, StoreLive, Pair
        <3>4. QED BY <1>1, <1>3, <1>4, <2>2, <3>3, TabAssumption DEF ExchangeLive, Newest, fixed, serverVars
    <2>3. QED BY <2>1, <2>2
<1>13. StoreLive'
    <2>1. \A d \in Exchange : exchange[d].at # "free" => d # e /\ exchange'[d] = exchange[d]
        BY <1>4, <1>8
    <2>2. \A d \in Exchange : Fresh(d) => Fresh(d)' /\ Of(d)' = Of(d)
        BY <1>1, <2>1 DEF Fresh, Of, serverVars
    <2>3. QED BY <1>1, <2>1, <2>2 DEF Inv, Rest, StoreLive, Live, Newest, fixed, serverVars
<1>14. QED BY <1>1, <1>5, <1>7, <1>9, <1>10, <1>11, <1>12, <1>13 DEF Inv, Rest, fixed

(***************************************************************************)
(* New tokens                                                              *)
(***************************************************************************)
LEMMA RenewKeeps == ASSUME Inv, NEW e \in Exchange, Renew(e) PROVE Inv'
<1> DEFINE x == exchange[e]
           n == issued + 1
           r == [x EXCEPT !.at = "renewed", !.token = n]
<1>1. /\ x \in ExchangeState /\ x.at = "read" /\ exchange' = [exchange EXCEPT ![e] = r]
      /\ issued' = n /\ session' = [session EXCEPT ![n] = session[x.token]]
      /\ UNCHANGED <<fixed, upsets, store, tabVars, kept, grace, alive, expired, waived>>
    BY DEF Renew, ServerStep, Inv, TypeOK
<1>2. issued \in Pair /\ n \in Pair /\ \A m \in Pair : m <= issued <=> m < n
    BY BoundAssumption DEF Renew, Inv, Rest, IssuedNumbers, Pair
<1>3. r \in ExchangeState /\ r.tab = x.tab /\ r.jti = x.jti /\ r.at = "renewed" /\ r.token = n
    BY <1>1, <1>2, Values DEF ExchangeState
<1> HIDE DEF r
<1>4. exchange'[e] = r /\ \A d \in Exchange \ {e} : exchange'[d] = exchange[d]
    BY <1>1 DEF Inv, TypeOK
<1>5. NoCallStranded' /\ exchange' \in [Exchange -> ExchangeState]
    BY <1>1, <1>3, ServerStepKeeps
<1>6. x.jti \in Pair /\ x.jti <= issued /\ session[x.token] = Of(e) /\ Of(e) \in 1..issued
    BY <1>1, SessionsTaken DEF Inv, Rest, ExchangeNumbers, IssuedNumbers, Of
<1>7. /\ session' \in [Pair -> PairOrNone] /\ session'[n] = Of(e)
      /\ \A m \in Pair : m # n => session'[m] = session[m]
    BY <1>1, <1>2, <1>6, Values DEF Inv, TypeOK, IssuedNumbers, Pair
<1>8. TypeOK'
    BY <1>1, <1>2, <1>5, <1>7, Values DEF Inv, TypeOK, fixed, tabVars
<1>9. \A d \in Exchange : exchange[d].at # "free" =>
          /\ exchange'[d].jti = exchange[d].jti /\ exchange[d].jti \in Pair /\ exchange[d].jti <= issued
          /\ Of(d)' = Of(d) /\ Of(d) \in 1..issued
    BY <1>2, <1>3, <1>4, <1>7, SessionsTaken DEF Inv, Rest, ExchangeNumbers, IssuedNumbers, Of
<1>10. IssuedNumbers'
    <2>1. \A m \in Pair : m > n => session'[m] = 0
        BY <1>2, <1>7 DEF Inv, Rest, IssuedNumbers, Pair
    <2>2. \A m \in Pair : m <= n => session'[m] \in 1..n
        BY <1>2, <1>6, <1>7 DEF Inv, Rest, IssuedNumbers, Pair
    <2>3. \A m \in Pair : kept[m] # 0 => kept[m] \in Pair /\ kept[m] <= issued /\ m <= issued /\ session[kept[m]] = session[m]
        BY Values DEF Inv, Rest, IssuedNumbers, TypeOK
    <2>4. \A m \in Pair : kept[m] # 0 => m <= n /\ kept[m] <= n /\ session'[kept[m]] = session'[m]
        BY <1>2, <1>7, <2>3 DEF Pair
    <2>5. (\A m \in grace : m <= n) /\ store.refresh <= n
        BY <1>2 DEF Inv, Rest, IssuedNumbers, Pair, TypeOK, PairOrNone
    <2>6. QED BY <1>1, <1>2, <2>1, <2>2, <2>4, <2>5 DEF IssuedNumbers
<1>11. LeavingWaived'
    <2>1. \A t \in Tab : leaving[t].jti # 0 => leaving[t].jti \in Pair
        BY Values DEF Inv, TypeOK, LeavingState
    <2>2. QED BY <1>1, <1>2, <1>7, <2>1 DEF Inv, Rest, LeavingWaived, tabVars, Pair
<1>12. ExchangeNumbers'
    <2>1. \A d \in Exchange : d # e /\ exchange[d].at \in {"read", "renewed", "granted"} =>
              exchange[d].token \in 1..n /\ exchange[d].token # n /\ exchange[d].token \in Pair /\ session[exchange[d].token] = Of(d)
        BY <1>2, BoundAssumption DEF Inv, Rest, ExchangeNumbers, Pair
    <2>2. QED BY <1>1, <1>2, <1>3, <1>4, <1>6, <1>7, <1>9, <2>1 DEF Inv, Rest, ExchangeNumbers, Pair
<1>13. OneExchange'
    BY <1>1, <1>3, <1>4 DEF Inv, Rest, OneExchange, fixed
<1>14. FreshTokens'
    <2>1. n \notin grace /\ n # store.refresh
        BY <1>2 DEF Inv, Rest, IssuedNumbers, Pair
    <2>2. \A d \in Exchange : exchange[d].jti # n /\ (Fresh(d) => exchange[d].token # n)
        BY <1>2, <1>9, Values DEF Inv, Rest, ExchangeNumbers, Fresh, Pair, Free
    <2>3. \A d \in Exchange : Fresh(d)' => d = e \/ (Fresh(d) /\ exchange'[d] = exchange[d])
        BY <1>4 DEF Fresh
    <2>4. ~Fresh(e) /\ \A d \in Exchange : exchange'[d].jti = exchange[d].jti
        BY <1>1, <1>3, <1>4 DEF Fresh
    <2>5. QED BY <1>1, <1>3, <1>4, <2>1, <2>2, <2>3, <2>4 DEF Inv, Rest, FreshTokens
<1>15. \A m \in Pair : m # n /\ session[m] # Of(e) /\ session[m] \in Pair /\ Newest(m) => Newest(m)'
    BY <1>7 DEF Newest
<1>16. ExchangesLive'
    <2> SUFFICES ASSUME NEW d \in Exchange, exchange'[d].at # "free", Live(Of(d))' PROVE ExchangeLive(d)'
        BY DEF ExchangesLive
    <2>1. exchange[d].at # "free" /\ Live(Of(d)) /\ ExchangeLive(d)
        BY <1>1, <1>4, <1>9 DEF Live, Inv, Rest, ExchangesLive, fixed
    <2>2. CASE d = e
        <3>1. \A m \in Pair : session'[m] = session'[n] => m <= n
            BY <1>2, <1>6, <1>7 DEF Inv, Rest, IssuedNumbers, Pair
        <3>2. QED BY <1>1, <1>3, <1>4, <2>1, <2>2, <3>1 DEF ExchangeLive, Newest
    <2>3. CASE d # e
        <3>1. rotates => Of(d) # Of(e)
            BY <1>1, <2>1, <2>3 DEF Inv, Rest, OneExchange, ExchangesLive, ExchangeLive, Live
        <3>2. \A m \in Pair : m <= issued /\ session[m] = Of(d) /\ (rotates => Newest(m)) => (rotates => Newest(m)')
            BY <1>2, <1>9, <1>15, <2>1, <3>1, BoundAssumption DEF Pair
        <3>3. /\ exchange[d].at = "asked" => /\ kept[exchange[d].jti] # 0 /\ kept[exchange[d].jti] \in Pair
                                             /\ kept[exchange[d].jti] <= issued /\ session[kept[exchange[d].jti]] = Of(d)
              /\ exchange[d].at \in {"read", "renewed", "granted"} =>
                    /\ exchange[d].token \in Pair /\ exchange[d].token <= issued /\ session[exchange[d].token] = Of(d)
              /\ exchange[d].at = "granted" => /\ kept[exchange[d].token] # 0 /\ kept[exchange[d].token] \in Pair
                                               /\ kept[exchange[d].token] <= issued /\ session[kept[exchange[d].token]] = Of(d)
            <4>1. exchange[d].at \in {"read", "renewed", "granted"} =>
                    /\ exchange[d].token \in Pair /\ exchange[d].token <= issued /\ session[exchange[d].token] = Of(d)
                BY <1>2, BoundAssumption DEF Inv, Rest, ExchangeNumbers, Pair
            <4>2. \A m \in Pair : kept[m] # 0 => kept[m] \in Pair /\ kept[m] <= issued /\ session[kept[m]] = session[m]
                BY Values DEF Inv, Rest, IssuedNumbers, TypeOK
            <4>3. QED BY <1>9, <2>1, <4>1, <4>2 DEF ExchangeLive, Of
        <3>4. QED BY <1>1, <1>4, <2>1, <2>3, <3>2, <3>3 DEF ExchangeLive, fixed
    <2>4. QED BY <2>2, <2>3
<1>17. StoreLive'
    <2>0. PICK m \in PairOrNone : m = store.refresh
        BY DEF Inv, TypeOK
    <2> SUFFICES ASSUME m # 0, Live(session'[m])
                 PROVE  /\ kept[m] # 0
                        /\ rotates => Newest(kept[m])' \/ \E d \in Exchange : Fresh(d)' /\ Of(d)' = session'[m]
                        /\ m \in grace => \E d \in Exchange : exchange'[d].at = "granted" /\ exchange'[d].jti = m
        BY <1>1, <2>0 DEF StoreLive, Live, fixed
    <2>1. m \in Pair /\ m <= issued /\ session'[m] = session[m] /\ session[m] \in Pair /\ Live(session[m])
        <3>1. m \in Pair /\ session[m] \in Pair /\ m <= issued
            BY <2>0, SessionsTaken DEF Inv, Rest, IssuedNumbers
        <3>2. QED BY <1>1, <1>2, <1>7, <3>1 DEF Live
    <2>2. kept[m] # 0 /\ kept[m] \in Pair /\ kept[m] <= issued /\ session[kept[m]] = session[m]
        BY <2>0, <2>1, Values DEF Inv, Rest, StoreLive, IssuedNumbers, TypeOK
    <2>3. \A d \in Exchange : Fresh(d) \/ exchange[d].at = "granted" => d # e /\ exchange'[d] = exchange[d] /\ Fresh(d)' /\ Of(d)' = Of(d)
        BY <1>1, <1>4, <1>9 DEF Fresh
    <2>4. Fresh(e)' /\ Of(e)' = Of(e)
        BY <1>1, <1>3, <1>4, <1>9 DEF Fresh
    <2>5. rotates => Newest(kept[m])' \/ \E d \in Exchange : Fresh(d)' /\ Of(d)' = session'[m]
        <3>1. CASE session[m] = Of(e)
            BY <2>1, <2>4, <3>1
        <3>2. CASE session[m] # Of(e)
            <4>1. kept[m] # n
                BY <1>2, <2>2 DEF Pair
            <4>2. Newest(kept[m]) => Newest(kept[m])'
                BY <1>1, <1>7, <2>1, <2>2, <3>2, <4>1 DEF Newest
            <4>3. QED BY <2>0, <2>1, <2>3, <4>2 DEF Inv, Rest, StoreLive
        <3>3. QED BY <3>1, <3>2
    <2>6. QED BY <2>0, <2>1, <2>2, <2>3, <2>5 DEF Inv, Rest, StoreLive
<1>18. QED BY <1>1, <1>5, <1>8, <1>10, <1>11, <1>12, <1>13, <1>14, <1>16, <1>17 DEF Inv, Rest, fixed

LEMMA KeepKeeps == ASSUME Inv, NEW e \in Exchange, Keep(e) PROVE Inv'
<1> DEFINE x == exchange[e]
           r == [x EXCEPT !.at = "granted"]
<1>1. /\ x \in ExchangeState /\ x.at = "renewed" /\ exchange' = [exchange EXCEPT ![e] = r]
      /\ kept' = [kept EXCEPT ![x.token] = x.token, ![x.jti] = x.token] /\ grace' = grace \cup {x.jti}
      /\ UNCHANGED <<fixed, upsets, store, tabVars, issued, session, alive, expired, waived>>
    BY DEF Keep, ServerStep, Inv, TypeOK
<1>2. r \in ExchangeState /\ r.tab = x.tab /\ r.jti = x.jti /\ r.at = "granted" /\ r.token = x.token
    BY <1>1 DEF ExchangeState, Answers
<1> HIDE DEF r
<1>3. exchange'[e] = r /\ \A d \in Exchange \ {e} : exchange'[d] = exchange[d]
    BY <1>1 DEF Inv, TypeOK
<1>4. NoCallStranded' /\ exchange' \in [Exchange -> ExchangeState]
    BY <1>1, <1>2, ServerStepKeeps
<1>5. /\ x.jti \in Pair /\ x.jti <= issued /\ x.token \in Pair /\ x.token <= issued /\ x.token # 0
      /\ session[x.token] = Of(e) /\ Fresh(e) /\ x.jti # x.token
    <2>1. x.jti \in Pair /\ x.jti <= issued
        BY <1>1, SessionsTaken DEF Inv, Rest, ExchangeNumbers, IssuedNumbers
    <2>2. x.token \in Pair /\ x.token <= issued /\ x.token # 0 /\ session[x.token] = Of(e)
        BY <1>1, BoundAssumption DEF Inv, Rest, ExchangeNumbers, IssuedNumbers, Pair
    <2>3. QED BY <1>1, <2>1, <2>2 DEF Inv, Rest, FreshTokens, Fresh
<1>6. /\ kept' \in [Pair -> PairOrNone] /\ kept'[x.token] = x.token /\ kept'[x.jti] = x.token
      /\ \A n \in Pair : n \notin {x.token, x.jti} => kept'[n] = kept[n]
    BY <1>1, <1>5, Values DEF Inv, TypeOK
<1>7. TypeOK'
    BY <1>1, <1>4, <1>5, <1>6 DEF Inv, TypeOK, fixed, tabVars
<1>8. \A d \in Exchange : /\ exchange'[d].tab = exchange[d].tab /\ exchange'[d].jti = exchange[d].jti
                          /\ exchange'[d].token = exchange[d].token /\ Of(d)' = Of(d) /\ Fresh(d)' = Fresh(d)
    BY <1>1, <1>2, <1>3, <1>5 DEF Of, Fresh
<1>9. IssuedNumbers'
    BY <1>1, <1>5, <1>6 DEF Inv, Rest, IssuedNumbers, Of
<1>10. LeavingWaived' /\ OneExchange'
    BY <1>1, <1>8 DEF Inv, Rest, LeavingWaived, OneExchange, tabVars, fixed
<1>11. ExchangeNumbers'
    <2>1. \A d \in Exchange : exchange'[d].at = exchange[d].at \/ (d = e /\ exchange'[d].at = "granted")
        BY <1>2, <1>3
    <2>2. \A d \in Exchange : d # e => exchange'[d] = exchange[d]
        BY <1>3
    <2>3. QED BY <1>1, <1>8, <2>1, <2>2 DEF Inv, Rest, ExchangeNumbers
<1>12. FreshTokens'
    BY <1>1, <1>5, <1>8 DEF Inv, Rest, FreshTokens
<1>13. ExchangesLive'
    <2> SUFFICES ASSUME NEW d \in Exchange, exchange'[d].at # "free", Live(Of(d)) PROVE ExchangeLive(d)'
        BY <1>1, <1>8 DEF ExchangesLive, Live, fixed
    <2>1. exchange[d].at # "free" /\ ExchangeLive(d)
        BY <1>1, <1>3 DEF Inv, Rest, ExchangesLive
    <2>2. CASE d = e
        <3>1. PICK k \in Pair : k = x.token
            BY <1>5
        <3>2. /\ exchange'[e].tab # NoTab /\ exchange'[e].at = "granted" /\ exchange'[e].token = k
              /\ kept'[k] = k /\ k # 0
            BY <1>2, <1>3, <1>5, <1>6, <2>1, <2>2, <3>1 DEF ExchangeLive
        <3>3. rotates => Newest(k)
            BY <1>1, <2>1, <2>2, <3>1 DEF ExchangeLive
        <3>4. QED BY <1>1, <2>2, <3>2, <3>3 DEF ExchangeLive, Newest, fixed
    <2>3. CASE d # e
        <3>1. rotates => Of(d) # Of(e)
            BY <1>1, <2>1, <2>3 DEF Inv, Rest, OneExchange, ExchangesLive, ExchangeLive, Live
        <3>2. exchange[d].jti \in Pair /\ exchange[d].jti # x.token
            BY <1>5, <2>1, SessionsTaken DEF Inv, Rest, FreshTokens
        <3>3. exchange[d].at = "granted" =>
                  exchange[d].token \in Pair /\ exchange[d].token \notin {x.token, x.jti}
            BY <1>5, <2>3, BoundAssumption DEF Inv, Rest, ExchangeNumbers, IssuedNumbers, FreshTokens, Fresh, Pair
        <3>4. exchange[d].at = "asked" => kept'[exchange[d].jti] # 0 /\ (rotates => Newest(kept'[exchange[d].jti]))
            <4>1. CASE exchange[d].jti = x.jti
                BY <1>5, <1>6, <3>1, <4>1 DEF Of
            <4>2. CASE exchange[d].jti # x.jti
                BY <1>6, <2>1, <3>2, <4>2 DEF ExchangeLive
            <4>3. QED BY <4>1, <4>2
        <3>5. exchange[d].at = "granted" => kept'[exchange[d].token] # 0 /\ (rotates => Newest(kept'[exchange[d].token]))
            BY <1>6, <2>1, <3>3 DEF ExchangeLive
        <3>6. QED BY <1>1, <1>3, <2>1, <2>3, <3>4, <3>5 DEF ExchangeLive, Newest, fixed
    <2>4. QED BY <2>2, <2>3
<1>14. StoreLive'
    <2>0. PICK n \in PairOrNone : n = store.refresh
        BY DEF Inv, TypeOK
    <2> SUFFICES ASSUME n # 0, Live(session[n])
                 PROVE  /\ kept'[n] # 0
                        /\ rotates => Newest(kept'[n]) \/ \E d \in Exchange : Fresh(d) /\ Of(d) = session[n]
                        /\ n \in grace' => \E d \in Exchange : exchange'[d].at = "granted" /\ exchange'[d].jti = n
        BY <1>1, <1>8, <2>0 DEF StoreLive, Live, Newest, fixed
    <2>1. n \in Pair /\ n # x.token
        BY <1>5, <2>0, Values DEF Inv, Rest, FreshTokens
    <2>2. CASE n = x.jti
        BY <1>2, <1>3, <1>5, <1>6, <2>2 DEF Of
    <2>3. CASE n # x.jti
        <3>1. \A d \in Exchange : exchange[d].at = "granted" => exchange'[d] = exchange[d]
            BY <1>1, <1>3
        <3>2. QED BY <1>1, <1>6, <2>0, <2>1, <2>3, <3>1 DEF Inv, Rest, StoreLive
    <2>4. QED BY <2>2, <2>3
<1>15. QED BY <1>1, <1>4, <1>7, <1>9, <1>10, <1>11, <1>12, <1>13, <1>14 DEF Inv, Rest, fixed

LEMMA GraceExpiresKeeps == ASSUME Inv, NEW n \in Pair, GraceExpires(n) PROVE Inv'
<1>1. /\ \A e \in Exchange : exchange[e].at = "free" /\ exchange[e] = Free
      /\ n \in grace /\ grace' = grace \ {n} /\ kept' = [kept EXCEPT ![n] = 0]
      /\ UNCHANGED <<fixed, upsets, store, tabVars, exchange, issued, session, alive, expired, waived>>
    BY DEF GraceExpires, Quiet, Free
<1>2. kept' \in [Pair -> PairOrNone] /\ kept'[n] = 0 /\ \A m \in Pair : m # n => kept'[m] = kept[m]
    BY <1>1, Values DEF Inv, TypeOK
<1>3. TypeOK' /\ NoCallStranded'
    BY <1>1, <1>2 DEF Inv, TypeOK, NoCallStranded, Waiting, fixed, tabVars
<1>4. IssuedNumbers' /\ LeavingWaived' /\ ExchangeNumbers' /\ OneExchange'
    BY <1>1, <1>2 DEF Inv, Rest, IssuedNumbers, LeavingWaived, ExchangeNumbers, OneExchange, Of, fixed, tabVars
<1>5. FreshTokens' /\ ExchangesLive'
    BY <1>1 DEF FreshTokens, Fresh, ExchangesLive
<1>6. store.refresh # 0 /\ Live(session[store.refresh]) => store.refresh # n /\ store.refresh \in Pair
    <2>1. \A e \in Exchange : exchange[e].at # "granted"
        BY <1>1
    <2>2. QED BY <1>1, <2>1, SessionsTaken DEF Inv, Rest, StoreLive
<1>7. StoreLive'
    BY <1>1, <1>2, <1>6 DEF Inv, Rest, StoreLive, Live, Newest, Fresh, Of, fixed
<1>8. QED BY <1>1, <1>3, <1>4, <1>5, <1>7 DEF Inv, Rest, fixed

(***************************************************************************)
(* A new session                                                           *)
(***************************************************************************)
LEMMA SignInKeeps == ASSUME Inv, NEW t \in Tab, SignIn(t) PROVE Inv'
<1>0. PICK n \in Nat : n = issued + 1
    BY BoundAssumption DEF Inv, TypeOK, PairOrNone
<1>1. /\ issued' = n /\ session' = [session EXCEPT ![n] = n] /\ kept' = [kept EXCEPT ![n] = n]
      /\ alive' = alive \cup {n} /\ store' = [access |-> n, refresh |-> n]
      /\ LoadPage(t, "app", Checking(Empty))
      /\ UNCHANGED <<fixed, upsets, grace, expired>>
    BY <1>0 DEF SignIn
<1>2. issued \in Pair /\ n \in Pair /\ n # 0 /\ \A m \in Pair : m <= issued <=> m < n
    BY <1>0, BoundAssumption DEF SignIn, Inv, Rest, IssuedNumbers, Pair
<1>3. /\ session' \in [Pair -> PairOrNone] /\ session'[n] = n
      /\ kept' \in [Pair -> PairOrNone] /\ kept'[n] = n
      /\ \A m \in Pair : m # n => session'[m] = session[m] /\ kept'[m] = kept[m]
    BY <1>1, <1>2, Values DEF Inv, TypeOK
<1>4. /\ Checking(Empty) \in [Call -> CallState]
      /\ \A c \in Call : Checking(Empty)[c].at \notin {"leading", "queued"}
    BY CheckingType, Values
<1>5. /\ page' \in [Tab -> {"login", "checking", "app"}]
      /\ call' \in [Tab -> [Call -> CallState]] /\ refresh' \in [Tab -> RefreshState]
      /\ leaving' \in [Tab -> LeavingState] /\ exchange' \in [Exchange -> ExchangeState]
      /\ waived' \subseteq Pair /\ waived \subseteq waived' /\ NoCallStranded'
      /\ \A u \in Tab : leaving'[u] = leaving[u] \/ leaving'[u].jti = 0
      /\ \A e \in Exchange :
            \/ exchange'[e] = exchange[e]
            \/ /\ exchange'[e] = [exchange[e] EXCEPT !.tab = NoTab]
               /\ exchange[e].at # "free" /\ Of(e) \in waived'
    BY <1>1, <1>4, LoadPageEffect
<1>6. TypeOK'
    BY <1>1, <1>2, <1>3, <1>5, Values DEF Inv, TypeOK, fixed
<1>7. \A e \in Exchange :
          /\ exchange'[e].at = exchange[e].at /\ exchange'[e].jti = exchange[e].jti
          /\ exchange'[e].token = exchange[e].token /\ exchange'[e].tab \in {NoTab, exchange[e].tab}
          /\ exchange'[e] = exchange[e] \/ (exchange[e].at # "free" /\ Of(e) \in waived')
          /\ Fresh(e)' = Fresh(e)
    <2> SUFFICES ASSUME NEW e \in Exchange
                 PROVE  /\ exchange'[e].at = exchange[e].at /\ exchange'[e].jti = exchange[e].jti
                        /\ exchange'[e].token = exchange[e].token /\ exchange'[e].tab \in {NoTab, exchange[e].tab}
                        /\ exchange'[e] = exchange[e] \/ (exchange[e].at # "free" /\ Of(e) \in waived')
                        /\ Fresh(e)' = Fresh(e)
        OBVIOUS
    <2>1. exchange[e] \in ExchangeState
        BY DEF Inv, TypeOK
    <2>2. QED BY <1>5, <2>1 DEF ExchangeState, Fresh
<1>8. \A e \in Exchange : exchange[e].at # "free" =>
          /\ exchange[e].jti \in Pair /\ exchange[e].jti <= issued /\ exchange[e].jti # n
          /\ Of(e)' = Of(e) /\ Of(e) \in Pair /\ Of(e) # n /\ Of(e) <= issued
    <2>1. \A e \in Exchange : exchange[e].at # "free" =>
              /\ exchange[e].jti \in Pair /\ exchange[e].jti <= issued
              /\ Of(e) \in Pair /\ Of(e) <= issued
        BY SessionsTaken DEF Inv, Rest, ExchangeNumbers, IssuedNumbers, Of
    <2>2. \A m \in Pair : m <= issued => m # n
        BY <1>2 DEF Pair
    <2>3. QED BY <1>3, <1>7, <2>1, <2>2 DEF Of
<1>9. \A m \in Pair : kept[m] # 0 =>
          kept[m] \in Pair /\ kept[m] <= issued /\ kept[m] # n /\ m <= issued /\ m # n /\ session[kept[m]] = session[m]
    <2>1. \A m \in Pair : kept[m] # 0 =>
              kept[m] \in Pair /\ kept[m] <= issued /\ m <= issued /\ session[kept[m]] = session[m]
        BY Values DEF Inv, Rest, IssuedNumbers, TypeOK
    <2>2. QED BY <1>2, <2>1 DEF Pair
<1>10. \A e \in Exchange : exchange[e].at \in {"read", "renewed", "granted"} =>
          /\ exchange[e].token \in Pair /\ exchange[e].token <= issued /\ exchange[e].token # n
          /\ session[exchange[e].token] = Of(e)
    BY <1>2, BoundAssumption DEF Inv, Rest, ExchangeNumbers, Pair
<1>11. \A m \in Pair : m # n => session[m] # n
    BY <1>2 DEF Inv, Rest, IssuedNumbers, Pair
<1>12. IssuedNumbers'
    <2>1. \A m \in Pair : m > n => session'[m] = 0
        BY <1>2, <1>3 DEF Inv, Rest, IssuedNumbers, Pair
    <2>2. \A m \in Pair : m <= n => session'[m] \in 1..n
        BY <1>2, <1>3 DEF Inv, Rest, IssuedNumbers, Pair
    <2>3. \A m \in Pair : kept'[m] # 0 => m <= n /\ kept'[m] <= n /\ session'[kept'[m]] = session'[m]
        <3> SUFFICES ASSUME NEW m \in Pair, kept'[m] # 0
                     PROVE  m <= n /\ kept'[m] <= n /\ session'[kept'[m]] = session'[m]
            OBVIOUS
        <3>1. CASE m = n
            BY <1>2, <1>3, <3>1 DEF Pair
        <3>2. CASE m # n
            BY <1>2, <1>3, <1>9, <3>2 DEF Pair
        <3>3. QED BY <3>1, <3>2
    <2>4. \A m \in grace : m <= n
        BY <1>2 DEF Inv, Rest, IssuedNumbers, Pair, TypeOK
    <2>5. QED BY <1>1, <1>2, <2>1, <2>2, <2>3, <2>4 DEF IssuedNumbers
<1>13. LeavingWaived'
    <2>1. \A u \in Tab : leaving[u].jti # 0 => leaving[u].jti \in Pair
        BY Values DEF Inv, TypeOK, LeavingState
    <2>2. \A u \in Tab : leaving[u].jti # 0 =>
              leaving[u].jti <= n /\ session'[leaving[u].jti] \in waived'
        <3>1. ASSUME NEW u \in Tab, leaving[u].jti # 0
              PROVE  leaving[u].jti <= issued /\ session[leaving[u].jti] \in waived
            BY <3>1 DEF Inv, Rest, LeavingWaived
        <3>2. \A j \in Pair : j <= issued => j <= n /\ session'[j] = session[j]
            BY <1>2, <1>3 DEF Pair
        <3>3. QED BY <1>5, <2>1, <3>1, <3>2
    <2>3. QED BY <1>1, <1>5, <2>2 DEF LeavingWaived
<1>14. ExchangeNumbers'
    <2> SUFFICES ASSUME NEW e \in Exchange
                 PROVE  /\ exchange'[e].at = "free" => exchange'[e] = Free
                        /\ exchange'[e].at # "free" => exchange'[e].jti \in 1..n
                        /\ exchange'[e].at \in {"read", "renewed", "granted"} =>
                              exchange'[e].token \in 1..n /\ session'[exchange'[e].token] = Of(e)'
        BY <1>1 DEF ExchangeNumbers
    <2>1. exchange'[e].at = "free" => exchange'[e] = Free
        BY <1>7 DEF Inv, Rest, ExchangeNumbers
    <2>2. exchange'[e].at # "free" => exchange'[e].jti \in 1..n
        BY <1>2, <1>7, <1>8 DEF Pair
    <2>3. exchange'[e].at \in {"read", "renewed", "granted"} => exchange'[e].token \in 1..n
        BY <1>2, <1>7, <1>10 DEF Pair
    <2>4. exchange'[e].at \in {"read", "renewed", "granted"} => session'[exchange'[e].token] = Of(e)'
        BY <1>3, <1>7, <1>8, <1>10
    <2>5. QED BY <2>1, <2>2, <2>3, <2>4
<1>15. OneExchange'
    BY <1>1, <1>7 DEF Inv, Rest, OneExchange, fixed
<1>16. FreshTokens'
    <2>1. \A e \in Exchange : Fresh(e) => exchange[e].token # n
        BY <1>10 DEF Fresh
    <2>2. QED BY <1>1, <1>7, <2>1 DEF Inv, Rest, FreshTokens
<1>17. ExchangesLive'
    <2> SUFFICES ASSUME NEW e \in Exchange, exchange'[e].at # "free", Live(Of(e))' PROVE ExchangeLive(e)'
        BY DEF ExchangesLive
    <2>1. exchange[e].at # "free" /\ Live(Of(e)) /\ exchange'[e] = exchange[e]
        BY <1>1, <1>5, <1>7, <1>8 DEF Live, fixed
    <2>2. ExchangeLive(e)
        BY <2>1 DEF Inv, Rest, ExchangesLive
    <2>3. \A m \in Pair : m # n /\ Newest(m) => Newest(m)'
        BY <1>3, <1>11 DEF Newest
    <2>4. PICK j \in Pair : j = exchange[e].jti /\ j # n
        BY <1>8, <2>1
    <2>5. exchange[e].at = "asked" => kept'[j] # 0 /\ (rotates => Newest(kept[j])' /\ kept'[j] = kept[j])
        <3> SUFFICES ASSUME exchange[e].at = "asked"
                     PROVE  kept'[j] # 0 /\ (rotates => Newest(kept[j])' /\ kept'[j] = kept[j])
            OBVIOUS
        <3>1. kept'[j] = kept[j] /\ kept[j] # 0 /\ kept[j] \in Pair /\ kept[j] # n
            BY <1>3, <1>9, <2>2, <2>4 DEF ExchangeLive
        <3>2. PICK k \in Pair : k = kept[j] /\ k = kept'[j]
            BY <3>1
        <3>3. rotates => Newest(k)
            BY <2>2, <2>4, <3>2 DEF ExchangeLive
        <3>4. rotates => Newest(k)'
            BY <2>3, <3>1, <3>2, <3>3
        <3>5. QED BY <3>1, <3>2, <3>4 DEF Newest
    <2>6. exchange[e].at \in {"read", "renewed", "granted"} =>
              \E k \in Pair : k = exchange[e].token /\ k # n
        BY <1>10
    <2>7. CASE exchange[e].at \in {"read", "renewed"}
        <3>1. PICK k \in Pair : k = exchange[e].token /\ k # n
            BY <2>6, <2>7
        <3>2. rotates => Newest(k)'
            BY <2>2, <2>3, <2>7, <3>1 DEF ExchangeLive
        <3>3. QED BY <1>1, <2>1, <2>2, <2>7, <3>1, <3>2 DEF ExchangeLive, Newest, fixed
    <2>8. CASE exchange[e].at = "granted"
        <3>1. PICK k \in Pair : k = exchange[e].token /\ k # n
            BY <2>6, <2>8
        <3>2. kept[k] # 0 /\ kept'[k] = kept[k] /\ kept[k] \in Pair /\ kept[k] # n
            BY <1>3, <1>9, <2>2, <2>8, <3>1 DEF ExchangeLive
        <3>3. PICK l \in Pair : l = kept[k] /\ l = kept'[k] /\ l # n
            BY <3>2
        <3>4. rotates => Newest(l)'
            BY <2>2, <2>3, <2>8, <3>1, <3>3 DEF ExchangeLive
        <3>5. QED BY <1>1, <2>1, <2>2, <2>8, <3>1, <3>2, <3>3, <3>4 DEF ExchangeLive, Newest, fixed
    <2>9. CASE exchange[e].at = "asked"
        BY <1>1, <2>1, <2>2, <2>4, <2>5, <2>9 DEF ExchangeLive, Newest, fixed
    <2>10. CASE exchange[e].at \notin {"asked", "read", "renewed", "granted"}
        BY <2>1, <2>2, <2>10 DEF ExchangeLive
    <2>11. QED BY <2>7, <2>8, <2>9, <2>10
<1>18. StoreLive'
    <2>1. store'.refresh = n /\ kept'[n] # 0 /\ kept'[n] = n
        BY <1>1, <1>2, <1>3
    <2>2. \A m \in Pair : session'[m] = session'[n] => m = n
        BY <1>3, <1>11
    <2>3. n \notin grace'
        BY <1>1, <1>2 DEF Inv, Rest, IssuedNumbers, Pair
    <2>4. \A m \in Pair : session'[m] = session'[n] => m <= n
        BY <1>2, <2>2 DEF Pair
    <2>5. QED BY <2>1, <2>3, <2>4 DEF StoreLive, Newest
<1>19. QED BY <1>1, <1>5, <1>6, <1>12, <1>13, <1>14, <1>15, <1>16, <1>17, <1>18 DEF Inv, Rest, fixed

(***************************************************************************)
(* The invariant, and what follows                                         *)
(***************************************************************************)
LEMMA SessionsInit == Init => Inv
<1> SUFFICES ASSUME Init PROVE Inv
    OBVIOUS
<1>1. 1 \in Pair /\ 1 \in PairOrNone
    BY BoundAssumption DEF Pair, PairOrNone
<1>2. /\ store \in [access : PairOrNone, refresh : PairOrNone] /\ store.refresh = 1
      /\ First \in [Pair -> PairOrNone] /\ First[1] = 1 /\ \A n \in Pair : n # 1 => First[n] = 0
    BY <1>1, Values DEF Init, First
<1>3. Checking(store) \in [Call -> CallState] /\ \A c \in Call : Checking(store)[c].at \notin {"leading", "queued"}
    BY <1>2, CheckingType
<1>4. TypeOK
    BY <1>1, <1>2, <1>3, Values, BoundAssumption DEF Init, TypeOK
<1>5. NoCallStranded
    BY <1>3, Values, TabAssumption DEF Init, NoCallStranded, Waiting
<1>6. IssuedNumbers
    BY <1>1, <1>2, <1>4 DEF Init, IssuedNumbers, Pair
<1>7. LeavingWaived /\ ExchangeNumbers /\ OneExchange /\ FreshTokens /\ ExchangesLive
    BY Values DEF Init, LeavingWaived, ExchangeNumbers, OneExchange, FreshTokens, Fresh, ExchangesLive
<1>8. StoreLive
    BY <1>1, <1>2 DEF Init, StoreLive, Newest, Pair
<1>9. QED BY <1>4, <1>5, <1>6, <1>7, <1>8 DEF Inv, Rest, Init

LEMMA SessionsStep == Inv /\ [Next]_vars => Inv'
<1> SUFFICES ASSUME Inv, [Next]_vars PROVE Inv'
    OBVIOUS
<1>1. CASE \E t \in Tab : TabStep(t)
    <2>1. PICK t \in Tab : TabStep(t)
        BY <1>1
    <2>2. CASE \E c \in Call : (c \in DataCall /\ Request(t, c)) \/ Succeed(t, c) \/ CallFails(t, c)
        BY <2>2, CallStepsKeep
    <2>3. CASE \E c \in Call : Unauthorized(t, c)
        BY <2>3, UnauthorizedKeeps
    <2>4. CASE Open(t) \/ SignIn(t) \/ SignOut(t) \/ Leave(t)
        BY <2>4, OpenKeeps, SignInKeeps, SignOutKeeps, LeaveKeeps
    <2>5. CASE Reuse(t) \/ NothingStored(t) \/ \E e \in Exchange : Ask(t, e)
        BY <2>5, ReuseKeeps, NothingStoredKeeps, AskKeeps
    <2>6. QED BY <2>1, <2>2, <2>3, <2>4, <2>5 DEF TabStep, Call
<1>2. CASE \E e \in Exchange : ExchangeStep(e)
    <2>1. PICK e \in Exchange : ExchangeStep(e)
        BY <1>2
    <2>2. QED BY <2>1, DeliverKeeps, HangUpKeeps, ReadKeeps, RenewKeeps, RejectKeeps, UnavailableKeeps,
                 KeepKeeps, VanishKeeps DEF ExchangeStep
<1>3. CASE \E n \in Pair : GraceExpires(n)
    BY <1>3, GraceExpiresKeeps
<1>4. CASE (\E n \in Pair : AccessExpires(n) \/ SessionEnds(n)) \/ UNCHANGED vars
    BY <1>4, TimeKeeps
<1>5. QED BY <1>1, <1>2, <1>3, <1>4 DEF Next

LEMMA SessionsInvariant == Spec => []Inv
BY SessionsInit, SessionsStep, PTL DEF Spec

\* The tabs, the tokens and what the server keeps of them stay of their shape,
\* whatever the number of tabs, calls and tokens.
THEOREM SessionsTypeCorrect == Spec => []TypeOK
<1>1. Inv => TypeOK
    BY DEF Inv
<1>2. QED BY <1>1, SessionsInvariant, PTL

\* No call of a page waits for a refresh that is not under way (isRefreshing
\* and failedQueue in api.js), however many tabs there are.
THEOREM CallsAnswered == Spec => []NoCallStranded
<1>1. Inv => NoCallStranded
    BY DEF Inv
<1>2. QED BY <1>1, SessionsInvariant, PTL

\* If the realm does not rotate its refresh tokens or the browser has Web
\* Locks, a refresh token is refused only when its session is over, the user
\* left it or an answer to its refresh was lost (the grace of
\* retire_kc_refresh, the lock of refreshTokens in api.js).
THEOREM SessionsOutliveRaces == Spec => []RefusedIsOver
<1>1. Inv => RefusedIsOver
    BY DEF Inv, Rest, ExchangesLive, ExchangeLive, RefusedIsOver, SecondTabSucceeds,
           Live, Of
<1>2. QED BY <1>1, SessionsInvariant, PTL
=============================================================================

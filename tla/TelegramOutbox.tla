--------------------------- MODULE TelegramOutbox ---------------------------
(***************************************************************************)
(* Telegram delivery of inbox items: the outbox kept in                    *)
(* inbox_items.telegram_status, the Celery task queued with each notice,   *)
(* the sweep that beat starts every minute, and the reactions whose        *)
(* notices wait out an undo window.                                        *)
(*                                                                         *)
(* A request writes its notices and queues their tasks before it commits:  *)
(* until then the rows are drafts that only it sees, and rows it rewrites  *)
(* stay locked.  A task runs in three steps, each in a session of its own: *)
(* is the notice still wanted, send, record.  The sweep loads rows, sends  *)
(* them one by one, and writes every outcome in one commit.  Time is one   *)
(* bit per row: whether telegram_next_retry_at has passed.                 *)
(***************************************************************************)
EXTENDS FiniteSets, Naturals

CONSTANTS
    User,         \* possible recipients
    Author,       \* who wrote the one comment people react to
    Mentioned,    \* who else hears of a reaction, in the inbox only
    Watchers,     \* recipients of a plain event
    Wants,        \* whose relation to the item the matrix switches on
    Actor,        \* who reacts
    NoActor,
    Request,      \* concurrent HTTP requests
    NoRequest,
    Sweeper,      \* workers that may run the sweep
    BrokerFails,  \* whether queueing a task can fail
    RequestFails, \* whether a request can die before its last commit
    CheckFails,   \* whether a task's look at its notice can fail
    MaxEvent,     \* bound on fan-outs
    MaxChoice,    \* bound on emoji picked; an emoji is the number of its pick
    MaxReaction,  \* bound on comment_reactions.id
    MaxToken,     \* bound on rewrites of one notice
    MaxAbort      \* bound on sweeps cut short

ASSUME PeopleAssumption ==
    /\ Author \in User
    /\ Mentioned \subseteq User
    /\ Watchers \subseteq User
    /\ Wants \subseteq User
ASSUME NullAssumption ==
    /\ NoRequest \notin Request
    /\ NoActor \notin Actor
ASSUME BoundAssumption ==
    /\ BrokerFails \in BOOLEAN
    /\ RequestFails \in BOOLEAN
    /\ CheckFails \in BOOLEAN
    /\ MaxEvent \in Nat
    /\ MaxChoice \in Nat
    /\ MaxReaction \in Nat
    /\ MaxToken \in Nat
    /\ MaxAbort \in Nat

Notice == (1..MaxEvent) \X User    \* an inbox item: one recipient of one fan-out

Choice == 0..MaxChoice      \* 0: no emoji

Waiting == {"pending", "failed"}
\* "none" is the null telegram_status; "absent" was never committed, "deleted" was.
Status == Waiting \cup {"sent", "skipped", "none", "absent", "deleted"}

Row == [status : Status, actor : Actor \cup {NoActor}, read : BOOLEAN, due : BOOLEAN,
        token : 0..MaxToken, emoji : Choice, reaction : 0..MaxReaction]

Reaction == [row : 0..MaxReaction, emoji : Choice]

RequestState == [pc : {"idle", "reacted", "flushed"}, actor : Actor \cup {NoActor},
                 emoji : Choice, reaction : 0..MaxReaction]

Idle == [pc |-> "idle", actor |-> NoActor, emoji |-> 0, reaction |-> 0]

NoRow == [status |-> "absent", actor |-> NoActor, read |-> FALSE, due |-> FALSE,
          token |-> 0, emoji |-> 0, reaction |-> 0]

Task == [notice : Notice, token : 0..MaxToken, emoji : Choice,
         phase : {"queued", "wanted", "delivered", "refused"}]

SweepState == [left : SUBSET Notice, took : SUBSET Notice, seen : [Notice -> Row],
               users : SUBSET User, sent : SUBSET Notice, failed : SUBSET Notice]

Asleep == [left |-> {}, took |-> {}, seen |-> [n \in Notice |-> NoRow], users |-> {},
           sent |-> {}, failed |-> {}]

VARIABLES
    rows,         \* inbox_items, as committed
    lastEvent,    \* fan-outs so far
    lastToken,    \* send tokens drawn for each notice so far
    draft,        \* the uncommitted version of a row some request holds
    holder,       \* the request that holds each row
    request,      \* what each request still has to do
    reaction,     \* comment_reactions of the comment, per actor; row 0 for none
    lastChoice,   \* emoji picked so far
    lastReaction, \* comment_reactions.id given so far
    tasks,        \* queued and running send_telegram_notification tasks
    sweep,        \* per sweeper: rows to do, rows as loaded, outcomes so far
    linked,       \* users with an active TelegramIntegration
    heard,        \* the messages Telegram delivered, as <<notice, emoji>>
    aborts        \* sweeps cut short so far

requestVars == <<lastEvent, lastToken, draft, holder, request>>
reactionVars == <<reaction, lastChoice, lastReaction>>
sweepVars == <<sweep, aborts>>
vars == <<rows, requestVars, reactionVars, tasks, sweepVars, linked, heard>>

Exists(n) == rows[n].status \notin {"absent", "deleted"}
Free(n) == holder[n] = NoRequest

\* A notice is obsolete once the reaction row it tells of is gone; w is the
\* inbox item as the caller has loaded it.
StillValid(w) == w.reaction = 0 \/ \E a \in Actor : reaction[a].row = w.reaction

\* The undelivered notices of actor a that nobody has read in the app.
Undelivered(a) == {n \in Notice : /\ Exists(n)
                                  /\ rows[n].reaction # 0
                                  /\ rows[n].actor = a
                                  /\ ~rows[n].read
                                  /\ rows[n].status # "sent"}

-----------------------------------------------------------------------------
(***************************************************************************)
(* Requests                                                                *)
(***************************************************************************)

(***************************************************************************)
(* New rows of request q for the recipients rs.  The dispatch loop tries   *)
(* Telegram for the linked ones among `wanting`; when the broker refuses a *)
(* task the exception ends the loop, so only those `reached` before it     *)
(* have a status, the refused one included.                                *)
(***************************************************************************)
FanOut(q, rs, wanting, w) ==
    /\ lastEvent < MaxEvent
    /\ lastEvent' = lastEvent + 1
    /\ \E reached \in SUBSET rs, refused \in SUBSET (rs \cap wanting \cap linked) :
          /\ refused \subseteq reached
          /\ Cardinality(refused) <= IF BrokerFails THEN 1 ELSE 0
          /\ refused = {} => reached = rs
          /\ draft' = [n \in Notice |->
                IF n[1] = lastEvent' /\ n[2] \in rs
                THEN [w EXCEPT !.status =
                          IF n[2] \notin linked \cap reached THEN "none"
                          ELSE IF n[2] \in wanting THEN "pending" ELSE "skipped"]
                ELSE draft[n]]
          /\ tasks' = tasks \cup
                {[notice |-> <<lastEvent', u>>, token |-> 0, emoji |-> w.emoji,
                  phase |-> "queued"] : u \in (reached \cap wanting \cap linked) \ refused}
    /\ holder' = [n \in Notice |-> IF n[1] = lastEvent' /\ n[2] \in rs
                                   THEN q ELSE holder[n]]

\* A plain event: its watchers, dispatched at once.
Notify(q) ==
    /\ request[q].pc = "idle"
    /\ FanOut(q, Watchers, Wants, [NoRow EXCEPT !.due = TRUE])
    /\ request' = [request EXCEPT ![q].pc = "flushed"]
    /\ UNCHANGED <<rows, lastToken, reactionVars, sweepVars, linked, heard>>

\* Mutant: a swap inserts a second reaction row.
ReactInserts(q, a) ==
    /\ request[q].pc = "idle"
    /\ lastChoice < MaxChoice
    /\ lastChoice' = lastChoice + 1
    /\ lastReaction' = lastReaction + 1
    /\ reaction' = [reaction EXCEPT ![a] = [row |-> lastReaction', emoji |-> lastChoice']]
    /\ request' = [request EXCEPT ![q] = [pc |-> "reacted", actor |-> a,
                                          emoji |-> lastChoice', reaction |-> lastReaction']]
    /\ UNCHANGED <<rows, lastEvent, lastToken, draft, holder, tasks, sweepVars, linked, heard>>

\* POST reactions, first half: the upsert of another emoji commits.  A swap
\* keeps the row.
React(q, a) ==
    /\ request[q].pc = "idle"
    /\ lastChoice < MaxChoice
    /\ reaction[a].row = 0 => lastReaction < MaxReaction
    /\ LET e == lastChoice + 1
           id == IF reaction[a].row = 0 THEN lastReaction + 1 ELSE reaction[a].row IN
          /\ lastChoice' = e
          /\ reaction' = [reaction EXCEPT ![a] = [row |-> id, emoji |-> e]]
          /\ lastReaction' = IF reaction[a].row = 0 THEN id ELSE lastReaction
          /\ request' = [request EXCEPT ![q] =
                            [pc |-> "reacted", actor |-> a, emoji |-> e, reaction |-> id]]
    /\ UNCHANGED <<rows, lastEvent, lastToken, draft, holder, tasks, sweepVars, linked, heard>>

\* Second half, when the actor has an undelivered notice: rewrite it in place
\* under a fresh token, restart its clock and queue the new send.
Rewrite(q) ==
    LET r == request[q]
        old == Undelivered(r.actor)
        again == {n \in old : rows[n].status = "pending"}
        token(n) == lastToken[n] + 1 IN
    /\ r.pc = "reacted"
    /\ old # {}
    /\ \A n \in old : Free(n) /\ lastToken[n] < MaxToken
    /\ lastToken' = [n \in Notice |-> IF n \in old THEN token(n) ELSE lastToken[n]]
    /\ draft' = [n \in Notice |->
          IF n \in old
          THEN [rows[n] EXCEPT !.emoji = r.emoji, !.reaction = r.reaction,
                               !.token = token(n), !.due = IF n \in again THEN FALSE ELSE @]
          ELSE draft[n]]
    /\ holder' = [n \in Notice |-> IF n \in old THEN q ELSE holder[n]]
    /\ \E queued \in SUBSET {n \in again : n[2] \in linked} :
          /\ ~BrokerFails => queued = {n \in again : n[2] \in linked}
          /\ tasks' = tasks \cup {[notice |-> n, token |-> token(n), emoji |-> r.emoji,
                                   phase |-> "queued"] : n \in queued}
    /\ request' = [request EXCEPT ![q].pc = "flushed"]
    /\ UNCHANGED <<rows, lastEvent, reactionVars, sweepVars, linked, heard>>

\* Otherwise a new notice, except for recipients with an unread one.
Announce(q) ==
    LET r == request[q]
        suppressed == {u \in User : \E n \in Notice : /\ Exists(n)
                                                      /\ n[2] = u
                                                      /\ rows[n].reaction # 0
                                                      /\ ~rows[n].read} IN
    /\ r.pc = "reacted"
    /\ Undelivered(r.actor) = {}
    /\ FanOut(q, ({Author} \cup Mentioned) \ (suppressed \cup {r.actor}), {Author},
              [NoRow EXCEPT !.actor = r.actor, !.emoji = r.emoji, !.reaction = r.reaction])
    /\ request' = [request EXCEPT ![q].pc = "flushed"]
    /\ UNCHANGED <<rows, lastToken, reactionVars, sweepVars, linked, heard>>

\* DELETE reactions: the reaction and its undelivered notices go together.
Retract(a) ==
    /\ reaction[a].row # 0
    /\ \A n \in Undelivered(a) : Free(n)
    /\ reaction' = [reaction EXCEPT ![a] = [row |-> 0, emoji |-> 0]]
    /\ rows' = [n \in Notice |-> IF n \in Undelivered(a)
                                 THEN [rows[n] EXCEPT !.status = "deleted"] ELSE rows[n]]
    /\ UNCHANGED <<requestVars, lastChoice, lastReaction, tasks, sweepVars, linked, heard>>

\* The request's commit publishes its drafts; a rollback forgets them, but the
\* tasks it queued stay queued.
Closed(q) ==
    /\ holder' = [n \in Notice |-> IF holder[n] = q THEN NoRequest ELSE holder[n]]
    /\ draft' = [n \in Notice |-> IF holder[n] = q THEN NoRow ELSE draft[n]]
    /\ request' = [request EXCEPT ![q] = Idle]

Commit(q) ==
    /\ request[q].pc = "flushed"
    /\ rows' = [n \in Notice |-> IF holder[n] = q THEN draft[n] ELSE rows[n]]
    /\ Closed(q)
    /\ UNCHANGED <<lastEvent, lastToken, reactionVars, tasks, sweepVars, linked, heard>>

Rollback(q) ==
    /\ RequestFails
    /\ request[q].pc # "idle"
    /\ Closed(q)
    /\ UNCHANGED <<rows, lastEvent, lastToken, reactionVars, tasks, sweepVars, linked, heard>>

\* POST inbox read: only the in-app mark changes.  Nothing looks at the mark of
\* a plain notice.
MarkRead(n) ==
    /\ Exists(n) /\ Free(n) /\ ~rows[n].read /\ rows[n].reaction # 0
    /\ rows' = [rows EXCEPT ![n].read = TRUE]
    /\ UNCHANGED <<requestVars, reactionVars, tasks, sweepVars, linked, heard>>

\* The bot's /integration with a fresh connect token, and its /disconnect.
Link(u) ==
    /\ u \notin linked
    /\ linked' = linked \cup {u}
    /\ UNCHANGED <<rows, requestVars, reactionVars, tasks, sweepVars, heard>>

Unlink(u) ==
    /\ u \in linked
    /\ linked' = linked \ {u}
    /\ UNCHANGED <<rows, requestVars, reactionVars, tasks, sweepVars, heard>>

\* telegram_next_retry_at passes.
ClockElapses(n) ==
    /\ rows[n].status \in Waiting /\ ~rows[n].due
    /\ rows' = [rows EXCEPT ![n].due = TRUE]
    /\ UNCHANGED <<requestVars, reactionVars, tasks, sweepVars, linked, heard>>

-----------------------------------------------------------------------------
(***************************************************************************)
(* The task queued with a notice                                           *)
(***************************************************************************)

\* _should_still_send: no for a row that is not there (yet), delivered or
\* rewritten since; a notice without its reaction is marked skipped.  A check
\* that raises lets the message out.
Current(t) == /\ Exists(t.notice)
              /\ rows[t.notice].status # "sent"
              /\ rows[t.notice].token = t.token

\* Mutant: the task sends without asking whether the row is there.
ValidateBlind(t) ==
    /\ t.phase = "queued"
    /\ tasks' = (tasks \ {t}) \cup {[t EXCEPT !.phase = "wanted"]}
    /\ UNCHANGED <<rows, requestVars, reactionVars, sweepVars, linked, heard>>

Validate(t) ==
    /\ t.phase = "queued"
    /\ Current(t) /\ rows[t.notice].status = "pending" => rows[t.notice].due
    /\ \E failing \in {FALSE, CheckFails} :
          IF failing \/ (Current(t) /\ StillValid(rows[t.notice]))
          THEN /\ tasks' = (tasks \ {t}) \cup {[t EXCEPT !.phase = "wanted"]}
               /\ UNCHANGED rows
          ELSE /\ tasks' = tasks \ {t}
               /\ IF Current(t)
                  THEN /\ Free(t.notice)
                       /\ rows' = [rows EXCEPT ![t.notice].status = "skipped"]
                  ELSE UNCHANGED rows
    /\ UNCHANGED <<requestVars, reactionVars, sweepVars, linked, heard>>

Send(t) ==
    /\ t.phase = "wanted"
    /\ \/ /\ heard' = heard \cup {<<t.notice, t.emoji>>}
          /\ tasks' = (tasks \ {t}) \cup {[t EXCEPT !.phase = "delivered"]}
       \/ /\ tasks' = (tasks \ {t}) \cup {[t EXCEPT !.phase = "refused"]}
          /\ UNCHANGED heard
    /\ UNCHANGED <<rows, requestVars, reactionVars, sweepVars, linked>>

\* Mutant: any answer of Telegram counts as delivered.
RecordSent(t) ==
    /\ t.phase \in {"delivered", "refused"}
    /\ IF Exists(t.notice) /\ rows[t.notice].status # "sent"
       THEN Free(t.notice) /\ rows' = [rows EXCEPT ![t.notice].status = "sent"]
       ELSE UNCHANGED rows
    /\ tasks' = tasks \ {t}
    /\ UNCHANGED <<requestVars, reactionVars, sweepVars, linked, heard>>

Record(t) ==
    /\ t.phase \in {"delivered", "refused"}
    /\ IF Exists(t.notice) /\ rows[t.notice].status # "sent"
       THEN /\ Free(t.notice)
            /\ rows' = IF t.phase = "delivered"
                       THEN [rows EXCEPT ![t.notice].status = "sent"]
                       ELSE [rows EXCEPT ![t.notice].status = "failed",
                                         ![t.notice].due = FALSE]
       ELSE UNCHANGED rows
    /\ tasks' = tasks \ {t}
    /\ UNCHANGED <<requestVars, reactionVars, sweepVars, linked, heard>>

\* acks_late: a task whose worker died runs again from the start; a blip of
\* Redis, or of the database while it records, loses it.
Redeliver(t) ==
    /\ t.phase # "queued"
    /\ tasks' = (tasks \ {t}) \cup {[t EXCEPT !.phase = "queued"]}
    /\ UNCHANGED <<rows, requestVars, reactionVars, sweepVars, linked, heard>>

Lose(t) ==
    /\ tasks' = tasks \ {t}
    /\ UNCHANGED <<rows, requestVars, reactionVars, sweepVars, linked, heard>>

-----------------------------------------------------------------------------
(***************************************************************************)
(* The sweep                                                               *)
(***************************************************************************)
\* Mutant: the sweep takes pending rows only, so a failed one is never retried.
SweepablePending(n) == rows[n].status = "pending" /\ rows[n].due
Sweepable(n) == rows[n].status \in Waiting /\ rows[n].due

SweepStart(s) ==
    /\ sweep[s].took = {}
    /\ \E n \in Notice : Sweepable(n)
    /\ sweep' = [sweep EXCEPT ![s] =
          [left |-> {n \in Notice : Sweepable(n)}, took |-> {n \in Notice : Sweepable(n)},
           seen |-> [n \in Notice |-> IF Sweepable(n) THEN rows[n] ELSE NoRow],
           users |-> linked, sent |-> {}, failed |-> {}]]
    /\ UNCHANGED <<rows, requestVars, reactionVars, tasks, linked, heard, aborts>>

\* Whoever has no account any more, or whose notice lost its reaction, is
\* skipped; the others are sent what the row said when it was loaded.
SweepSkip(s, n) ==
    /\ n \in sweep[s].left
    /\ n[2] \notin sweep[s].users \/ ~StillValid(sweep[s].seen[n])
    /\ sweep' = [sweep EXCEPT ![s].left = @ \ {n}]
    /\ UNCHANGED <<rows, requestVars, reactionVars, tasks, linked, heard, aborts>>

SweepSend(s, n, ok) ==
    /\ n \in sweep[s].left
    /\ n[2] \in sweep[s].users /\ StillValid(sweep[s].seen[n])
    /\ IF ok
       THEN /\ heard' = heard \cup {<<n, sweep[s].seen[n].emoji>>}
            /\ sweep' = [sweep EXCEPT ![s].left = @ \ {n}, ![s].sent = @ \cup {n}]
       ELSE /\ sweep' = [sweep EXCEPT ![s].left = @ \ {n}, ![s].failed = @ \cup {n}]
            /\ UNCHANGED heard
    /\ UNCHANGED <<rows, requestVars, reactionVars, tasks, linked, aborts>>

\* One commit for all outcomes.  A row deleted meanwhile fails the whole flush
\* (an UPDATE that matches no row), and every outcome is lost with it.  The
\* UPDATE leaves out a status that is what it was when loaded.
Outcome(s, n) ==
    IF n \in sweep[s].sent THEN [rows[n] EXCEPT !.status = "sent"]
    ELSE IF n \in sweep[s].failed
    THEN [rows[n] EXCEPT !.due = FALSE,
                         !.status = IF sweep[s].seen[n].status = "failed" THEN @ ELSE "failed"]
    ELSE [rows[n] EXCEPT !.status = "skipped"]

SweepCommit(s) ==
    /\ sweep[s].took # {} /\ sweep[s].left = {}
    /\ \A n \in sweep[s].took : Free(n)
    /\ rows' = IF \A n \in sweep[s].took : Exists(n)
               THEN [n \in Notice |->
                        IF n \in sweep[s].took THEN Outcome(s, n) ELSE rows[n]]
               ELSE rows
    /\ sweep' = [sweep EXCEPT ![s] = Asleep]
    /\ UNCHANGED <<requestVars, reactionVars, tasks, linked, heard, aborts>>

\* Killed, or past its time limit, before the commit.
SweepAbort(s) ==
    /\ sweep[s].took # {}
    /\ aborts < MaxAbort
    /\ aborts' = aborts + 1
    /\ sweep' = [sweep EXCEPT ![s] = Asleep]
    /\ UNCHANGED <<rows, requestVars, reactionVars, tasks, linked, heard>>

-----------------------------------------------------------------------------
Init ==
    /\ rows = [n \in Notice |-> NoRow]
    /\ draft = [n \in Notice |-> NoRow]
    /\ holder = [n \in Notice |-> NoRequest]
    /\ lastEvent = 0
    /\ lastToken = [n \in Notice |-> 0]
    /\ request = [q \in Request |-> Idle]
    /\ reaction = [a \in Actor |-> [row |-> 0, emoji |-> 0]]
    /\ lastChoice = 0
    /\ lastReaction = 0
    /\ tasks = {}
    /\ sweep = [s \in Sweeper |-> Asleep]
    /\ linked = User
    /\ heard = {}
    /\ aborts = 0

RequestStep(q) ==
    \/ Notify(q)
    \/ \E a \in Actor : React(q, a)
    \/ Rewrite(q)
    \/ Announce(q)
    \/ Commit(q)
    \/ Rollback(q)

TaskStep(t) == Validate(t) \/ Send(t) \/ Record(t) \/ Redeliver(t) \/ Lose(t)

SweepStep(s) ==
    \/ SweepStart(s)
    \/ \E n \in Notice : SweepSkip(s, n) \/ \E ok \in BOOLEAN : SweepSend(s, n, ok)
    \/ SweepCommit(s)
    \/ SweepAbort(s)

Next ==
    \/ \E q \in Request : RequestStep(q)
    \/ \E a \in Actor : Retract(a)
    \/ \E n \in Notice : MarkRead(n) \/ ClockElapses(n)
    \/ \E u \in User : Link(u) \/ Unlink(u)
    \/ \E t \in tasks : TaskStep(t)
    \/ \E s \in Sweeper : SweepStep(s)

(***************************************************************************)
(* Requests end, timers pass, and beat keeps starting sweeps that run      *)
(* through; Telegram answers again and again, and a commit that waits for  *)
(* row locks gets them in its turn.  Nothing is assumed of the queued      *)
(* tasks: the broker may lose every one of them.                           *)
(***************************************************************************)
Fairness ==
    /\ \A q \in Request : WF_vars(Commit(q) \/ Rollback(q))
    /\ \A n \in Notice : WF_vars(ClockElapses(n))
    /\ WF_vars(\E s \in Sweeper : SweepStart(s))
    /\ \A s \in Sweeper :
          /\ SF_vars(SweepCommit(s))
          /\ \A n \in Notice :
                /\ WF_vars(SweepSkip(s, n) \/ \E ok \in BOOLEAN : SweepSend(s, n, ok))
                /\ SF_vars(SweepSend(s, n, TRUE))

Spec == Init /\ [][Next]_vars /\ Fairness

-----------------------------------------------------------------------------
TypeOK ==
    /\ rows \in [Notice -> Row]
    /\ draft \in [Notice -> Row]
    /\ holder \in [Notice -> Request \cup {NoRequest}]
    /\ lastEvent \in 0..MaxEvent
    /\ lastToken \in [Notice -> 0..MaxToken]
    /\ request \in [Request -> RequestState]
    /\ reaction \in [Actor -> Reaction]
    /\ lastChoice \in Choice
    /\ lastReaction \in 0..MaxReaction
    /\ tasks \subseteq Task
    /\ sweep \in [Sweeper -> SweepState]
    /\ linked \subseteq User
    /\ heard \subseteq Notice \X Choice
    /\ aborts \in 0..MaxAbort

Heard(n) == \E e \in Choice : <<n, e>> \in heard

\* A row says sent only when Telegram did deliver a message for it, whatever
\* dies, is retried or overlaps (notifications.py: "_update_inbox_item").
SentWasHeard == \A n \in Notice : rows[n].status = "sent" => Heard(n)

\* No message goes out for a notice whose request rolled back or has not
\* committed, although its task is queued before the commit: the task's look at
\* the row comes first, as long as it works.
OnlyCommittedHeard ==
    ~CheckFails => \A n \in Notice : Heard(n) => rows[n].status # "absent"

\* A waiting notice is not dropped: it reaches its recipient, unless the
\* account is unlinked or the reaction it tells of is taken back, and even
\* if every queued task is lost.  A sweep that loaded the accounts before the
\* recipient linked one gives the notice up.
WaitingReachesRecipient ==
    \A n \in Notice :
        (/\ rows[n].status \in Waiting
         /\ \A s \in Sweeper : n \in sweep[s].took => n[2] \in sweep[s].users)
        ~> Heard(n) \/ n[2] \notin linked \/ ~StillValid(rows[n]) \/ ~Exists(n)
=============================================================================

------------------------ MODULE TelegramOutboxProofs ------------------------
(***************************************************************************)
(* Safety of the Telegram outbox for every set of users, requests and      *)
(* sweepers and every bound.                                               *)
(***************************************************************************)
EXTENDS TelegramOutbox, TLAPS

LEMMA NoRowType == NoRow \in Row
  BY BoundAssumption DEF NoRow, Row, Status, Waiting, Choice

LEMMA StatusType == ASSUME NEW r \in Row, NEW v \in Status
                    PROVE  [r EXCEPT !.status = v] \in Row
  BY DEF Row

LEMMA DueType == ASSUME NEW r \in Row, NEW d \in BOOLEAN
                 PROVE  [r EXCEPT !.due = d] \in Row
  BY DEF Row

LEMMA FailedType == ASSUME NEW r \in Row, NEW v \in Status
                    PROVE  [r EXCEPT !.due = FALSE, !.status = v] \in Row
  BY DEF Row

LEMMA RowFields == ASSUME NEW r \in Row
                   PROVE  /\ r.status \in Status
                          /\ r.actor \in Actor \cup {NoActor}
                          /\ r.read \in BOOLEAN
                          /\ r.due \in BOOLEAN
                          /\ r.emoji \in Choice
                          /\ r.reaction \in 0..MaxReaction
  BY DEF Row

\* A fan-out's drafts, holders and tasks have their types.
LEMMA FanOutType ==
    ASSUME TypeOK, NEW q \in Request, NEW rs, NEW wanting, NEW w \in Row,
           rs \subseteq User, FanOut(q, rs, wanting, w)
    PROVE  /\ lastEvent' \in 0..MaxEvent
           /\ draft' \in [Notice -> Row]
           /\ holder' \in [Notice -> Request \cup {NoRequest}]
           /\ tasks' \subseteq Task
  <1>1. lastEvent' = lastEvent + 1 /\ lastEvent' \in 1..MaxEvent
    BY BoundAssumption DEF FanOut, TypeOK
  <1>2. holder' \in [Notice -> Request \cup {NoRequest}]
    BY DEF FanOut, TypeOK
  <1>3. PICK reached \in SUBSET rs, refused \in SUBSET (rs \cap wanting \cap linked) :
          /\ draft' = [n \in Notice |->
                IF n[1] = lastEvent' /\ n[2] \in rs
                THEN [w EXCEPT !.status =
                          IF n[2] \notin linked \cap reached THEN "none"
                          ELSE IF n[2] \in wanting THEN "pending" ELSE "skipped"]
                ELSE draft[n]]
          /\ tasks' = tasks \cup
                {[notice |-> <<lastEvent', u>>, token |-> 0, emoji |-> w.emoji,
                  phase |-> "queued"] : u \in (reached \cap wanting \cap linked) \ refused}
    BY DEF FanOut
  <1>4. draft' \in [Notice -> Row]
    <2>1. \A v \in {"none", "pending", "skipped"} : [w EXCEPT !.status = v] \in Row
      BY StatusType DEF Status, Waiting
    <2>2. ASSUME NEW n \in Notice PROVE draft[n] \in Row
      BY DEF TypeOK
    <2>. QED BY <1>3, <2>1, <2>2
  <1>5. tasks' \subseteq Task
    <2>1. ASSUME NEW u \in User
          PROVE  [notice |-> <<lastEvent', u>>, token |-> 0, emoji |-> w.emoji,
                  phase |-> "queued"] \in Task
      <3>1. <<lastEvent', u>> \in Notice
        BY <1>1 DEF Notice
      <3>2. w.emoji \in Choice
        BY RowFields
      <3>. QED BY <3>1, <3>2, BoundAssumption DEF Task
    <2>. QED BY <1>3, <2>1 DEF TypeOK
  <1>. QED BY <1>1, <1>2, <1>4, <1>5

LEMMA TypeNotify == ASSUME TypeOK, NEW q \in Request, Notify(q) PROVE TypeOK'
  <1>1. [NoRow EXCEPT !.due = TRUE] \in Row
    BY NoRowType, DueType
  <1>2. /\ lastEvent' \in 0..MaxEvent
        /\ draft' \in [Notice -> Row]
        /\ holder' \in [Notice -> Request \cup {NoRequest}]
        /\ tasks' \subseteq Task
    BY <1>1, FanOutType, PeopleAssumption DEF Notify
  <1>3. request' \in [Request -> RequestState]
    BY DEF Notify, TypeOK, RequestState
  <1>. QED BY <1>2, <1>3 DEF Notify, TypeOK, reactionVars, sweepVars

LEMMA TypeReact == ASSUME TypeOK, NEW q \in Request, NEW a \in Actor, React(q, a) PROVE TypeOK'
  <1>. DEFINE e == lastChoice + 1
              id == IF reaction[a].row = 0 THEN lastReaction + 1 ELSE reaction[a].row
  <1>1. reaction[a] \in Reaction /\ reaction[a].row \in 0..MaxReaction
    BY DEF TypeOK, Reaction
  <1>2. e \in Choice /\ id \in 0..MaxReaction
    BY <1>1, BoundAssumption DEF React, TypeOK, Choice
  <1>. HIDE DEF e, id
  <1>3. reaction' = [reaction EXCEPT ![a] = [row |-> id, emoji |-> e]]
    BY DEF React, e, id
  <1>4. reaction' \in [Actor -> Reaction]
    BY <1>2, <1>3 DEF TypeOK, Reaction
  <1>5. lastChoice' \in Choice /\ lastReaction' \in 0..MaxReaction
    BY <1>2 DEF React, TypeOK, e, id
  <1>6. request' = [request EXCEPT ![q] = [pc |-> "reacted", actor |-> a, emoji |-> e,
                                          reaction |-> id]]
    BY DEF React, e, id
  <1>7. request' \in [Request -> RequestState]
    BY <1>2, <1>6 DEF TypeOK, RequestState
  <1>. QED BY <1>4, <1>5, <1>7 DEF React, TypeOK, sweepVars

LEMMA TypeRewrite == ASSUME TypeOK, NEW q \in Request, Rewrite(q) PROVE TypeOK'
  <1>. DEFINE r == request[q]
              old == Undelivered(r.actor)
              again == {n \in old : rows[n].status = "pending"}
              token(n) == lastToken[n] + 1
  <1>1. r \in RequestState /\ r.emoji \in Choice /\ r.reaction \in 0..MaxReaction
    BY DEF TypeOK, RequestState
  <1>2. old \subseteq Notice
    BY DEF Undelivered
  <1>3. \A n \in old : token(n) \in 0..MaxToken
    <2>1. \A n \in old : lastToken[n] < MaxToken
      BY DEF Rewrite
    <2>2. \A n \in old : lastToken[n] \in 0..MaxToken
      BY <1>2 DEF TypeOK
    <2>. HIDE DEF old
    <2>. QED BY <2>1, <2>2, BoundAssumption
  <1>. HIDE DEF r, old, token
  <1>4. lastToken' = [n \in Notice |-> IF n \in old THEN token(n) ELSE lastToken[n]]
    BY DEF Rewrite, r, old, token
  <1>5. lastToken' \in [Notice -> 0..MaxToken]
    BY <1>3, <1>4 DEF TypeOK
  <1>6. draft' = [n \in Notice |->
          IF n \in old
          THEN [rows[n] EXCEPT !.emoji = r.emoji, !.reaction = r.reaction,
                               !.token = token(n), !.due = IF n \in again THEN FALSE ELSE @]
          ELSE draft[n]]
    BY DEF Rewrite, r, old, token
  <1>7. ASSUME NEW n \in Notice, n \in old
        PROVE  [rows[n] EXCEPT !.emoji = r.emoji, !.reaction = r.reaction, !.token = token(n),
                               !.due = IF n \in again THEN FALSE ELSE @] \in Row
    <2>1. rows[n] \in Row
      BY DEF TypeOK
    <2>2. (IF n \in again THEN FALSE ELSE rows[n].due) \in BOOLEAN
      BY <2>1, RowFields
    <2>. HIDE DEF again
    <2>. QED BY <1>1, <1>3, <1>7, <2>1, <2>2 DEF Row
  <1>8. draft' \in [Notice -> Row]
    <2>1. \A n \in Notice : draft[n] \in Row
      BY DEF TypeOK
    <2>. HIDE DEF again
    <2>. QED BY <1>6, <1>7, <2>1
  <1>9. holder' \in [Notice -> Request \cup {NoRequest}]
    BY DEF Rewrite, TypeOK
  <1>10. tasks' \subseteq Task
    <2>1. PICK queued \in SUBSET {n \in again : n[2] \in linked} :
            tasks' = tasks \cup {[notice |-> n, token |-> token(n), emoji |-> r.emoji,
                                  phase |-> "queued"] : n \in queued}
      BY DEF Rewrite, r, old, token
    <2>2. ASSUME NEW n \in old
          PROVE  [notice |-> n, token |-> token(n), emoji |-> r.emoji,
                  phase |-> "queued"] \in Task
      BY <1>1, <1>2, <1>3 DEF Task
    <2>. QED BY <2>1, <2>2 DEF TypeOK
  <1>11. request' \in [Request -> RequestState]
    BY DEF Rewrite, TypeOK, RequestState
  <1>. QED BY <1>5, <1>8, <1>9, <1>10, <1>11 DEF Rewrite, TypeOK, reactionVars, sweepVars

LEMMA TypeAnnounce == ASSUME TypeOK, NEW q \in Request, Announce(q) PROVE TypeOK'
  <1>. DEFINE r == request[q]
              w == [NoRow EXCEPT !.actor = r.actor, !.emoji = r.emoji, !.reaction = r.reaction]
  <1>1. r \in RequestState
    BY DEF TypeOK
  <1>2. /\ r.actor \in Actor \cup {NoActor}
        /\ r.emoji \in Choice
        /\ r.reaction \in 0..MaxReaction
    BY <1>1 DEF RequestState
  <1>3. w \in Row
    BY <1>2, NoRowType DEF Row
  <1>. HIDE DEF w
  <1>4. \E rs \in SUBSET User : FanOut(q, rs, {Author}, w)
    BY PeopleAssumption DEF Announce, w, r
  <1>5. /\ lastEvent' \in 0..MaxEvent
        /\ draft' \in [Notice -> Row]
        /\ holder' \in [Notice -> Request \cup {NoRequest}]
        /\ tasks' \subseteq Task
    BY <1>3, <1>4, FanOutType
  <1>6. request' \in [Request -> RequestState]
    BY DEF Announce, TypeOK, RequestState
  <1>. QED BY <1>5, <1>6 DEF Announce, TypeOK, reactionVars, sweepVars

LEMMA TypeRetract == ASSUME TypeOK, NEW a \in Actor, Retract(a) PROVE TypeOK'
  <1>1. \A n \in Notice : rows[n] \in Row /\ [rows[n] EXCEPT !.status = "deleted"] \in Row
    BY StatusType DEF TypeOK, Status
  <1>2. rows' \in [Notice -> Row]
    BY <1>1 DEF Retract
  <1>3. reaction' \in [Actor -> Reaction]
    BY BoundAssumption DEF Retract, TypeOK, Reaction, Choice
  <1>. QED BY <1>2, <1>3 DEF Retract, TypeOK, requestVars, sweepVars

LEMMA ClosedType ==
    ASSUME TypeOK, NEW q \in Request, Closed(q)
    PROVE  /\ draft' \in [Notice -> Row]
           /\ holder' \in [Notice -> Request \cup {NoRequest}]
           /\ request' \in [Request -> RequestState]
  <1>1. Idle \in RequestState
    BY BoundAssumption DEF Idle, RequestState, Choice
  <1>. QED BY <1>1, NoRowType DEF Closed, TypeOK

LEMMA TypeCommit == ASSUME TypeOK, NEW q \in Request, Commit(q) PROVE TypeOK'
  <1>1. rows' \in [Notice -> Row]
    BY DEF Commit, TypeOK
  <1>2. Closed(q)
    BY DEF Commit
  <1>. QED BY <1>1, <1>2, ClosedType DEF Commit, TypeOK, reactionVars, sweepVars

LEMMA TypeRollback == ASSUME TypeOK, NEW q \in Request, Rollback(q) PROVE TypeOK'
  <1>1. Closed(q)
    BY DEF Rollback
  <1>. QED BY <1>1, ClosedType DEF Rollback, TypeOK, reactionVars, sweepVars

\* MarkRead, Link, Unlink and ClockElapses.
LEMMA TypeOutside ==
    ASSUME TypeOK,
           \/ \E n \in Notice : MarkRead(n) \/ ClockElapses(n)
           \/ \E u \in User : Link(u) \/ Unlink(u)
    PROVE  TypeOK'
  <1>1. CASE \E n \in Notice : MarkRead(n)
    <2>1. PICK n \in Notice : MarkRead(n)
      BY <1>1
    <2>2. [rows[n] EXCEPT !.read = TRUE] \in Row
      <3>1. PICK w \in Row : w = rows[n]
        BY DEF TypeOK
      <3>2. [w EXCEPT !.read = TRUE] \in Row
        BY DEF Row
      <3>. QED BY <3>1, <3>2
    <2>3. rows' \in [Notice -> Row]
      BY <2>1, <2>2 DEF MarkRead, TypeOK
    <2>. QED BY <2>1, <2>3 DEF MarkRead, TypeOK, requestVars, reactionVars, sweepVars
  <1>2. CASE \E n \in Notice : ClockElapses(n)
    <2>1. PICK n \in Notice : ClockElapses(n)
      BY <1>2
    <2>2. [rows[n] EXCEPT !.due = TRUE] \in Row
      BY DueType DEF TypeOK
    <2>3. rows' \in [Notice -> Row]
      BY <2>1, <2>2 DEF ClockElapses, TypeOK
    <2>. QED BY <2>1, <2>3 DEF ClockElapses, TypeOK, requestVars, reactionVars, sweepVars
  <1>3. CASE \E u \in User : Link(u) \/ Unlink(u)
    BY <1>3 DEF Link, Unlink, TypeOK, requestVars, reactionVars, sweepVars
  <1>. QED BY <1>1, <1>2, <1>3

\* A task keeps its notice, token and emoji through its phases.
LEMMA PhaseType == ASSUME NEW t \in Task, NEW p \in {"queued", "wanted", "delivered", "refused"}
                   PROVE  [t EXCEPT !.phase = p] \in Task
  BY DEF Task

LEMMA TaskNotice == ASSUME NEW t \in Task
                    PROVE  t.notice \in Notice /\ t.emoji \in Choice
  BY DEF Task

\* What a step of a task can do to the committed rows.
LEMMA TaskRows ==
    ASSUME TypeOK, NEW t \in tasks, TaskStep(t)
    PROVE  \/ rows' = rows
           \/ \E v \in {"skipped", "sent"} : rows' = [rows EXCEPT ![t.notice].status = v]
           \/ rows' = [rows EXCEPT ![t.notice].status = "failed", ![t.notice].due = FALSE]
  <1>1. CASE Validate(t)
    BY <1>1 DEF Validate
  <1>2. CASE Record(t)
    BY <1>2 DEF Record
  <1>3. CASE Send(t) \/ Redeliver(t) \/ Lose(t)
    BY <1>3 DEF Send, Redeliver, Lose
  <1>. QED BY <1>1, <1>2, <1>3 DEF TaskStep

LEMMA TypeTask == ASSUME TypeOK, NEW t \in tasks, TaskStep(t) PROVE TypeOK'
  <1>1. t \in Task /\ t.notice \in Notice /\ t.emoji \in Choice
    BY TaskNotice DEF TypeOK
  <1>2. rows' \in [Notice -> Row]
    <2>0. rows[t.notice] \in Row
      BY <1>1 DEF TypeOK
    <2>1. \A v \in Status : [rows[t.notice] EXCEPT !.status = v] \in Row
      BY <2>0, StatusType
    <2>2. [rows[t.notice] EXCEPT !.status = "failed", !.due = FALSE] \in Row
      BY <2>0 DEF Row, Status, Waiting
    <2>3. CASE rows' = rows
      BY <2>3 DEF TypeOK
    <2>4. CASE \E v \in {"skipped", "sent"} : rows' = [rows EXCEPT ![t.notice].status = v]
      <3>1. PICK v \in {"skipped", "sent"} : rows' = [rows EXCEPT ![t.notice].status = v]
        BY <2>4
      <3>2. v \in Status
        BY DEF Status
      <3>3. [rows[t.notice] EXCEPT !.status = v] \in Row
        BY <2>1, <3>2
      <3>. QED BY <3>1, <3>3 DEF TypeOK
    <2>5. CASE rows' = [rows EXCEPT ![t.notice].status = "failed", ![t.notice].due = FALSE]
      <3>1. rows' = [rows EXCEPT ![t.notice] = [rows[t.notice] EXCEPT !.status = "failed",
                                                                      !.due = FALSE]]
        BY <1>1, <2>5 DEF TypeOK
      <3>. QED BY <3>1, <2>2 DEF TypeOK
    <2>. QED BY <2>3, <2>4, <2>5, TaskRows
  <1>3. ASSUME NEW p \in {"queued", "wanted", "delivered", "refused"}
        PROVE  (tasks \ {t}) \cup {[t EXCEPT !.phase = p]} \subseteq Task
    BY <1>1, PhaseType DEF TypeOK
  <1>4. CASE Validate(t)
    <2>1. tasks' \subseteq Task
      BY <1>3, <1>4 DEF Validate, TypeOK
    <2>. QED BY <1>2, <1>4, <2>1 DEF Validate, TypeOK, requestVars, reactionVars, sweepVars
  <1>5. CASE Send(t)
    <2>1. tasks' \subseteq Task
      BY <1>3, <1>5 DEF Send
    <2>2. heard' \subseteq Notice \X Choice
      BY <1>1, <1>5 DEF Send, TypeOK
    <2>. QED BY <1>2, <1>5, <2>1, <2>2 DEF Send, TypeOK, requestVars, reactionVars, sweepVars
  <1>6. CASE Record(t)
    BY <1>2, <1>6 DEF Record, TypeOK, requestVars, reactionVars, sweepVars
  <1>7. CASE Redeliver(t)
    <2>1. tasks' \subseteq Task
      BY <1>3, <1>7 DEF Redeliver
    <2>. QED BY <1>2, <1>7, <2>1 DEF Redeliver, TypeOK, requestVars, reactionVars, sweepVars
  <1>8. CASE Lose(t)
    BY <1>2, <1>8 DEF Lose, TypeOK, requestVars, reactionVars, sweepVars
  <1>. QED BY <1>4, <1>5, <1>6, <1>7, <1>8 DEF TaskStep

LEMMA TypeSweep == ASSUME TypeOK, NEW s \in Sweeper, SweepStep(s) PROVE TypeOK'
  <1>1. /\ sweep[s] \in SweepState
        /\ sweep[s].seen \in [Notice -> Row]
        /\ sweep[s].sent \subseteq Notice
        /\ sweep[s].failed \subseteq Notice
        /\ sweep[s].took \subseteq Notice
        /\ sweep[s].left \subseteq Notice
    BY DEF TypeOK, SweepState
  <1>2. Asleep \in SweepState
    BY NoRowType DEF Asleep, SweepState
  <1>3. CASE SweepStart(s)
    <2>1. sweep' \in [Sweeper -> SweepState]
      <3>. DEFINE new == [left |-> {n \in Notice : Sweepable(n)},
                          took |-> {n \in Notice : Sweepable(n)},
                          seen |-> [n \in Notice |-> IF Sweepable(n) THEN rows[n] ELSE NoRow],
                          users |-> linked, sent |-> {}, failed |-> {}]
      <3>1. new \in SweepState
        BY NoRowType DEF TypeOK, SweepState
      <3>2. sweep' = [sweep EXCEPT ![s] = new]
        BY <1>3 DEF SweepStart
      <3>. HIDE DEF new
      <3>. QED BY <3>1, <3>2 DEF TypeOK
    <2>. QED BY <1>3, <2>1 DEF SweepStart, TypeOK, requestVars, reactionVars
  <1>4. ASSUME NEW n \in Notice, SweepSkip(s, n) PROVE TypeOK'
    <2>1. sweep' \in [Sweeper -> SweepState]
      BY <1>1, <1>4 DEF SweepSkip, TypeOK, SweepState
    <2>. QED BY <1>4, <2>1 DEF SweepSkip, TypeOK, requestVars, reactionVars
  <1>5. ASSUME NEW n \in Notice, NEW ok \in BOOLEAN, SweepSend(s, n, ok) PROVE TypeOK'
    <2>1. CASE ok
      <3>1. sweep' = [sweep EXCEPT ![s].left = @ \ {n}, ![s].sent = @ \cup {n}]
        BY <1>5, <2>1 DEF SweepSend
      <3>2. sweep' \in [Sweeper -> SweepState]
        BY <1>1, <3>1 DEF TypeOK, SweepState
      <3>3. sweep[s].seen[n].emoji \in Choice
        BY <1>1, RowFields
      <3>4. heard' \subseteq Notice \X Choice
        BY <1>5, <2>1, <3>3 DEF SweepSend, TypeOK
      <3>. QED BY <1>5, <3>2, <3>4 DEF SweepSend, TypeOK, requestVars, reactionVars
    <2>2. CASE ~ok
      <3>1. sweep' = [sweep EXCEPT ![s].left = @ \ {n}, ![s].failed = @ \cup {n}]
        BY <1>5, <2>2 DEF SweepSend
      <3>2. sweep' \in [Sweeper -> SweepState]
        BY <1>1, <3>1 DEF TypeOK, SweepState
      <3>. QED BY <1>5, <2>2, <3>2 DEF SweepSend, TypeOK, requestVars, reactionVars
    <2>. QED BY <2>1, <2>2
  <1>6. CASE SweepCommit(s)
    <2>1. sweep' \in [Sweeper -> SweepState]
      BY <1>2, <1>6 DEF SweepCommit, TypeOK
    <2>2. ASSUME NEW n \in Notice PROVE Outcome(s, n) \in Row
      <3>1. rows[n] \in Row /\ rows[n].status \in Status
        BY RowFields DEF TypeOK
      <3>2. \A v \in Status : [rows[n] EXCEPT !.due = FALSE, !.status = v] \in Row
        BY <3>1, FailedType
      <3>3. \A v \in Status : [rows[n] EXCEPT !.status = v] \in Row
        BY <3>1, StatusType
      <3>4. {"sent", "failed", "skipped"} \subseteq Status
        BY DEF Status, Waiting
      <3>. QED BY <3>1, <3>2, <3>3, <3>4 DEF Outcome
    <2>3. rows' \in [Notice -> Row]
      BY <1>6, <2>2 DEF SweepCommit, TypeOK
    <2>. QED BY <1>6, <2>1, <2>3 DEF SweepCommit, TypeOK, requestVars, reactionVars
  <1>7. CASE SweepAbort(s)
    <2>1. sweep' \in [Sweeper -> SweepState]
      BY <1>2, <1>7 DEF SweepAbort, TypeOK
    <2>2. aborts' \in 0..MaxAbort
      BY <1>7, BoundAssumption DEF SweepAbort, TypeOK
    <2>. QED BY <1>7, <2>1, <2>2 DEF SweepAbort, TypeOK, requestVars, reactionVars
  <1>. QED BY <1>3, <1>4, <1>5, <1>6, <1>7 DEF SweepStep

LEMMA TypeInit == Init => TypeOK
  <1>. SUFFICES ASSUME Init PROVE TypeOK
    OBVIOUS
  <1>1. Asleep \in SweepState
    BY NoRowType DEF Asleep, SweepState
  <1>2. Idle \in RequestState
    BY BoundAssumption DEF Idle, RequestState, Choice
  <1>. QED BY <1>1, <1>2, NoRowType, BoundAssumption DEF Init, TypeOK, Reaction, Choice

LEMMA TypeStep == TypeOK /\ [Next]_vars => TypeOK'
  <1>. SUFFICES ASSUME TypeOK, [Next]_vars PROVE TypeOK'
    OBVIOUS
  <1>1. ASSUME NEW q \in Request, RequestStep(q) PROVE TypeOK'
    BY <1>1, TypeNotify, TypeReact, TypeRewrite, TypeAnnounce, TypeCommit, TypeRollback
       DEF RequestStep
  <1>2. ASSUME NEW a \in Actor, Retract(a) PROVE TypeOK'
    BY <1>2, TypeRetract
  <1>3. CASE \/ \E n \in Notice : MarkRead(n) \/ ClockElapses(n)
             \/ \E u \in User : Link(u) \/ Unlink(u)
    BY <1>3, TypeOutside
  <1>4. ASSUME NEW t \in tasks, TaskStep(t) PROVE TypeOK'
    BY <1>4, TypeTask
  <1>5. ASSUME NEW s \in Sweeper, SweepStep(s) PROVE TypeOK'
    BY <1>5, TypeSweep
  <1>6. CASE UNCHANGED vars
    BY <1>6 DEF vars, requestVars, reactionVars, sweepVars, TypeOK
  <1>. QED BY <1>1, <1>2, <1>3, <1>4, <1>5, <1>6 DEF Next

\* Type correctness of the outbox: rows, drafts, tasks, sweeps and reactions
\* stay within their records (inbox_items, comment_reactions).
THEOREM TypeCorrect == Spec => []TypeOK
  BY TypeInit, TypeStep, PTL DEF Spec

-----------------------------------------------------------------------------
(***************************************************************************)
(* Sent and committed.  A draft is a live notice nobody was sent; tasks    *)
(* and sweeps that claim a delivery were heard, and those past their look  *)
(* at a row concern a committed one.                                       *)
(***************************************************************************)
LiveDrafts == \A n \in Notice : holder[n] # NoRequest => draft[n].status \notin {"absent", "sent"}
TasksHeard == \A t \in tasks : t.phase = "delivered" => Heard(t.notice)
SweepsHeard == \A s \in Sweeper : \A n \in sweep[s].sent : Heard(n)
TasksCommitted == ~CheckFails => \A t \in tasks : t.phase # "queued" => rows[t.notice].status # "absent"
SweepsCommitted == \A s \in Sweeper : \A n \in sweep[s].left : rows[n].status # "absent"

DeliveryInv == /\ TypeOK
               /\ SentWasHeard
               /\ OnlyCommittedHeard
               /\ LiveDrafts
               /\ TasksHeard
               /\ SweepsHeard
               /\ TasksCommitted
               /\ SweepsCommitted

\* A message once delivered stays delivered.
LEMMA HeardGrows == ASSUME [Next]_vars PROVE heard \subseteq heard'
  <1>1. ASSUME NEW q \in Request, RequestStep(q) PROVE heard' = heard
    BY <1>1 DEF RequestStep, Notify, React, Rewrite, Announce, Commit, Rollback
  <1>2. ASSUME NEW t \in tasks, TaskStep(t) PROVE heard \subseteq heard'
    BY <1>2 DEF TaskStep, Validate, Send, Record, Redeliver, Lose
  <1>3. ASSUME NEW s \in Sweeper, SweepStep(s) PROVE heard \subseteq heard'
    BY <1>3 DEF SweepStep, SweepStart, SweepSkip, SweepSend, SweepCommit, SweepAbort
  <1>. QED BY <1>1, <1>2, <1>3
           DEF Next, Retract, MarkRead, ClockElapses, Link, Unlink, vars

LEMMA HeardStays == ASSUME [Next]_vars, NEW n, Heard(n) PROVE Heard(n)'
  BY HeardGrows DEF Heard

\* Everything that can happen to the committed status of a notice.
Becomes(n) ==
    \/ rows'[n].status = rows[n].status
    \/ rows'[n].status \in {"skipped", "failed", "deleted"} /\ rows[n].status # "absent"
    \/ rows'[n].status = "sent" /\ rows[n].status # "absent" /\ Heard(n)
    \/ holder[n] # NoRequest /\ rows'[n].status = draft[n].status

\* Writing one field of a row leaves the others.
LEMMA WriteStatus ==
    ASSUME TypeOK, NEW n \in Notice, NEW k \in Notice, NEW v,
           rows' = [rows EXCEPT ![k].status = v]
    PROVE  rows'[n].status = IF n = k THEN v ELSE rows[n].status
  <1>1. rows[k] \in Row
    BY DEF TypeOK
  <1>2. [rows[k] EXCEPT !.status = v].status = v
    BY <1>1 DEF Row
  <1>. QED BY <1>2 DEF TypeOK

LEMMA WriteFailed ==
    ASSUME TypeOK, NEW n \in Notice, NEW k \in Notice,
           rows' = [rows EXCEPT ![k].status = "failed", ![k].due = FALSE]
    PROVE  rows'[n].status = IF n = k THEN "failed" ELSE rows[n].status
  <1>1. rows[k] \in Row
    BY DEF TypeOK
  <1>2. [[rows[k] EXCEPT !.status = "failed"] EXCEPT !.due = FALSE].status = "failed"
    BY <1>1 DEF Row
  <1>3. rows' = [rows EXCEPT ![k] = [[rows[k] EXCEPT !.status = "failed"] EXCEPT !.due = FALSE]]
    BY DEF TypeOK
  <1>. QED BY <1>2, <1>3 DEF TypeOK

LEMMA RequestBecomes ==
    ASSUME TypeOK, NEW q \in Request, RequestStep(q), NEW n \in Notice PROVE Becomes(n)
  <1>1. CASE Commit(q)
    <2>1. rows'[n] = IF holder[n] = q THEN draft[n] ELSE rows[n]
      BY <1>1 DEF Commit
    <2>. QED BY <2>1, NullAssumption DEF Becomes
  <1>2. CASE ~Commit(q)
    <2>1. rows' = rows
      BY <1>2 DEF RequestStep, Notify, React, Rewrite, Announce, Rollback
    <2>. QED BY <2>1 DEF Becomes
  <1>. QED BY <1>1, <1>2

LEMMA OutsideBecomes ==
    ASSUME TypeOK, NEW n \in Notice,
           \/ \E a \in Actor : Retract(a)
           \/ \E k \in Notice : MarkRead(k) \/ ClockElapses(k)
           \/ \E u \in User : Link(u) \/ Unlink(u)
    PROVE  Becomes(n)
  <1>1. rows[n] \in Row
    BY DEF TypeOK
  <1>2. ASSUME NEW a \in Actor, Retract(a) PROVE Becomes(n)
    <2>1. CASE n \in Undelivered(a)
      <3>1. rows'[n] = [rows[n] EXCEPT !.status = "deleted"]
        BY <1>2, <2>1 DEF Retract
      <3>2. rows'[n].status = "deleted"
        BY <1>1, <3>1 DEF Row
      <3>3. rows[n].status # "absent"
        BY <2>1 DEF Undelivered, Exists
      <3>. QED BY <3>2, <3>3 DEF Becomes
    <2>2. CASE n \notin Undelivered(a)
      BY <1>2, <2>2 DEF Retract, Becomes
    <2>. QED BY <2>1, <2>2
  <1>3. ASSUME NEW k \in Notice, MarkRead(k) PROVE Becomes(n)
    <2>1. rows' = [rows EXCEPT ![k].read = TRUE]
      BY <1>3 DEF MarkRead
    <2>2. [rows[n] EXCEPT !.read = TRUE].status = rows[n].status
      BY <1>1 DEF Row
    <2>3. rows'[n].status = rows[n].status
      BY <2>1, <2>2 DEF TypeOK
    <2>. QED BY <2>3 DEF Becomes
  <1>4. ASSUME NEW k \in Notice, ClockElapses(k) PROVE Becomes(n)
    <2>1. rows' = [rows EXCEPT ![k].due = TRUE]
      BY <1>4 DEF ClockElapses
    <2>2. [rows[n] EXCEPT !.due = TRUE].status = rows[n].status
      BY <1>1 DEF Row
    <2>3. rows'[n].status = rows[n].status
      BY <2>1, <2>2 DEF TypeOK
    <2>. QED BY <2>3 DEF Becomes
  <1>5. ASSUME NEW u \in User, Link(u) \/ Unlink(u) PROVE Becomes(n)
    BY <1>5 DEF Link, Unlink, Becomes
  <1>. QED BY <1>2, <1>3, <1>4, <1>5

LEMMA TaskBecomes ==
    ASSUME TypeOK, TasksHeard, NEW t \in tasks, TaskStep(t), NEW n \in Notice PROVE Becomes(n)
  <1>1. t.notice \in Notice
    BY TaskNotice DEF TypeOK
  <1>2. CASE rows' = rows
    BY <1>2 DEF Becomes
  <1>3. CASE Validate(t) /\ rows' # rows
    <2>1. Current(t) /\ rows' = [rows EXCEPT ![t.notice].status = "skipped"]
      BY <1>3 DEF Validate
    <2>2. rows'[n].status = IF n = t.notice THEN "skipped" ELSE rows[n].status
      BY <1>1, <2>1, WriteStatus
    <2>. QED BY <2>1, <2>2 DEF Becomes, Current, Exists
  <1>4. CASE Record(t) /\ rows' # rows
    <2>1. Exists(t.notice)
      BY <1>4 DEF Record
    <2>2. CASE t.phase = "delivered"
      <3>1. rows' = [rows EXCEPT ![t.notice].status = "sent"]
        BY <1>4, <2>2 DEF Record
      <3>2. rows'[n].status = IF n = t.notice THEN "sent" ELSE rows[n].status
        BY <1>1, <3>1, WriteStatus
      <3>. QED BY <2>1, <2>2, <3>2 DEF TasksHeard, Becomes, Exists
    <2>3. CASE t.phase # "delivered"
      <3>1. rows' = [rows EXCEPT ![t.notice].status = "failed", ![t.notice].due = FALSE]
        BY <1>4, <2>3 DEF Record
      <3>2. rows'[n].status = IF n = t.notice THEN "failed" ELSE rows[n].status
        BY <1>1, <3>1, WriteFailed
      <3>. QED BY <2>1, <3>2 DEF Becomes, Exists
    <2>. QED BY <2>2, <2>3
  <1>5. CASE Send(t) \/ Redeliver(t) \/ Lose(t)
    BY <1>2, <1>5 DEF Send, Redeliver, Lose
  <1>. QED BY <1>2, <1>3, <1>4, <1>5 DEF TaskStep

LEMMA SweepBecomes ==
    ASSUME TypeOK, SweepsHeard, NEW s \in Sweeper, SweepStep(s), NEW n \in Notice PROVE Becomes(n)
  <1>1. CASE rows' = rows
    BY <1>1 DEF Becomes
  <1>2. CASE SweepCommit(s) /\ rows' # rows
    <2>1. /\ \A k \in sweep[s].took : Exists(k)
          /\ rows'[n] = IF n \in sweep[s].took THEN Outcome(s, n) ELSE rows[n]
      BY <1>2 DEF SweepCommit
    <2>2. CASE n \in sweep[s].took
      <3>1. rows[n] \in Row /\ rows[n].status # "absent"
        BY <2>1, <2>2 DEF TypeOK, Exists
      <3>2. CASE n \in sweep[s].sent
        <4>1. rows'[n] = [rows[n] EXCEPT !.status = "sent"]
          BY <2>1, <2>2, <3>2 DEF Outcome
        <4>2. rows'[n].status = "sent"
          BY <3>1, <4>1 DEF Row
        <4>. QED BY <3>1, <3>2, <4>2 DEF SweepsHeard, Becomes
      <3>3. CASE n \notin sweep[s].sent /\ n \in sweep[s].failed
        <4>. DEFINE v == IF sweep[s].seen[n].status = "failed" THEN rows[n].status ELSE "failed"
        <4>1. rows'[n] = [rows[n] EXCEPT !.due = FALSE, !.status = v]
          BY <2>1, <2>2, <3>3 DEF Outcome
        <4>2. v = rows[n].status \/ v = "failed"
          OBVIOUS
        <4>. HIDE DEF v
        <4>3. rows'[n].status = v
          BY <3>1, <4>1 DEF Row
        <4>. QED BY <3>1, <4>2, <4>3 DEF Becomes
      <3>4. CASE n \notin sweep[s].sent /\ n \notin sweep[s].failed
        <4>1. rows'[n] = [rows[n] EXCEPT !.status = "skipped"]
          BY <2>1, <2>2, <3>4 DEF Outcome
        <4>2. rows'[n].status = "skipped"
          BY <3>1, <4>1 DEF Row
        <4>. QED BY <3>1, <4>2 DEF Becomes
      <3>. QED BY <3>2, <3>3, <3>4
    <2>3. CASE n \notin sweep[s].took
      BY <2>1, <2>3 DEF Becomes
    <2>. QED BY <2>2, <2>3
  <1>3. ASSUME ~SweepCommit(s) PROVE rows' = rows
    BY <1>3 DEF SweepStep, SweepStart, SweepSkip, SweepSend, SweepAbort
  <1>. QED BY <1>1, <1>2, <1>3

LEMMA StatusBecomes ==
    ASSUME DeliveryInv, [Next]_vars, NEW n \in Notice PROVE Becomes(n)
  <1>1. CASE UNCHANGED vars
    BY <1>1 DEF vars, Becomes
  <1>. QED BY <1>1, RequestBecomes, OutsideBecomes, TaskBecomes, SweepBecomes
           DEF Next, DeliveryInv

LEMMA SentStep == ASSUME DeliveryInv, [Next]_vars PROVE SentWasHeard'
  <1>. SUFFICES ASSUME NEW n \in Notice, rows'[n].status = "sent" PROVE Heard(n)'
    BY DEF SentWasHeard
  <1>1. Becomes(n)
    BY StatusBecomes
  <1>2. Heard(n)
    BY <1>1 DEF Becomes, DeliveryInv, SentWasHeard, LiveDrafts
  <1>. QED BY <1>2, HeardStays

\* A committed notice never becomes uncommitted.
LEMMA CommittedStays ==
    ASSUME DeliveryInv, [Next]_vars, NEW n \in Notice, rows[n].status # "absent"
    PROVE  rows'[n].status # "absent"
  <1>1. Becomes(n)
    BY StatusBecomes
  <1>. QED BY <1>1 DEF Becomes, DeliveryInv, LiveDrafts

LEMMA DraftStep == ASSUME DeliveryInv, [Next]_vars PROVE LiveDrafts'
  <1>. DEFINE Live(n) == holder'[n] # NoRequest => draft'[n].status \notin {"absent", "sent"}
  <1>0. \A n \in Notice : holder[n] # NoRequest => draft[n].status \notin {"absent", "sent"}
    BY DEF DeliveryInv, LiveDrafts
  <1>1. ASSUME NEW q \in Request, NEW rs, NEW wanting, NEW w \in Row,
               FanOut(q, rs, wanting, w), NEW n \in Notice
        PROVE  Live(n)
    <2>1. CASE n[1] = lastEvent' /\ n[2] \in rs
      <3>1. \E v \in {"none", "pending", "skipped"} : draft'[n] = [w EXCEPT !.status = v]
        BY <1>1, <2>1 DEF FanOut
      <3>2. draft'[n].status \in {"none", "pending", "skipped"}
        BY <3>1 DEF Row
      <3>. QED BY <3>2
    <2>2. CASE ~(n[1] = lastEvent' /\ n[2] \in rs)
      <3>1. draft'[n] = draft[n] /\ holder'[n] = holder[n]
        BY <1>1, <2>2 DEF FanOut
      <3>. QED BY <1>0, <3>1
    <2>. QED BY <2>1, <2>2
  <1>2. ASSUME NEW q \in Request, Notify(q), NEW n \in Notice PROVE Live(n)
    <2>1. [NoRow EXCEPT !.due = TRUE] \in Row
      BY NoRowType, DueType
    <2>2. FanOut(q, Watchers, Wants, [NoRow EXCEPT !.due = TRUE])
      BY <1>2 DEF Notify
    <2>. QED BY <1>1, <2>1, <2>2
  <1>3. ASSUME NEW q \in Request, Announce(q), NEW n \in Notice PROVE Live(n)
    <2>. DEFINE r == request[q]
                w == [NoRow EXCEPT !.actor = r.actor, !.emoji = r.emoji, !.reaction = r.reaction]
    <2>1. r \in RequestState
      BY DEF DeliveryInv, TypeOK
    <2>2. r.actor \in Actor \cup {NoActor} /\ r.emoji \in Choice /\ r.reaction \in 0..MaxReaction
      BY <2>1 DEF RequestState
    <2>3. w \in Row
      BY <2>2, NoRowType DEF Row
    <2>. HIDE DEF w
    <2>4. \E rs \in SUBSET User : FanOut(q, rs, {Author}, w)
      BY <1>3, PeopleAssumption DEF Announce, w, r
    <2>. QED BY <1>1, <2>3, <2>4
  <1>4. ASSUME NEW q \in Request, Rewrite(q), NEW n \in Notice PROVE Live(n)
    <2>. DEFINE a == request[q].actor
    <2>1. rows[n] \in Row
      BY DEF DeliveryInv, TypeOK
    <2>2. CASE n \in Undelivered(a)
      <3>1. \E e, i, t, d : draft'[n] = [rows[n] EXCEPT !.emoji = e, !.reaction = i,
                                                        !.token = t, !.due = d]
        BY <1>4, <2>2 DEF Rewrite
      <3>2. draft'[n].status = rows[n].status
        BY <2>1, <3>1 DEF Row
      <3>3. rows[n].status \notin {"absent", "sent"}
        BY <2>2 DEF Undelivered, Exists
      <3>. QED BY <3>2, <3>3
    <2>3. CASE n \notin Undelivered(a)
      <3>1. draft'[n] = draft[n] /\ holder'[n] = holder[n]
        BY <1>4, <2>3 DEF Rewrite
      <3>. QED BY <1>0, <3>1
    <2>. QED BY <2>2, <2>3
  <1>5. ASSUME NEW q \in Request, Closed(q), NEW n \in Notice PROVE Live(n)
    BY <1>0, <1>5 DEF Closed
  <1>6. ASSUME UNCHANGED <<draft, holder>>, NEW n \in Notice PROVE Live(n)
    BY <1>0, <1>6
  <1>7. ASSUME NEW q \in Request, RequestStep(q), NEW n \in Notice PROVE Live(n)
    <2>1. ASSUME Commit(q) \/ Rollback(q) PROVE Live(n)
      BY <1>5, <2>1 DEF Commit, Rollback
    <2>2. ASSUME NEW a \in Actor, React(q, a) PROVE Live(n)
      BY <1>6, <2>2 DEF React
    <2>. HIDE DEF Live
    <2>. QED BY <1>2, <1>3, <1>4, <1>7, <2>1, <2>2 DEF RequestStep
  <1>8. ASSUME NEW t \in tasks, TaskStep(t) PROVE UNCHANGED <<draft, holder>>
    BY <1>8 DEF TaskStep, Validate, Send, Record, Redeliver, Lose, requestVars
  <1>9. ASSUME NEW s \in Sweeper, SweepStep(s) PROVE UNCHANGED <<draft, holder>>
    BY <1>9 DEF SweepStep, SweepStart, SweepSkip, SweepSend, SweepCommit, SweepAbort, requestVars
  <1>10. \/ \E q \in Request : RequestStep(q)
         \/ UNCHANGED <<draft, holder>>
    BY <1>8, <1>9 DEF Next, Retract, MarkRead, ClockElapses, Link, Unlink, vars, requestVars
  <1>11. \A n \in Notice : Live(n)
    <2>. HIDE DEF Live
    <2>. QED BY <1>6, <1>7, <1>10
  <1>. QED BY <1>11 DEF LiveDrafts

\* How task x came from task t in one step.
Moved(t, x) == \/ /\ x.notice = t.notice /\ t.phase = "queued" /\ x.phase = "wanted"
                  /\ CheckFails \/ Exists(t.notice)
               \/ /\ x.notice = t.notice /\ t.phase = "wanted"
                  /\ x.phase = "refused" \/ (x.phase = "delivered" /\ Heard(t.notice)')

\* A task after a step: one there already, one just queued, or one moved on.
LEMMA TasksBecome ==
    ASSUME TypeOK, [Next]_vars, NEW x \in tasks'
    PROVE  x \in tasks \/ x.phase = "queued" \/ \E t \in tasks : Moved(t, x)
  <1>1. ASSUME NEW t \in Task, NEW p, x = [t EXCEPT !.phase = p]
        PROVE  x.notice = t.notice /\ x.phase = p
    BY <1>1 DEF Task
  <1>2. ASSUME NEW q \in Request, NEW rs, NEW wanting, NEW w, FanOut(q, rs, wanting, w)
        PROVE  x \in tasks \/ x.phase = "queued"
    BY <1>2 DEF FanOut
  <1>3. ASSUME NEW q \in Request, RequestStep(q)
        PROVE  x \in tasks \/ x.phase = "queued"
    <2>1. ASSUME Notify(q) PROVE x \in tasks \/ x.phase = "queued"
      BY <1>2, <2>1 DEF Notify
    <2>2. ASSUME Announce(q) PROVE x \in tasks \/ x.phase = "queued"
      BY <1>2, <2>2 DEF Announce
    <2>3. ASSUME Rewrite(q) PROVE x \in tasks \/ x.phase = "queued"
      <3>. DEFINE r == request[q]
                  token(n) == lastToken[n] + 1
      <3>1. \E queued : tasks' = tasks \cup {[notice |-> n, token |-> token(n), emoji |-> r.emoji,
                                           phase |-> "queued"] : n \in queued}
        BY <2>3 DEF Rewrite
      <3>. HIDE DEF r, token
      <3>. QED BY <3>1
    <2>4. ASSUME (\E a \in Actor : React(q, a)) \/ Commit(q) \/ Rollback(q) PROVE x \in tasks
      BY <2>4 DEF React, Commit, Rollback
    <2>. QED BY <1>3, <2>1, <2>2, <2>3, <2>4 DEF RequestStep
  <1>4. ASSUME NEW t \in tasks, TaskStep(t), x \notin tasks
        PROVE  x.phase = "queued" \/ Moved(t, x)
    <2>0. t \in Task /\ t.emoji \in Choice
      BY TaskNotice DEF TypeOK
    <2>1. CASE Validate(t)
      <3>1. x = [t EXCEPT !.phase = "wanted"] /\ t.phase = "queued"
        BY <1>4, <2>1 DEF Validate
      <3>2. ASSUME ~CheckFails, ~Current(t) PROVE FALSE
        <4>1. \A failing \in {FALSE, CheckFails} : failing = FALSE
          BY <3>2, BoundAssumption
        <4>2. tasks' = tasks \ {t}
          BY <2>1, <3>2, <4>1 DEF Validate
        <4>. QED BY <1>4, <4>2
      <3>3. x.notice = t.notice /\ x.phase = "wanted"
        BY <1>1, <2>0, <3>1
      <3>4. CheckFails \/ Exists(t.notice)
        BY <3>2, BoundAssumption DEF Current
      <3>. QED BY <3>1, <3>3, <3>4 DEF Moved
    <2>2. CASE Send(t)
      <3>1. CASE heard' = heard \cup {<<t.notice, t.emoji>>}
                 /\ tasks' = (tasks \ {t}) \cup {[t EXCEPT !.phase = "delivered"]}
        <4>1. x = [t EXCEPT !.phase = "delivered"]
          BY <1>4, <3>1
        <4>2. Heard(t.notice)'
          BY <2>0, <3>1 DEF Heard
        <4>. QED BY <1>1, <2>0, <2>2, <4>1, <4>2 DEF Send, Moved
      <3>2. CASE tasks' = (tasks \ {t}) \cup {[t EXCEPT !.phase = "refused"]}
        <4>1. x = [t EXCEPT !.phase = "refused"]
          BY <1>4, <3>2
        <4>. QED BY <1>1, <2>0, <2>2, <4>1 DEF Send, Moved
      <3>. QED BY <2>2, <3>1, <3>2 DEF Send
    <2>3. CASE Redeliver(t)
      <3>1. x = [t EXCEPT !.phase = "queued"]
        BY <1>4, <2>3 DEF Redeliver
      <3>. QED BY <1>1, <2>0, <3>1
    <2>4. CASE Record(t) \/ Lose(t)
      BY <1>4, <2>4 DEF Record, Lose
    <2>. QED BY <1>4, <2>1, <2>2, <2>3, <2>4 DEF TaskStep
  <1>5. ASSUME NEW s \in Sweeper, SweepStep(s) PROVE tasks' = tasks
    BY <1>5 DEF SweepStep, SweepStart, SweepSkip, SweepSend, SweepCommit, SweepAbort
  <1>6. \/ \E q \in Request : RequestStep(q)
        \/ \E t \in tasks : TaskStep(t)
        \/ tasks' = tasks
    BY <1>5 DEF Next, Retract, MarkRead, ClockElapses, Link, Unlink, vars
  <1>7. CASE \E q \in Request : RequestStep(q)
    BY <1>3, <1>7
  <1>8. CASE \E t \in tasks : TaskStep(t)
    BY <1>4, <1>8
  <1>. QED BY <1>6, <1>7, <1>8

\* A sweep after a step: nothing new to do but committed rows, and no new
\* delivery that was not heard.
LEMMA SweepsBecome ==
    ASSUME TypeOK, [Next]_vars, NEW s \in Sweeper, NEW n \in Notice
    PROVE  /\ n \in sweep'[s].left => n \in sweep[s].left \/ rows[n].status # "absent"
           /\ n \in sweep'[s].sent => n \in sweep[s].sent \/ Heard(n)'
           /\ sweep'[s].sent \subseteq Notice /\ sweep'[s].left \subseteq Notice
  <1>0. TypeOK'
    BY TypeStep
  <1>1. sweep'[s] \in SweepState /\ sweep[s] \in SweepState
    BY <1>0 DEF TypeOK
  <1>2. sweep'[s].sent \subseteq Notice /\ sweep'[s].left \subseteq Notice
    BY <1>1 DEF SweepState
  <1>. DEFINE Fine == /\ n \in sweep'[s].left => n \in sweep[s].left \/ rows[n].status # "absent"
                      /\ n \in sweep'[s].sent => n \in sweep[s].sent \/ Heard(n)'
  <1>3. ASSUME sweep'[s] = sweep[s] PROVE Fine
    BY <1>3
  <1>4. ASSUME NEW z \in Sweeper, z # s, SweepStep(z) PROVE sweep'[s] = sweep[s]
    BY <1>4 DEF SweepStep, SweepStart, SweepSkip, SweepSend, SweepCommit, SweepAbort, TypeOK
  <1>5. ASSUME SweepStart(s) PROVE Fine
    <2>1. sweep'[s].left = {k \in Notice : Sweepable(k)} /\ sweep'[s].sent = {}
      BY <1>5 DEF SweepStart, TypeOK
    <2>. QED BY <2>1 DEF Sweepable, Waiting
  <1>6. ASSUME NEW k \in Notice, SweepSkip(s, k) PROVE Fine
    <2>1. sweep' = [sweep EXCEPT ![s].left = @ \ {k}]
      BY <1>6 DEF SweepSkip
    <2>2. sweep'[s] = [sweep[s] EXCEPT !.left = @ \ {k}]
      BY <2>1 DEF TypeOK
    <2>3. sweep'[s].left = sweep[s].left \ {k} /\ sweep'[s].sent = sweep[s].sent
      BY <1>1, <2>2 DEF SweepState
    <2>. QED BY <2>3
  <1>7. ASSUME NEW k \in Notice, NEW ok \in BOOLEAN, SweepSend(s, k, ok) PROVE Fine
    <2>1. CASE ok
      <3>1. sweep' = [sweep EXCEPT ![s].left = @ \ {k}, ![s].sent = @ \cup {k}]
        BY <1>7, <2>1 DEF SweepSend
      <3>2. sweep'[s] = [[sweep[s] EXCEPT !.left = @ \ {k}] EXCEPT !.sent = @ \cup {k}]
        BY <3>1 DEF TypeOK
      <3>3. sweep'[s].left = sweep[s].left \ {k} /\ sweep'[s].sent = sweep[s].sent \cup {k}
        BY <1>1, <3>2 DEF SweepState
      <3>4. sweep[s].seen[k].emoji \in Choice
        BY <1>1, RowFields DEF SweepState
      <3>5. Heard(k)'
        BY <1>7, <2>1, <3>4 DEF SweepSend, Heard
      <3>. QED BY <3>3, <3>5
    <2>2. CASE ~ok
      <3>1. sweep' = [sweep EXCEPT ![s].left = @ \ {k}, ![s].failed = @ \cup {k}]
        BY <1>7, <2>2 DEF SweepSend
      <3>2. sweep'[s] = [[sweep[s] EXCEPT !.left = @ \ {k}] EXCEPT !.failed = @ \cup {k}]
        BY <3>1 DEF TypeOK
      <3>3. sweep'[s].left = sweep[s].left \ {k} /\ sweep'[s].sent = sweep[s].sent
        BY <1>1, <3>2 DEF SweepState
      <3>. QED BY <3>3
    <2>. QED BY <2>1, <2>2
  <1>8. ASSUME SweepCommit(s) \/ SweepAbort(s) PROVE Fine
    <2>1. sweep'[s] = Asleep
      BY <1>8 DEF SweepCommit, SweepAbort, TypeOK
    <2>. QED BY <2>1 DEF Asleep
  <1>9. ASSUME NEW q \in Request, RequestStep(q) PROVE sweep' = sweep
    BY <1>9 DEF RequestStep, Notify, React, Rewrite, Announce, Commit, Rollback, sweepVars
  <1>10. ASSUME NEW t \in tasks, TaskStep(t) PROVE sweep' = sweep
    BY <1>10 DEF TaskStep, Validate, Send, Record, Redeliver, Lose, sweepVars
  <1>11. \/ sweep' = sweep
         \/ \E z \in Sweeper : SweepStep(z)
    BY <1>9, <1>10 DEF Next, Retract, MarkRead, ClockElapses, Link, Unlink, vars, sweepVars
  <1>12. Fine
    <2>1. ASSUME SweepStep(s) PROVE Fine
      <3>. HIDE DEF Fine
      <3>. QED BY <1>5, <1>6, <1>7, <1>8, <2>1 DEF SweepStep
    <2>. HIDE DEF Fine
    <2>. QED BY <1>3, <1>4, <1>11, <2>1
  <1>. QED BY <1>2, <1>12

LEMMA DeliveryStep == DeliveryInv /\ [Next]_vars => DeliveryInv'
  <1>. SUFFICES ASSUME DeliveryInv, [Next]_vars PROVE DeliveryInv'
    OBVIOUS
  <1>0. TypeOK /\ TypeOK'
    BY TypeStep DEF DeliveryInv
  <1>1. TasksHeard'
    <2>. SUFFICES ASSUME NEW x \in tasks', x.phase = "delivered" PROVE Heard(x.notice)'
      BY DEF TasksHeard
    <2>1. CASE x \in tasks
      BY <2>1, HeardStays DEF DeliveryInv, TasksHeard
    <2>. QED BY <1>0, <2>1, TasksBecome DEF Moved
  <1>2. SweepsHeard'
    <2>. SUFFICES ASSUME NEW s \in Sweeper, NEW n \in sweep'[s].sent PROVE Heard(n)'
      BY DEF SweepsHeard
    <2>1. n \in Notice
      BY <1>0 DEF TypeOK, SweepState
    <2>2. n \in sweep[s].sent \/ Heard(n)'
      BY <1>0, <2>1, SweepsBecome
    <2>. QED BY <2>2, HeardStays DEF DeliveryInv, SweepsHeard
  <1>3. TasksCommitted'
    <2>. SUFFICES ASSUME ~CheckFails, NEW x \in tasks', x.phase # "queued"
                  PROVE  rows'[x.notice].status # "absent"
      BY DEF TasksCommitted
    <2>1. \A t \in tasks : t.notice \in Notice
      BY <1>0, TaskNotice DEF TypeOK
    <2>2. ASSUME NEW t \in tasks, t.phase # "queued" PROVE rows'[t.notice].status # "absent"
      BY <2>1, <2>2, CommittedStays DEF DeliveryInv, TasksCommitted
    <2>3. ASSUME NEW t \in tasks, Exists(t.notice) PROVE rows'[t.notice].status # "absent"
      BY <2>1, <2>3, CommittedStays DEF Exists
    <2>. QED BY <1>0, <2>2, <2>3, TasksBecome DEF Moved
  <1>4. SweepsCommitted'
    <2>. SUFFICES ASSUME NEW s \in Sweeper, NEW n \in sweep'[s].left
                  PROVE  rows'[n].status # "absent"
      BY DEF SweepsCommitted
    <2>1. n \in Notice
      BY <1>0 DEF TypeOK, SweepState
    <2>2. rows[n].status # "absent"
      BY <1>0, <2>1, SweepsBecome DEF DeliveryInv, SweepsCommitted
    <2>. QED BY <2>1, <2>2, CommittedStays
  <1>5. OnlyCommittedHeard'
    <2>. SUFFICES ASSUME ~CheckFails, NEW n \in Notice, Heard(n)'
                  PROVE  rows'[n].status # "absent"
      BY DEF OnlyCommittedHeard
    <2>1. CASE Heard(n)
      BY <2>1, CommittedStays DEF DeliveryInv, OnlyCommittedHeard
    <2>2. CASE ~Heard(n)
      <3>1. PICK e \in Choice : <<n, e>> \in heard' /\ <<n, e>> \notin heard
        BY <2>2 DEF Heard
      <3>2. ASSUME NEW t \in tasks, TaskStep(t) PROVE rows[n].status # "absent"
        <4>1. Send(t) /\ heard' = heard \cup {<<t.notice, t.emoji>>}
          BY <3>1, <3>2 DEF TaskStep, Validate, Send, Record, Redeliver, Lose
        <4>2. t.phase = "wanted" /\ n = t.notice
          BY <3>1, <4>1 DEF Send
        <4>. QED BY <4>2 DEF DeliveryInv, TasksCommitted
      <3>3. ASSUME NEW s \in Sweeper, SweepStep(s) PROVE rows[n].status # "absent"
        <4>1. PICK k \in Notice, ok \in BOOLEAN : SweepSend(s, k, ok)
          BY <3>1, <3>3 DEF SweepStep, SweepStart, SweepSkip, SweepCommit, SweepAbort
        <4>2. n = k /\ k \in sweep[s].left
          BY <3>1, <4>1 DEF SweepSend
        <4>. QED BY <4>2 DEF DeliveryInv, SweepsCommitted
      <3>4. ASSUME NEW q \in Request, RequestStep(q) PROVE FALSE
        BY <3>1, <3>4 DEF RequestStep, Notify, React, Rewrite, Announce, Commit, Rollback
      <3>5. (\E t \in tasks : TaskStep(t)) \/ \E s \in Sweeper : SweepStep(s)
        BY <3>1, <3>4 DEF Next, Retract, MarkRead, ClockElapses, Link, Unlink, vars
      <3>. QED BY <3>2, <3>3, <3>5, CommittedStays
    <2>. QED BY <2>1, <2>2
  <1>. QED BY <1>0, <1>1, <1>2, <1>3, <1>4, <1>5, SentStep, DraftStep DEF DeliveryInv

LEMMA DeliveryInit == Init => DeliveryInv
  <1>. SUFFICES ASSUME Init PROVE DeliveryInv
    OBVIOUS
  <1>1. NoRow.status = "absent"
    BY DEF NoRow
  <1>2. SweepsHeard /\ SweepsCommitted
    BY DEF Init, SweepsHeard, SweepsCommitted, Asleep
  <1>. QED BY <1>1, <1>2, TypeInit
           DEF Init, DeliveryInv, SentWasHeard, OnlyCommittedHeard, LiveDrafts, TasksHeard,
               TasksCommitted, Heard

\* A row says sent only if Telegram delivered a message for it, for every
\* number of tasks, sweeps and crashes (_update_inbox_item and the flush).
THEOREM SentCorrect == Spec => []SentWasHeard
  <1>1. DeliveryInv => SentWasHeard
    BY DEF DeliveryInv
  <1>. QED BY <1>1, DeliveryInit, DeliveryStep, PTL DEF Spec

\* While the task can look at its notice, nothing is sent for a notice that
\* was never committed (send_telegram_notification, _should_still_send).
THEOREM CommittedCorrect == Spec => []OnlyCommittedHeard
  <1>1. DeliveryInv => OnlyCommittedHeard
    BY DEF DeliveryInv
  <1>. QED BY <1>1, DeliveryInit, DeliveryStep, PTL DEF Spec
=============================================================================

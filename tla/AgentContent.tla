----------------------------- MODULE AgentContent -----------------------------
(***************************************************************************)
(* One bug whose text people edit in the browser and agents edit through   *)
(* MCP tools, concurrently: the last-writer rule of agent_ownership.py.    *)
(*                                                                         *)
(* A piece is what the rule speaks of (the title, a field, the             *)
(* environment, a note); an environment has several columns.  A request    *)
(* loads the item without a lock (Open, OpenNote); rw_update_own then      *)
(* reads the timeline in a later statement (Verdict).  update takes the    *)
(* row lock before it compares and records, so the rest is one step, but   *)
(* it compares with the columns loaded first.  Records are made under that *)
(* lock: the latest by created_at is the latest committed, and only it is  *)
(* kept, per piece.                                                        *)
(*                                                                         *)
(* A text is who wrote it and the number of the edit: no two are equal.    *)
(***************************************************************************)
EXTENDS Naturals

CONSTANTS
    Request,   \* concurrent requests
    User,
    Admin,     \* the users who may edit any note
    Token,     \* MCP tokens, active or not
    OwnerOf,   \* the user of each token
    NoToken,   \* the null via_mcp_token_id: a person in the browser
    Filer,     \* who filed the item
    Author,    \* who wrote the note
    Column,    \* the columns the instance has
    MaxEdit,   \* bound on edits
    Payload    \* the sets of columns one request writes

ASSUME ActorAssumption ==
    /\ Admin \subseteq User
    /\ Filer \in User /\ Author \in User
    /\ OwnerOf \in [Token -> User]
    /\ NoToken \notin Token
ASSUME EditAssumption == MaxEdit \in Nat

ASSUME ColumnAssumption == Column \subseteq {"title", "curl", "os", "browser"}
ASSUME PayloadAssumption == Payload \subseteq SUBSET Column

PieceOf == [c \in Column |-> IF c \in {"os", "browser"} THEN "environment" ELSE c]
Piece == {PieceOf[c] : c \in Column}
Status == {"new", "open", "closed"}

\* The columns rw_fill_field fills and a person may empty; a title is never empty.
Fillable == Column \ {"title"}

Record == [user : User, token : Token \cup {NoToken}, n : 0..MaxEdit]
Text == [by : Record, empty : BOOLEAN]
NoNote == [deleted |-> TRUE]
Note == [text : Record, stamp : Record]

Idle == [pc |-> "idle"]
Loaded == [pc : {"loaded"}, user : User, token : Token \cup {NoToken},
           seen : [Column -> Text], status : Status]
Allowed == [pc : {"allowed"}, user : User, token : Token \cup {NoToken},
            seen : [Column -> Text], payload : Payload]
AtNote == [pc : {"note"}, user : User, token : Token \cup {NoToken}, text : Record]
Call == Loaded \cup Allowed \cup AtNote

VARIABLES
    row,      \* the text columns of the issues row
    status,
    filed,    \* whose edit filed the item
    latest,   \* per piece, its latest record on the timeline
    note,     \* one note: its text and its edit stamp
    edits,    \* edits so far
    call      \* per request: where it is, who sent it through which token, what it
              \* loaded of the item and of the note, the columns it may write

vars == <<row, status, filed, latest, note, edits, call>>

TypeOK ==
    /\ row \in [Column -> Text]
    /\ status \in Status
    /\ filed \in Record
    /\ latest \in [Piece -> Record]
    /\ note \in Note \cup {NoNote}
    /\ edits \in 0..MaxEdit
    /\ call \in [Request -> Call \cup {Idle}]

(***************************************************************************)
(* The last-writer rule                                                    *)
(***************************************************************************)

TokensOf(u) == {t \in Token : OwnerOf[t] = u}

\* Mutation: any agent's record will do.
OwnedByAnAgent(r, u) == r.token # NoToken

\* The record is the user's own, through any of the user's tokens.
Owned(r, u) ==
    /\ r.user = u
    /\ r.token \in TokensOf(u)

\* decide, for a piece of the item in the status the request loaded.
MayUpdate(p, c, r) ==
    /\ Owned(r, c.user)
    /\ IF p = "title"
       THEN filed.token # NoToken /\ c.status = "new"
       ELSE c.status # "closed"

\* edit_comment and delete_comment.
MayTouchNote(u) == u = Author \/ u \in Admin

(***************************************************************************)
(* The writes                                                              *)
(***************************************************************************)
Stamp(q) == [user |-> call[q].user, token |-> call[q].token, n |-> edits + 1]

\* Mutation: the comparison is with the row as it is now.
RecordedNow(q, S, emptied) == {c \in S : ~(c \in emptied /\ row[c].empty)}

\* The columns update records a change of: all but the empty ones emptied again.
Recorded(q, S, emptied) == {c \in S : ~(c \in emptied /\ call[q].seen[c].empty)}

\* What the ORM writes: the columns that differ from the loaded ones.
Written(q, S, emptied) == {c \in S : ~(c \in emptied /\ call[q].seen[c].empty)}

Set(q, c) == call' = [call EXCEPT ![q] = c]
Finish(q) == Set(q, Idle)
Bound == edits < MaxEdit
Edit == Bound /\ edits' = edits + 1

\* IssueService.update with new texts for S, of which some are empty.
Update(q, S, emptied) ==
    /\ Edit
    /\ row' = [c \in Column |->
                  IF c \in Written(q, S, emptied)
                  THEN [by |-> Stamp(q), empty |-> c \in emptied] ELSE row[c]]
    /\ latest' = [p \in Piece |->
                  IF \E c \in Recorded(q, S, emptied) : PieceOf[c] = p
                  THEN Stamp(q) ELSE latest[p]]
    /\ Finish(q)
    /\ UNCHANGED <<status, filed, note>>

(***************************************************************************)
(* The requests                                                            *)
(***************************************************************************)
\* How a request of u comes: from the browser or through one of the tokens.
Via(u) == TokensOf(u) \cup {NoToken}

Content == <<row, status, filed, latest, note, edits>>

\* The route or the tool loads the item.
Open(q, u, t) ==
    /\ call[q] = Idle
    /\ Bound
    /\ t \in Via(u)
    /\ Set(q, [pc |-> "loaded", user |-> u, token |-> t, seen |-> row, status |-> status])
    /\ UNCHANGED Content

\* PATCH in the browser.
Patch(q, S, emptied) ==
    /\ call[q].pc = "loaded"
    /\ call[q].token = NoToken
    /\ S # {}
    /\ emptied \subseteq S \cap Fillable
    /\ Update(q, S, emptied)

\* rw_fill_field: every column given was empty when the item was loaded.
Fill(q, p, S) ==
    /\ call[q].pc = "loaded"
    /\ call[q].token # NoToken
    /\ call[q].status # "closed"
    /\ S # {} /\ S \subseteq Fillable
    /\ \A c \in S : PieceOf[c] = p /\ call[q].seen[c].empty
    /\ Update(q, S, {})

\* rw_update_own: the piece's record is read after the item was loaded.
Verdict(q, p, S) ==
    /\ call[q].pc = "loaded"
    /\ call[q].token # NoToken
    /\ MayUpdate(p, call[q], latest[p])
    /\ S # {} /\ \A c \in S : PieceOf[c] = p
    /\ Set(q, [pc |-> "allowed", user |-> call[q].user, token |-> call[q].token,
               seen |-> call[q].seen, payload |-> S])
    /\ UNCHANGED Content

UpdateOwn(q) ==
    /\ call[q].pc = "allowed"
    /\ Update(q, call[q].payload, {})

\* The note is loaded, and for an agent the verdict is on that very row.
OpenNote(q, u, t) ==
    /\ call[q] = Idle
    /\ Bound
    /\ t \in Via(u)
    /\ note # NoNote
    /\ MayTouchNote(u)
    /\ t # NoToken => Owned(note.stamp, u)
    /\ Set(q, [pc |-> "note", user |-> u, token |-> t, text |-> note.text])
    /\ UNCHANGED Content

\* Mutation: the stamp names the user only.
EditNoteUnstamped(q, same) ==
    /\ call[q].pc = "note"
    /\ note # NoNote
    /\ Edit
    /\ note' = [text |-> IF same THEN note.text ELSE Stamp(q), stamp |-> call[q].user]
    /\ Finish(q)
    /\ UNCHANGED <<row, status, filed, latest>>

\* edit_comment: the stamp is always new; a text equal to the loaded one is not written.
EditNote(q, same) ==
    /\ call[q].pc = "note"
    /\ note # NoNote
    /\ Edit
    /\ note' = [text |-> IF same THEN note.text ELSE Stamp(q), stamp |-> Stamp(q)]
    /\ Finish(q)
    /\ UNCHANGED <<row, status, filed, latest>>

DeleteNote(q) ==
    /\ call[q].pc = "note"
    /\ note' = NoNote
    /\ Finish(q)
    /\ UNCHANGED <<row, status, filed, latest, edits>>

\* A refusal, a note deleted meanwhile, a lost connection.
Abort(q) ==
    /\ call[q] # Idle
    /\ Finish(q)
    /\ UNCHANGED Content

\* A status move: triage, delivery, a return to New.
Move(to) ==
    /\ Bound
    /\ to # status
    /\ status' = to
    /\ UNCHANGED <<row, filed, latest, note, edits, call>>

Init ==
    /\ filed \in {r \in Record : r.n = 0 /\ r.user = Filer /\ r.token \in Via(Filer)}
    /\ row \in {f \in [Column -> {[by |-> filed, empty |-> e] : e \in BOOLEAN}] :
                   "title" \in Column => ~f["title"].empty}
    /\ status = "new"
    /\ latest = [p \in Piece |-> filed]
    /\ note \in {[text |-> r, stamp |-> r] :
                   r \in {x \in Record : x.n = 0 /\ x.user = Author /\ x.token \in Via(Author)}}
    /\ edits = 0
    /\ call = [q \in Request |-> Idle]

Step(q) ==
    \/ \E u \in User, t \in Token \cup {NoToken} : Open(q, u, t) \/ OpenNote(q, u, t)
    \/ \E S \in Payload : \E emptied \in SUBSET S : Patch(q, S, emptied)
    \/ \E p \in Piece, S \in Payload : Fill(q, p, S) \/ Verdict(q, p, S)
    \/ UpdateOwn(q)
    \/ \E same \in BOOLEAN : EditNote(q, same)
    \/ DeleteNote(q)
    \/ Abort(q)

Next == (\E q \in Request : Step(q)) \/ \E to \in Status : Move(to)

Spec == Init /\ [][Next]_vars

(***************************************************************************)
(* What the rule rests on, and what it promises                            *)
(***************************************************************************)

\* However stale the rows the requests compare with, the latest record of a piece
\* names who wrote the newest text among its columns.
RecordNamesWriter ==
    \A p \in Piece : \E c \in Column :
        /\ PieceOf[c] = p
        /\ latest[p] = row[c].by
        /\ \A d \in Column : PieceOf[d] = p => row[d].by.n <= latest[p].n

\* A text the caller's agent did not write.
Foreign(text, q) == text.user # call[q].user \/ text.token = NoToken
AgentActs(q) == call[q] # Idle /\ call[q].token # NoToken /\ call'[q] = Idle

\* An agent replaces or deletes a text of somebody else only if that text was
\* committed while the agent's request was under way, or an agent's later edit of
\* the same piece left it in place.
AgentSparesOthersText ==
    [][\A q \in Request : AgentActs(q) =>
        /\ \A c \in Column :
              row'[c] # row[c] /\ ~row[c].empty /\ Foreign(row[c].by, q) =>
                  row[c] # call[q].seen[c] \/ latest[PieceOf[c]].n > row[c].by.n
        /\ note' # note /\ note # NoNote /\ Foreign(note.text, q) =>
                  note.text # call[q].text \/ note.stamp.n > note.text.n]_vars
===============================================================================

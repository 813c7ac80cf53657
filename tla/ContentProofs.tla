---------------------------- MODULE ContentProofs ----------------------------
(***************************************************************************)
(* Proofs about the content of an item: its text (AgentContent), for any   *)
(* number of requests, users, tokens and edits, and its files (Uploads),   *)
(* for all sets of uploads and calls.                                      *)
(*                                                                         *)
(* The records on the timeline name the writers of the texts, and an agent *)
(* replaces only what it may; an upload is consumed once and never         *)
(* forgotten, an agent's row has its file.                                      *)
(***************************************************************************)
EXTENDS AgentContent, Uploads, TLAPS

Constant == ActorAssumption /\ EditAssumption /\ ColumnAssumption /\ PayloadAssumption

(***************************************************************************)
(* AgentContent: the inductive invariant                                   *)
(***************************************************************************)

\* No edit that is still to come is known anywhere.
Past ==
    /\ \A c \in Column : row[c].by.n <= edits
    /\ \A p \in Piece : latest[p].n <= edits
    /\ note # NoNote => note.text.n <= edits /\ note.stamp.n <= edits
    /\ \A q \in Request : call[q].pc \in {"loaded", "allowed"} =>
          \A c \in Column : call[q].seen[c].by.n <= edits
    /\ \A q \in Request : call[q].pc = "note" => call[q].text.n <= edits

OneWriterPerEdit ==
    \A c, d \in Column : row[c].by.n = row[d].by.n => row[c].by = row[d].by

\* The stamp is as new as the text, and then it is the text's.
NoteStamped ==
    note # NoNote =>
        /\ note.text.n <= note.stamp.n
        /\ note.text.n = note.stamp.n => note.text = note.stamp

\* What a verdict allows: a text still as loaded is the agent's own, or older
\* than the record the verdict was about.
AllowedSpares ==
    \A q \in Request : call[q].pc = "allowed" =>
        \A c \in call[q].payload :
            row[c] = call[q].seen[c] /\ Foreign(row[c].by, q) =>
                latest[PieceOf[c]].n > row[c].by.n

NoteSpares ==
    \A q \in Request :
        call[q].pc = "note" /\ call[q].token # NoToken /\ note # NoNote =>
            (note.text = call[q].text /\ Foreign(note.text, q) =>
                note.stamp.n > note.text.n)

Inv ==
    /\ TypeOK
    /\ Past
    /\ RecordNamesWriter
    /\ OneWriterPerEdit
    /\ NoteStamped
    /\ AllowedSpares
    /\ NoteSpares

(***************************************************************************)
(* Calls and updates                                                       *)
(***************************************************************************)
LEMMA CallKinds ==
    ASSUME TypeOK, NEW q \in Request
    PROVE  /\ call[q].pc \in {"idle", "loaded", "allowed", "note"}
           /\ call[q].pc = "idle" <=> call[q] = Idle
           /\ call[q].pc = "loaded" => call[q] \in Loaded
           /\ call[q].pc = "allowed" => call[q] \in Allowed
           /\ call[q].pc = "note" => call[q] \in AtNote
<1>1. CASE call[q] = Idle
  BY <1>1 DEF Idle
<1>2. CASE call[q] \in Loaded
  BY <1>2 DEF Loaded, Idle
<1>3. CASE call[q] \in Allowed
  BY <1>3 DEF Allowed, Idle
<1>4. CASE call[q] \in AtNote
  BY <1>4 DEF AtNote, Idle
<1> QED
  BY <1>1, <1>2, <1>3, <1>4 DEF TypeOK, Call

\* The pieces of the columns.
LEMMA Pieces == \A c \in Column : PieceOf[c] \in Piece
BY DEF Piece

LEMMA StampTyped ==
    ASSUME Constant, TypeOK, NEW q \in Request, call[q].pc # "idle", Bound
    PROVE  Stamp(q) \in Record /\ Stamp(q).n = edits + 1
           /\ Stamp(q).user = call[q].user /\ Stamp(q).token = call[q].token
<1>1. call[q].user \in User /\ call[q].token \in Token \cup {NoToken}
  <2>1. CASE call[q].pc = "loaded"
    BY <2>1, CallKinds DEF Loaded
  <2>2. CASE call[q].pc = "allowed"
    BY <2>2, CallKinds DEF Allowed
  <2>3. CASE call[q].pc = "note"
    BY <2>3, CallKinds DEF AtNote
  <2> QED
    BY <2>1, <2>2, <2>3, CallKinds
<1>2. edits + 1 \in 0..MaxEdit
  BY DEF Constant, EditAssumption, TypeOK, Bound
<1> QED
  BY <1>1, <1>2 DEF Stamp, Record

\* What one update does: each piece keeps its columns and its record, or gets a
\* column and the record of this edit.
Updated(q) ==
    /\ call[q].pc \in {"loaded", "allowed"}
    /\ Bound /\ edits' = edits + 1
    /\ row' \in [Column -> Text]
    /\ latest' \in [Piece -> Record]
    /\ \A c \in Column : row'[c] = row[c] \/ row'[c].by = Stamp(q)
    /\ \A p \in Piece :
          \/ latest'[p] = latest[p] /\ \A c \in Column : PieceOf[c] = p => row'[c] = row[c]
          \/ latest'[p] = Stamp(q) /\ \E c \in Column : PieceOf[c] = p /\ row'[c].by = Stamp(q)
    /\ call' = [call EXCEPT ![q] = Idle]
    /\ UNCHANGED <<status, filed, note>>

LEMMA UpdateUpdates ==
    ASSUME Constant, TypeOK, NEW q \in Request, NEW S, NEW emptied, S \subseteq Column,
           call[q].pc \in {"loaded", "allowed"}, Update(q, S, emptied)
    PROVE  Updated(q)
<1> DEFINE W == {c \in S : ~(c \in emptied /\ call[q].seen[c].empty)}
<1> DEFINE st == Stamp(q)
<1>1. st \in Record
  BY StampTyped DEF Update, Edit
<1>2. W \subseteq Column
  OBVIOUS
<1>3. /\ row' = [c \in Column |-> IF c \in W THEN [by |-> st, empty |-> c \in emptied] ELSE row[c]]
      /\ latest' = [p \in Piece |-> IF \E c \in W : PieceOf[c] = p THEN st ELSE latest[p]]
  BY DEF Update, Written, Recorded
<1>4. row \in [Column -> Text] /\ latest \in [Piece -> Record]
  BY DEF TypeOK
<1> HIDE DEF W, st
<1>5. row' \in [Column -> Text]
  <2> SUFFICES ASSUME NEW c \in Column
               PROVE  (IF c \in W THEN [by |-> st, empty |-> c \in emptied] ELSE row[c]) \in Text
    BY <1>3
  <2>1. (c \in emptied) \in BOOLEAN
    OBVIOUS
  <2> QED
    BY <2>1, <1>1, <1>4 DEF Text
<1>6. latest' \in [Piece -> Record]
  BY <1>1, <1>3, <1>4
<1>7. \A c \in Column : row'[c] = row[c] \/ row'[c].by = st
  BY <1>3
<1>8. ASSUME NEW p \in Piece
      PROVE  \/ latest'[p] = latest[p] /\ \A c \in Column : PieceOf[c] = p => row'[c] = row[c]
             \/ latest'[p] = st /\ \E c \in Column : PieceOf[c] = p /\ row'[c].by = st
  <2>1. CASE \E c \in W : PieceOf[c] = p
    <3>1. PICK c \in W : PieceOf[c] = p
      BY <2>1
    <3> QED
      BY <2>1, <3>1, <1>2, <1>3
  <2>2. CASE ~\E c \in W : PieceOf[c] = p
    BY <2>2, <1>3
  <2> QED
    BY <2>1, <2>2
<1> QED
  BY <1>5, <1>6, <1>7, <1>8 DEF Updated, Update, Edit, Finish, Set, st

LEMMA PatchUpdates ==
    ASSUME Constant, TypeOK, NEW q \in Request, NEW S \in Payload, NEW emptied \in SUBSET S,
           Patch(q, S, emptied)
    PROVE  Updated(q)
BY UpdateUpdates DEF Patch, Constant, PayloadAssumption

LEMMA FillUpdates ==
    ASSUME Constant, TypeOK, NEW q \in Request, NEW p \in Piece, NEW S \in Payload, Fill(q, p, S)
    PROVE  Updated(q)
BY UpdateUpdates DEF Fill, Constant, PayloadAssumption

LEMMA OwnUpdates ==
    ASSUME Constant, TypeOK, NEW q \in Request, UpdateOwn(q)
    PROVE  Updated(q)
<1>1. call[q].payload \subseteq Column
  BY CallKinds DEF UpdateOwn, Allowed, Constant, PayloadAssumption
<1> QED
  BY <1>1, UpdateUpdates DEF UpdateOwn

\* The steps, with the three kinds of update as one.
LEMMA StepKinds ==
    ASSUME Constant, TypeOK, [Next]_vars
    PROVE  \/ \E q \in Request : Updated(q)
           \/ \E q \in Request, u \in User, t \in Token \cup {NoToken} : Open(q, u, t)
           \/ \E q \in Request, u \in User, t \in Token \cup {NoToken} : OpenNote(q, u, t)
           \/ \E q \in Request, p \in Piece, S \in Payload : Verdict(q, p, S)
           \/ \E q \in Request, same \in BOOLEAN : EditNote(q, same)
           \/ \E q \in Request : DeleteNote(q)
           \/ \E q \in Request : Abort(q)
           \/ \E to \in Status : Move(to)
           \/ UNCHANGED vars
<1>1. CASE \E q \in Request : Step(q)
  <2>1. PICK q \in Request : Step(q)
    BY <1>1
  <2>2. CASE \E S \in Payload : \E emptied \in SUBSET S : Patch(q, S, emptied)
    BY <2>2, PatchUpdates
  <2>3. CASE \E p \in Piece, S \in Payload : Fill(q, p, S)
    BY <2>3, FillUpdates
  <2>4. CASE UpdateOwn(q)
    BY <2>4, OwnUpdates
  <2> QED
    BY <2>1, <2>2, <2>3, <2>4 DEF Step
<1>2. CASE \E to \in Status : Move(to)
  BY <1>2
<1>3. CASE UNCHANGED vars
  BY <1>3
<1> QED
  BY <1>1, <1>2, <1>3 DEF Next

(***************************************************************************)
(* The invariant holds at first                                            *)
(***************************************************************************)
LEMMA InitInv ==
    ASSUME Constant, Init
    PROVE  Inv
<1>1. filed \in Record /\ filed.n = 0 /\ edits = 0 /\ 0 \in 0..MaxEdit
  BY DEF Init, Constant, EditAssumption
<1>2. \A c \in Column : row[c] \in Text /\ row[c].by = filed
  <2>1. row \in [Column -> {[by |-> filed, empty |-> e] : e \in BOOLEAN}]
    BY DEF Init
  <2> QED
    BY <2>1, <1>1 DEF Text
<1>3. row \in [Column -> Text]
  <2>1. row = [c \in Column |-> row[c]]
    BY DEF Init
  <2> QED
    BY <2>1, <1>2
<1>4. PICK r \in Record : note = [text |-> r, stamp |-> r] /\ r.n = 0
  BY DEF Init
<1>5. note \in Note /\ note # NoNote /\ note.text = note.stamp /\ note.text.n = 0
  BY <1>4 DEF Note, NoNote
<1>6. latest = [p \in Piece |-> filed] /\ status \in Status
  BY DEF Init, Status
<1>7. call = [q \in Request |-> Idle]
  BY DEF Init
<1>8. TypeOK
  BY <1>1, <1>3, <1>5, <1>6, <1>7 DEF TypeOK
<1>9. \A q \in Request : call[q].pc = "idle"
  BY <1>7 DEF Idle
<1>10. Past /\ NoteStamped /\ AllowedSpares /\ NoteSpares
  BY <1>1, <1>2, <1>5, <1>6, <1>9 DEF Past, NoteStamped, AllowedSpares, NoteSpares
<1>11. OneWriterPerEdit
  BY <1>2 DEF OneWriterPerEdit
<1>12. RecordNamesWriter
  <2> SUFFICES ASSUME NEW p \in Piece
               PROVE  \E c \in Column : /\ PieceOf[c] = p /\ latest[p] = row[c].by
                                        /\ \A d \in Column : PieceOf[d] = p => row[d].by.n <= latest[p].n
    BY DEF RecordNamesWriter
  <2>1. PICK c \in Column : PieceOf[c] = p
    BY DEF Piece
  <2> QED
    BY <2>1, <1>1, <1>2, <1>6
<1> QED
  BY <1>8, <1>10, <1>11, <1>12 DEF Inv

(***************************************************************************)
(* Types                                                                   *)
(***************************************************************************)
LEMMA TypeKept ==
    ASSUME Constant, TypeOK, [Next]_vars
    PROVE  TypeOK'
<1> DEFINE Calls == Call \cup {Idle}
<1>0. call \in [Request -> Calls]
  BY DEF TypeOK
<1>1. ASSUME NEW q \in Request, Updated(q) PROVE TypeOK'
  <2>1. edits' \in 0..MaxEdit
    BY <1>1 DEF Updated, Bound, TypeOK, Constant, EditAssumption
  <2>2. call' \in [Request -> Calls]
    BY <1>0, <1>1 DEF Updated
  <2> QED
    BY <1>1, <2>1, <2>2 DEF Updated, TypeOK
<1>2. ASSUME NEW q \in Request, NEW u \in User, NEW t \in Token \cup {NoToken}, Open(q, u, t)
      PROVE  TypeOK'
  <2>1. [pc |-> "loaded", user |-> u, token |-> t, seen |-> row, status |-> status] \in Loaded
    BY DEF Loaded, TypeOK
  <2>2. call' \in [Request -> Calls]
    BY <1>0, <1>2, <2>1 DEF Open, Set, Call
  <2> QED
    BY <1>2, <2>2 DEF Open, Content, TypeOK
<1>3. ASSUME NEW q \in Request, NEW u \in User, NEW t \in Token \cup {NoToken}, OpenNote(q, u, t)
      PROVE  TypeOK'
  <2>1. note.text \in Record
    BY <1>3 DEF OpenNote, TypeOK, Note
  <2>2. [pc |-> "note", user |-> u, token |-> t, text |-> note.text] \in AtNote
    BY <2>1 DEF AtNote
  <2>3. call' \in [Request -> Calls]
    BY <1>0, <1>3, <2>2 DEF OpenNote, Set, Call
  <2> QED
    BY <1>3, <2>3 DEF OpenNote, Content, TypeOK
<1>4. ASSUME NEW q \in Request, NEW p \in Piece, NEW S \in Payload, Verdict(q, p, S)
      PROVE  TypeOK'
  <2>1. call[q] \in Loaded
    BY <1>4, CallKinds DEF Verdict
  <2>2. [pc |-> "allowed", user |-> call[q].user, token |-> call[q].token,
         seen |-> call[q].seen, payload |-> S] \in Allowed
    BY <2>1 DEF Loaded, Allowed
  <2>3. call' \in [Request -> Calls]
    BY <1>0, <1>4, <2>2 DEF Verdict, Set, Call
  <2> QED
    BY <1>4, <2>3 DEF Verdict, Content, TypeOK
<1>5. ASSUME NEW q \in Request, NEW same \in BOOLEAN, EditNote(q, same) PROVE TypeOK'
  <2>1. edits' \in 0..MaxEdit
    BY <1>5 DEF EditNote, Edit, Bound, TypeOK, Constant, EditAssumption
  <2>2. call' \in [Request -> Calls]
    BY <1>0, <1>5 DEF EditNote, Finish, Set
  <2>3. Stamp(q) \in Record /\ note.text \in Record
    BY <1>5, StampTyped DEF EditNote, Edit, TypeOK, Note
  <2>4. note' \in Note
    BY <1>5, <2>3 DEF EditNote, Note
  <2> QED
    BY <1>5, <2>1, <2>2, <2>4 DEF EditNote, TypeOK
<1>6. ASSUME NEW q \in Request, DeleteNote(q) PROVE TypeOK'
  <2>1. call' \in [Request -> Calls]
    BY <1>0, <1>6 DEF DeleteNote, Finish, Set
  <2> QED
    BY <1>6, <2>1 DEF DeleteNote, TypeOK
<1>7. ASSUME NEW q \in Request, Abort(q) PROVE TypeOK'
  <2>1. call' \in [Request -> Calls]
    BY <1>0, <1>7 DEF Abort, Finish, Set
  <2> QED
    BY <1>7, <2>1 DEF Abort, Content, TypeOK
<1>8. ASSUME NEW to \in Status, Move(to) PROVE TypeOK'
  BY <1>8 DEF Move, TypeOK
<1>9. CASE UNCHANGED vars
  BY <1>9 DEF vars, TypeOK
<1> QED
  BY <1>1, <1>2, <1>3, <1>4, <1>5, <1>6, <1>7, <1>8, <1>9, StepKinds

(***************************************************************************)
(* What is known is past                                                   *)
(***************************************************************************)
LEMMA TextNumbers ==
    ASSUME TypeOK
    PROVE  /\ edits \in Nat
           /\ \A c \in Column : row[c].by \in Record /\ row[c].by.n \in Nat
           /\ \A p \in Piece : latest[p].n \in Nat
           /\ note # NoNote => note.text \in Record /\ note.stamp \in Record
                               /\ note.text.n \in Nat /\ note.stamp.n \in Nat
<1>1. \A r \in Record : r.n \in Nat
  BY DEF Record
<1> QED
  BY <1>1 DEF TypeOK, Text, Note

LEMMA PastKept ==
    ASSUME Constant, TypeOK, Past, [Next]_vars
    PROVE  Past'
<1> USE TextNumbers
<1>1. ASSUME NEW q \in Request, Updated(q) PROVE Past'
  <2>1. edits \in Nat /\ edits' = edits + 1 /\ note' = note
    BY <1>1 DEF Updated
  <2>2. Stamp(q).n = edits + 1
    BY <1>1, StampTyped DEF Updated
  <2>3. ASSUME NEW c \in Column PROVE row'[c].by.n <= edits'
    BY <1>1, <2>1, <2>2 DEF Updated, Past
  <2>4. ASSUME NEW p \in Piece PROVE latest'[p].n <= edits'
    BY <1>1, <2>1, <2>2 DEF Updated, Past
  <2>5. note' # NoNote => note'.text.n <= edits' /\ note'.stamp.n <= edits'
    BY <2>1 DEF Past
  <2>6. \A r \in Request : call'[r] = call[r] \/ call'[r].pc = "idle"
    BY <1>1 DEF Updated, TypeOK, Idle
  <2>7. ASSUME NEW r \in Request, call'[r].pc \in {"loaded", "allowed"}, NEW c \in Column
        PROVE  call'[r].seen[c].by.n <= edits'
    <3>1. call'[r] = call[r]
      BY <2>6, <2>7
    <3>2. call[r].seen[c].by.n \in Nat
      BY <3>1, <2>7, CallKinds DEF Loaded, Allowed, Text, Record
    <3> QED
      BY <3>1, <3>2, <2>1, <2>7 DEF Past
  <2>8. ASSUME NEW r \in Request, call'[r].pc = "note" PROVE call'[r].text.n <= edits'
    <3>1. call'[r] = call[r]
      BY <2>6, <2>8
    <3>2. call[r].text.n \in Nat
      BY <3>1, <2>8, CallKinds DEF AtNote, Record
    <3> QED
      BY <3>1, <3>2, <2>1, <2>8 DEF Past
  <2> QED
    BY <2>3, <2>4, <2>5, <2>7, <2>8 DEF Past
<1>2. ASSUME NEW q \in Request, NEW u \in User, NEW t \in Token \cup {NoToken}, Open(q, u, t)
      PROVE  Past'
  BY <1>2 DEF Open, Set, Content, Past, TypeOK
<1>3. ASSUME NEW q \in Request, NEW u \in User, NEW t \in Token \cup {NoToken}, OpenNote(q, u, t)
      PROVE  Past'
  BY <1>3 DEF OpenNote, Set, Content, Past, TypeOK
<1>4. ASSUME NEW q \in Request, NEW p \in Piece, NEW S \in Payload, Verdict(q, p, S)
      PROVE  Past'
  BY <1>4 DEF Verdict, Set, Content, Past, TypeOK
<1>5. ASSUME NEW q \in Request, NEW same \in BOOLEAN, EditNote(q, same) PROVE Past'
  <2>1. edits \in Nat /\ edits' = edits + 1 /\ row' = row /\ latest' = latest
    BY <1>5 DEF EditNote, Edit
  <2>2. Stamp(q).n = edits + 1
    BY <1>5, StampTyped DEF EditNote, Edit
  <2>3. note'.text.n <= edits' /\ note'.stamp.n <= edits'
    BY <1>5, <2>1, <2>2 DEF EditNote, Past
  <2>4. \A r \in Request : call'[r] = call[r] \/ call'[r].pc = "idle"
    BY <1>5 DEF EditNote, Finish, Set, TypeOK, Idle
  <2>5. ASSUME NEW r \in Request, call'[r].pc \in {"loaded", "allowed"}, NEW c \in Column
        PROVE  call'[r].seen[c].by.n <= edits'
    <3>1. call'[r] = call[r]
      BY <2>4, <2>5
    <3>2. call[r].seen[c].by.n \in Nat
      BY <3>1, <2>5, CallKinds DEF Loaded, Allowed, Text, Record
    <3> QED
      BY <3>1, <3>2, <2>1, <2>5 DEF Past
  <2>6. ASSUME NEW r \in Request, call'[r].pc = "note" PROVE call'[r].text.n <= edits'
    <3>1. call'[r] = call[r]
      BY <2>4, <2>6
    <3>2. call[r].text.n \in Nat
      BY <3>1, <2>6, CallKinds DEF AtNote, Record
    <3> QED
      BY <3>1, <3>2, <2>1, <2>6 DEF Past
  <2>7. \A c \in Column : row'[c].by.n <= edits'
    BY <2>1 DEF Past
  <2>8. \A p \in Piece : latest'[p].n <= edits'
    BY <2>1 DEF Past
  <2> QED
    BY <2>3, <2>5, <2>6, <2>7, <2>8 DEF Past
<1>6. ASSUME NEW q \in Request, DeleteNote(q) PROVE Past'
  BY <1>6 DEF DeleteNote, Finish, Set, Past, TypeOK, Idle
<1>7. ASSUME NEW q \in Request, Abort(q) PROVE Past'
  BY <1>7 DEF Abort, Finish, Set, Content, Past, TypeOK, Idle
<1>8. ASSUME NEW to \in Status, Move(to) PROVE Past'
  BY <1>8 DEF Move, Past
<1>9. CASE UNCHANGED vars
  BY <1>9 DEF vars, Past
<1> QED
  BY <1>1, <1>2, <1>3, <1>4, <1>5, <1>6, <1>7, <1>8, <1>9, StepKinds

(***************************************************************************)
(* Records and writers                                                     *)
(***************************************************************************)

\* Only an update changes the texts or their records.
LEMMA OthersKeepTexts ==
    ASSUME Constant, TypeOK, [Next]_vars
    PROVE  (row' = row /\ latest' = latest) \/ \E q \in Request : Updated(q)
BY StepKinds DEF Open, OpenNote, Verdict, EditNote, DeleteNote, Abort, Move, Content, vars

LEMMA WritersKept ==
    ASSUME Constant, TypeOK, Past, RecordNamesWriter, OneWriterPerEdit, [Next]_vars
    PROVE  RecordNamesWriter' /\ OneWriterPerEdit'
<1>1. ASSUME NEW q \in Request, Updated(q) PROVE RecordNamesWriter' /\ OneWriterPerEdit'
  <2>0. edits \in Nat /\ Stamp(q).n = edits + 1
    BY <1>1, StampTyped, TextNumbers DEF Updated
  <2>1. \A c \in Column : row[c].by.n \in Nat /\ row[c].by.n <= edits
    BY TextNumbers DEF Past
  <2>2. \A c \in Column : row'[c] = row[c] \/ row'[c].by = Stamp(q)
    BY <1>1 DEF Updated
  <2>3. ASSUME NEW c \in Column, NEW d \in Column, row'[c].by.n = row'[d].by.n
        PROVE  row'[c].by = row'[d].by
    BY <2>0, <2>1, <2>2, <2>3 DEF OneWriterPerEdit
  <2>4. ASSUME NEW p \in Piece
        PROVE  \E c \in Column : /\ PieceOf[c] = p /\ latest'[p] = row'[c].by
                                 /\ \A d \in Column : PieceOf[d] = p => row'[d].by.n <= latest'[p].n
    <3>1. CASE latest'[p] = latest[p] /\ \A c \in Column : PieceOf[c] = p => row'[c] = row[c]
      BY <3>1 DEF RecordNamesWriter
    <3>2. CASE latest'[p] = Stamp(q) /\ \E c \in Column : PieceOf[c] = p /\ row'[c].by = Stamp(q)
      <4>1. PICK c \in Column : PieceOf[c] = p /\ row'[c].by = Stamp(q)
        BY <3>2
      <4>2. \A d \in Column : row'[d].by.n <= edits + 1
        BY <2>0, <2>1, <2>2
      <4> QED
        BY <3>2, <4>1, <4>2, <2>0
    <3> QED
      BY <1>1, <3>1, <3>2 DEF Updated
  <2> QED
    BY <2>3, <2>4 DEF RecordNamesWriter, OneWriterPerEdit
<1>2. CASE row' = row /\ latest' = latest
  BY <1>2 DEF RecordNamesWriter, OneWriterPerEdit
<1> QED
  BY <1>1, <1>2, OthersKeepTexts

LEMMA StampKept ==
    ASSUME Constant, TypeOK, Past, NoteStamped, [Next]_vars
    PROVE  NoteStamped'
<1>1. CASE note' = note
  BY <1>1 DEF NoteStamped
<1>2. ASSUME NEW q \in Request, NEW same \in BOOLEAN, EditNote(q, same) PROVE NoteStamped'
  <2>1. Stamp(q).n = edits + 1 /\ edits \in Nat
    BY <1>2, StampTyped, TextNumbers DEF EditNote, Edit
  <2>2. note.text.n <= edits /\ note.text.n \in Nat
    BY <1>2, TextNumbers DEF EditNote, Past
  <2>3. note'.stamp = Stamp(q) /\ (note'.text = Stamp(q) \/ note'.text = note.text)
    BY <1>2 DEF EditNote
  <2> QED
    BY <2>1, <2>2, <2>3 DEF NoteStamped
<1>3. CASE note' = NoNote
  BY <1>3 DEF NoteStamped
<1> QED
  BY <1>1, <1>2, <1>3, StepKinds
     DEF Updated, Open, OpenNote, Verdict, DeleteNote, Abort, Move, Content, vars

(***************************************************************************)
(* Verdicts stay right while their requests are under way                  *)
(***************************************************************************)
LEMMA OwnedRecord ==
    ASSUME NEW r, NEW u, Owned(r, u)
    PROVE  r.user = u /\ r.token \in Token
BY DEF Owned, TokensOf

LEMMA AllowedKept ==
    ASSUME Constant, Inv, [Next]_vars
    PROVE  AllowedSpares'
<1>0. TypeOK /\ Past /\ AllowedSpares
  BY DEF Inv
<1> SUFFICES ASSUME NEW r \in Request, call'[r].pc = "allowed", NEW c \in call'[r].payload,
                    row'[c] = call'[r].seen[c], Foreign(row[c].by, r)'
             PROVE  latest'[PieceOf[c]].n > row'[c].by.n
  BY DEF AllowedSpares
<1>1. ASSUME NEW q \in Request, Updated(q) PROVE latest'[PieceOf[c]].n > row'[c].by.n
  <2>1. call'[r] = call[r] /\ call[r].pc = "allowed"
    BY <1>0, <1>1 DEF Updated, TypeOK, Idle
  <2>2. call[r] \in Allowed /\ c \in Column /\ PieceOf[c] \in Piece
    BY <1>0, <2>1, CallKinds, Pieces DEF Allowed, Constant, PayloadAssumption
  <2>3. Stamp(q).n = edits + 1 /\ edits \in Nat
    BY <1>0, <1>1, StampTyped, TextNumbers DEF Updated
  <2>4. call[r].seen[c].by.n <= edits /\ call[r].seen[c].by.n \in Nat
    BY <1>0, <2>1, <2>2 DEF Past, Allowed, Text, Record
  <2>5. row'[c].by # Stamp(q)
    BY <2>1, <2>3, <2>4
  <2>6. row'[c] = row[c]
    BY <1>1, <2>2, <2>5 DEF Updated
  <2>7. Foreign(row[c].by, r)
    BY <2>1, <2>6 DEF Foreign
  <2>8. latest[PieceOf[c]].n > row[c].by.n
    BY <1>0, <2>1, <2>6, <2>7 DEF AllowedSpares
  <2>9. latest[PieceOf[c]].n <= edits /\ latest[PieceOf[c]].n \in Nat /\ row[c].by.n \in Nat
    BY <1>0, <2>2, TextNumbers DEF Past
  <2>10. latest'[PieceOf[c]] = latest[PieceOf[c]] \/ latest'[PieceOf[c]] = Stamp(q)
    BY <1>1, <2>2 DEF Updated
  <2> QED
    BY <2>3, <2>6, <2>8, <2>9, <2>10
<1>2. ASSUME row' = row, latest' = latest PROVE latest'[PieceOf[c]].n > row'[c].by.n
  <2>1. CASE call'[r] = call[r]
    BY <1>0, <1>2, <2>1 DEF AllowedSpares, Foreign
  <2>2. CASE call'[r] # call[r]
    <3>1. PICK p \in Piece, S \in Payload : Verdict(r, p, S)
      <4>2. ASSUME NEW q \in Request, NEW p \in Piece, NEW S \in Payload, Verdict(q, p, S)
            PROVE  q = r
        BY <1>0, <2>2, <4>2 DEF Verdict, Set, TypeOK
      <4>3. ASSUME NEW q \in Request, Finish(q) PROVE FALSE
        BY <1>0, <2>2, <4>3 DEF Finish, Set, Idle, TypeOK
      <4>4. ASSUME NEW q \in Request, NEW u \in User, NEW t \in Token \cup {NoToken},
                   Open(q, u, t) \/ OpenNote(q, u, t)
            PROVE  FALSE
        <5>1. CASE Open(q, u, t)
          BY <1>0, <2>2, <5>1 DEF Open, Set, TypeOK
        <5>2. CASE OpenNote(q, u, t)
          BY <1>0, <2>2, <5>2 DEF OpenNote, Set, TypeOK
        <5> QED
          BY <4>4, <5>1, <5>2
      <4>5. ~\E q \in Request : Updated(q)
        BY <4>3 DEF Updated, Finish, Set
      <4> QED
        BY <1>0, <2>2, <4>2, <4>3, <4>4, <4>5, StepKinds
           DEF EditNote, DeleteNote, Abort, Move, vars
    <3>2. call'[r].seen = call[r].seen /\ call'[r].payload = S /\ call'[r].user = call[r].user
      BY <1>0, <3>1 DEF Verdict, Set, TypeOK
    <3>3. c \in Column /\ PieceOf[c] = p
      BY <3>1, <3>2 DEF Verdict, Constant, PayloadAssumption
    <3>4. latest[p].user = call[r].user /\ latest[p].token \in Token
      BY <3>1, OwnedRecord DEF Verdict, MayUpdate
    <3>5. row[c].by # latest[p]
      BY <1>2, <3>2, <3>4 DEF Foreign, Constant, ActorAssumption
    <3>6. PICK e \in Column : /\ PieceOf[e] = p /\ latest[p] = row[e].by
                              /\ \A d \in Column : PieceOf[d] = p => row[d].by.n <= latest[p].n
      BY DEF Inv, RecordNamesWriter
    <3>7. row[c].by.n <= latest[p].n /\ row[c].by.n # latest[p].n
      BY <3>3, <3>5, <3>6 DEF Inv, OneWriterPerEdit
    <3>8. row[c].by.n \in Nat /\ latest[p].n \in Nat
      BY <1>0, <3>3, TextNumbers
    <3> QED
      BY <1>2, <3>3, <3>7, <3>8
  <2> QED
    BY <2>1, <2>2
<1> QED
  BY <1>0, <1>1, <1>2, OthersKeepTexts

LEMMA NoteSparesKept ==
    ASSUME Constant, Inv, [Next]_vars
    PROVE  NoteSpares'
<1>0. TypeOK /\ Past /\ NoteSpares /\ NoteStamped
  BY DEF Inv
<1> SUFFICES ASSUME NEW r \in Request, call'[r].pc = "note", call'[r].token # NoToken,
                    note' # NoNote, note'.text = call'[r].text, Foreign(note.text, r)'
             PROVE  note'.stamp.n > note'.text.n
  BY DEF NoteSpares
<1>1. ASSUME NEW q \in Request, NEW same \in BOOLEAN, EditNote(q, same)
      PROVE  note'.stamp.n > note'.text.n
  <2>1. call'[r] = call[r] /\ call[r].pc = "note"
    BY <1>0, <1>1 DEF EditNote, Finish, Set, TypeOK, Idle
  <2>2. call[r].text.n <= edits /\ call[r].text.n \in Nat
    BY <1>0, <2>1, CallKinds DEF Past, AtNote, Record
  <2>3. Stamp(q).n = edits + 1 /\ edits \in Nat
    BY <1>0, <1>1, StampTyped, TextNumbers DEF EditNote, Edit
  <2>4. note'.stamp = Stamp(q)
    BY <1>1 DEF EditNote
  <2> QED
    BY <2>1, <2>2, <2>3, <2>4
<1>2. ASSUME note' = note, call'[r] = call[r] PROVE note'.stamp.n > note'.text.n
  BY <1>0, <1>2 DEF NoteSpares, Foreign
<1>3. ASSUME NEW u \in User, NEW t \in Token \cup {NoToken}, OpenNote(r, u, t)
      PROVE  note'.stamp.n > note'.text.n
  <2>1. call'[r].user = u /\ call'[r].token = t /\ note' = note /\ t \in Token
    BY <1>0, <1>3 DEF OpenNote, Set, Content, TypeOK
  <2>2. note.stamp.user = u /\ note.stamp.token \in Token
    BY <1>3, <2>1, OwnedRecord DEF OpenNote
  <2>3. note.text # note.stamp
    BY <2>1, <2>2 DEF Foreign, Constant, ActorAssumption
  <2> QED
    BY <1>0, <2>1, <2>3, TextNumbers DEF NoteStamped
<1>4. ASSUME NEW q \in Request, NEW x, call' = [call EXCEPT ![q] = x], x.pc # "note" \/ q # r
      PROVE  call'[r] = call[r]
  BY <1>0, <1>4 DEF TypeOK
<1>5. ASSUME NEW q \in Request, Finish(q) PROVE call'[r] = call[r]
  BY <1>4, <1>5 DEF Finish, Set, Idle
<1>6. ASSUME NEW q \in Request, Updated(q) PROVE note' = note /\ call'[r] = call[r]
  BY <1>5, <1>6 DEF Updated, Finish, Set
<1>7. ASSUME NEW q \in Request, NEW u \in User, NEW t \in Token \cup {NoToken}, Open(q, u, t)
      PROVE  note' = note /\ call'[r] = call[r]
  BY <1>4, <1>7 DEF Open, Set, Content
<1>8. ASSUME NEW q \in Request, NEW u \in User, NEW t \in Token \cup {NoToken},
             OpenNote(q, u, t), q # r
      PROVE  note' = note /\ call'[r] = call[r]
  BY <1>4, <1>8 DEF OpenNote, Set, Content
<1>9. ASSUME NEW q \in Request, NEW p \in Piece, NEW S \in Payload, Verdict(q, p, S)
      PROVE  note' = note /\ call'[r] = call[r]
  BY <1>4, <1>9 DEF Verdict, Set, Content
<1>10. ASSUME NEW q \in Request, DeleteNote(q) PROVE FALSE
  BY <1>10 DEF DeleteNote
<1>11. ASSUME NEW q \in Request, Abort(q) PROVE note' = note /\ call'[r] = call[r]
  BY <1>5, <1>11 DEF Abort, Content
<1>12. ASSUME NEW to \in Status, Move(to) PROVE note' = note /\ call'[r] = call[r]
  BY <1>12 DEF Move
<1>13. CASE UNCHANGED vars
  BY <1>2, <1>13 DEF vars
<1> QED
  BY <1>0, <1>1, <1>2, <1>3, <1>6, <1>7, <1>8, <1>9, <1>10, <1>11, <1>12, <1>13, StepKinds

(***************************************************************************)
(* An agent's step                                                         *)
(***************************************************************************)
SparedColumns(q) ==
    \A c \in Column :
        row'[c] # row[c] /\ ~row[c].empty /\ Foreign(row[c].by, q) =>
            row[c] # call[q].seen[c] \/ latest[PieceOf[c]].n > row[c].by.n
SparedNote(q) ==
    note' # note /\ note # NoNote /\ Foreign(note.text, q) =>
        note.text # call[q].text \/ note.stamp.n > note.text.n

LEMMA ColumnsSpared ==
    ASSUME Constant, Inv, [Next]_vars, NEW q \in Request, AgentActs(q)
    PROVE  SparedColumns(q)
<1>0. TypeOK /\ AllowedSpares
  BY DEF Inv
<1>1. CASE row' = row
  BY <1>1 DEF SparedColumns
<1>2. ASSUME NEW r \in Request, NEW S, NEW emptied, Update(r, S, emptied)
      PROVE  r = q /\ \A c \in Column : row'[c] # row[c] => c \in S
  <2>1. r = q
    BY <1>0, <1>2 DEF Update, Finish, Set, AgentActs, TypeOK
  <2> QED
    BY <1>0, <1>2, <2>1 DEF Update, Written, TypeOK
<1>3. ASSUME NEW r \in Request, NEW S \in Payload, NEW emptied \in SUBSET S, Patch(r, S, emptied)
      PROVE  SparedColumns(q)
  BY <1>2, <1>3 DEF Patch, AgentActs
<1>4. ASSUME NEW r \in Request, NEW p \in Piece, NEW S \in Payload, Fill(r, p, S)
      PROVE  SparedColumns(q)
  BY <1>2, <1>4 DEF Fill, SparedColumns
<1>5. ASSUME NEW r \in Request, UpdateOwn(r) PROVE SparedColumns(q)
  BY <1>0, <1>2, <1>5 DEF UpdateOwn, SparedColumns, AllowedSpares
<1> QED
  BY <1>1, <1>3, <1>4, <1>5
     DEF Next, Step, Open, OpenNote, Verdict, EditNote, DeleteNote, Abort, Move, Content, vars

LEMMA NoteSpared ==
    ASSUME Constant, Inv, [Next]_vars, NEW q \in Request, AgentActs(q)
    PROVE  SparedNote(q)
<1>0. TypeOK /\ NoteSpares
  BY DEF Inv
<1>1. CASE note' = note
  BY <1>1 DEF SparedNote
<1>2. ASSUME NEW r \in Request, call[r].pc = "note", Finish(r) PROVE SparedNote(q)
  <2>1. r = q
    BY <1>0, <1>2 DEF Finish, Set, AgentActs, TypeOK
  <2> QED
    BY <1>0, <1>2, <2>1 DEF NoteSpares, SparedNote, AgentActs
<1>3. ASSUME NEW r \in Request, NEW same \in BOOLEAN, EditNote(r, same) PROVE SparedNote(q)
  BY <1>2, <1>3 DEF EditNote
<1>4. ASSUME NEW r \in Request, DeleteNote(r) PROVE SparedNote(q)
  BY <1>2, <1>4 DEF DeleteNote
<1> QED
  BY <1>0, <1>1, <1>3, <1>4, StepKinds
     DEF Updated, Open, OpenNote, Verdict, Abort, Move, Content, vars

(***************************************************************************)
(* The theorems                                                            *)
(***************************************************************************)
LEMMA ConstantHolds == Constant
BY ActorAssumption, EditAssumption, ColumnAssumption, PayloadAssumption DEF Constant

LEMMA InvAlways == Spec => []Inv
<1>1. Init => Inv
  BY InitInv, ConstantHolds
<1>2. Inv /\ [Next]_vars => Inv'
  <2> SUFFICES ASSUME Inv, [Next]_vars PROVE Inv'
    OBVIOUS
  <2>1. TypeOK' /\ Past'
    BY ConstantHolds, TypeKept, PastKept DEF Inv
  <2>2. RecordNamesWriter' /\ OneWriterPerEdit' /\ NoteStamped'
    BY ConstantHolds, WritersKept, StampKept DEF Inv
  <2>3. AllowedSpares' /\ NoteSpares'
    BY ConstantHolds, AllowedKept, NoteSparesKept
  <2> QED
    BY <2>1, <2>2, <2>3 DEF Inv
<1> QED
  BY <1>1, <1>2, PTL DEF Spec

\* The texts, the records, the note and every request keep their declared shape.
THEOREM ContentTypeCorrect == Spec => []TypeOK
<1>1. Inv => TypeOK
  BY DEF Inv
<1> QED
  BY <1>1, InvAlways, PTL

\* For any requests deciding on stale rows, the latest record of a piece
\* (agent_ownership_loader.load) names the writer of its newest text.
THEOREM RecordsNameWriters == Spec => []RecordNamesWriter
<1>1. Inv => RecordNamesWriter
  BY DEF Inv
<1> QED
  BY <1>1, InvAlways, PTL

\* The verdict of agent_ownership.decide, taken without a lock, still keeps agents
\* off every text that somebody else finished before the request began.
THEOREM AgentsSpareOthers == Spec => AgentSparesOthersText
<1>1. Inv /\ [Next]_vars => \A q \in Request : AgentActs(q) => SparedColumns(q) /\ SparedNote(q)
  BY ConstantHolds, ColumnsSpared, NoteSpared
<1>2. Inv /\ [Next]_vars =>
         [\A q \in Request : AgentActs(q) =>
            /\ \A c \in Column :
                  row'[c] # row[c] /\ ~row[c].empty /\ Foreign(row[c].by, q) =>
                      row[c] # call[q].seen[c] \/ latest[PieceOf[c]].n > row[c].by.n
            /\ note' # note /\ note # NoNote /\ Foreign(note.text, q) =>
                      note.text # call[q].text \/ note.stamp.n > note.text.n]_vars
  BY <1>1 DEF SparedColumns, SparedNote
<1> QED
  BY <1>2, InvAlways, PTL DEF Spec, AgentSparesOthersText

(***************************************************************************)
(* Uploads: the inductive invariant                                        *)
(***************************************************************************)
Held(u) == \E c \in Caller : Holds(c, u)

\* What a call has named and taken in each of its states.
CallShape ==
    \A c \in Caller :
        /\ calls[c].at = "checked" => \A u \in calls[c].uploads : route[u] = "agent"
        /\ calls[c].at = "deleting" => calls[c].taken = {}

HasFile(u) == file[u] = "stored" \/ fate[u] \in {"swept", "erased"}

Agents(u) == route[u] = "agent"

\* A file that an agent's call has seen is there until a rule or a deletion
\* takes it: for the rows, for what calls hold, and for what they checked and
\* may still take.
FileSeen ==
    \A u \in Upload : Agents(u) =>
        /\ u \in attached \/ Held(u) => HasFile(u)
        /\ u \in pending =>
              \A c \in Caller :
                  calls[c].at = "checked" /\ u \in calls[c].uploads => HasFile(u)

Removed(u) ==
    \/ fate[u] = "deleted"
    \/ \E c \in Caller : calls[c].at = "deleting" /\ u \in calls[c].uploads

\* An agent's upload does not come back after its deletion.
RemovedIsOver ==
    \A u \in Upload : Agents(u) /\ Removed(u) =>
        /\ fate[u] \in {"erased", "deleted"}
        /\ fate[u] = "deleted" => u \notin attached
        /\ u \notin pending /\ ~Held(u)

\* Only large files are sent in parts.
PartsAreLarge == \A u \in Upload : file[u] = "parts" => u \in Large

\* Nothing happens to an upload before it is asked for.
Unasked ==
    \A u \in Upload : route[u] = NoRoute =>
        /\ u \notin attached /\ u \notin job
        /\ file[u] = "none" /\ fate[u] = "open"
        /\ \A c \in Caller : u \notin calls[c].uploads

UploadsInv ==
    /\ UploadTypeOK /\ CallShape /\ PartsAreLarge /\ Unasked
    /\ UploadHeldOnce /\ NoUploadForgotten
    /\ FileSeen /\ RemovedIsOver /\ ValidatedRowExisted

LEMMA TakenType ==
    ASSUME NEW r \in CallState, NEW T \in SUBSET Upload
    PROVE  [r EXCEPT !.taken = T] \in CallState
  BY DEF CallState

LEMMA AtType ==
    ASSUME NEW r \in CallState
    PROVE  [r EXCEPT !.at = "written"] \in CallState
  BY DEF CallState

\* The part of the type invariant about the calls.
CallsOK ==
    /\ calls \in [Caller -> CallState]
    /\ \A c \in Caller : /\ calls[c].taken \subseteq calls[c].uploads
                         /\ calls[c].at = "idle" => calls[c] = NoCall
                         /\ calls[c].at = "written" => calls[c].taken = calls[c].uploads

LEMMA CallSet ==
    ASSUME CallsOK, NEW c \in Caller, NEW r \in CallState, r.taken \subseteq r.uploads,
           r.at = "idle" => r = NoCall, r.at = "written" => r.taken = r.uploads,
           calls' = [calls EXCEPT ![c] = r]
    PROVE  CallsOK'
  <1>1. calls'[c] = r /\ \A d \in Caller \ {c} : calls'[d] = calls[d]
    BY DEF CallsOK
  <1>. QED BY <1>1 DEF CallsOK

LEMMA IdleSet ==
    NoCall \in CallState /\ NoCall.at = "idle" /\ NoCall.taken = {} /\ NoCall.uploads = {}
  BY DEF NoCall, CallState

\* The type invariant is preserved by every step.
LEMMA TypeStep == UploadsInv /\ UploadNext => UploadTypeOK'
  <1>. SUFFICES ASSUME UploadsInv, UploadNext PROVE UploadTypeOK'
    OBVIOUS
  <1>. USE DEF UploadsInv, UploadTypeOK, CallState, NoCall, NoRoute
  <1>1. ASSUME NEW u \in Upload, NEW r \in Route, Presign(u, r) PROVE UploadTypeOK'
    BY <1>1 DEF Presign, CallShape, PartsAreLarge, Completed, File, Route,
       Fate, Flat
  <1>2. ASSUME NEW u \in Upload, Prepare(u) PROVE UploadTypeOK'
    <2>1. pending' \subseteq {v \in Upload : route'[v] = "agent"}
      BY <1>2 DEF Prepare, Route
    <2>. QED BY <1>2, <2>1 DEF Prepare, Route
  <1>3. ASSUME NEW u \in Upload, Put(u) PROVE UploadTypeOK'
    BY <1>3 DEF Put, CallShape, PartsAreLarge, Completed, File, Route, Fate,
       Flat
  <1>4. ASSUME NEW u \in Upload, CompleteForForm(u) PROVE UploadTypeOK'
    <2>1. file' \in [Upload -> File]
      BY <1>4 DEF CompleteForForm, Completed, File
    <2>2. tagged' \subseteq Large
      BY <1>4 DEF CompleteForForm, PartsAreLarge
    <2>. QED BY <1>4, <2>1, <2>2 DEF CompleteForForm
  <1>5. ASSUME NEW u \in Upload, Forget(u) PROVE UploadTypeOK'
    BY <1>5 DEF Forget, CallShape, PartsAreLarge, Completed, File, Route,
       Fate, Flat
  <1>6. ASSUME NEW u \in Upload, Validate(u) PROVE UploadTypeOK'
    BY <1>6 DEF Validate, CallShape, PartsAreLarge, Completed, File, Route,
       Fate, Flat
  <1>7. ASSUME NEW u \in Upload, Sweep(u) PROVE UploadTypeOK'
    BY <1>7 DEF Sweep, CallShape, PartsAreLarge, Completed, File, Route,
       Fate, Flat
  <1>. HIDE DEF UploadsInv, UploadTypeOK, CallState, NoCall
  <1>0. UploadTypeOK /\ CallsOK /\ CallShape /\ PartsAreLarge
    BY DEF UploadsInv, UploadTypeOK, CallsOK
  <1>8. ASSUME NEW c \in Caller, NEW S \in SUBSET Upload, Check(c, S)
        PROVE  UploadTypeOK'
    <2>1. PICK r \in CallState : r = [at |-> "checked", uploads |-> S, taken |-> {}]
      BY DEF CallState
    <2>2. calls' = [calls EXCEPT ![c] = r] /\ r.at # "idle" /\ r.taken \subseteq r.uploads
          /\ (r.at = "written" => r.taken = r.uploads)
      BY <1>8, <2>1 DEF Check
    <2>3. CallsOK'
      BY <1>0, <2>2, CallSet
    <2>4. file' \in [Upload -> File] /\ tagged' \subseteq Large
      BY <1>0, <1>8 DEF Check, Completed, File, PartsAreLarge, UploadTypeOK
    <2>. QED BY <1>0, <1>8, <2>3, <2>4 DEF Check, UploadTypeOK, CallsOK
  <1>9. ASSUME NEW c \in Caller, NEW S \in SUBSET Upload, FileForm(c, S)
        PROVE  UploadTypeOK'
    <2>1. PICK r \in CallState : r = [at |-> "written", uploads |-> S, taken |-> S]
      BY DEF CallState
    <2>2. calls' = [calls EXCEPT ![c] = r] /\ r.at # "idle" /\ r.taken \subseteq r.uploads
          /\ (r.at = "written" => r.taken = r.uploads)
      BY <1>9, <2>1 DEF FileForm, WriteAtOnce
    <2>3. CallsOK'
      BY <1>0, <2>2, CallSet
    <2>. QED BY <1>0, <1>9, <2>3 DEF FileForm, UploadTypeOK, CallsOK
  <1>10. ASSUME NEW c \in Caller, NEW u \in Upload, Take(c, u) PROVE UploadTypeOK'
    <2>1. PICK s \in CallState : s = calls[c] /\ s.taken \subseteq s.uploads
      BY <1>0 DEF CallsOK
    <2>2. PICK r \in CallState : r = [s EXCEPT !.taken = @ \cup {u}]
      BY TakenType DEF CallState
    <2>3. CallsOK'
      <3>1. r.at = "checked" /\ r.taken \subseteq r.uploads
        BY <1>10, <2>1, <2>2 DEF Take, CallState
      <3>2. calls' = [calls EXCEPT ![c] = r]
        BY <1>10, <2>1, <2>2 DEF Take
      <3>. QED BY <1>0, <3>1, <3>2, CallSet
    <2>. QED BY <1>0, <1>10, <2>3 DEF Take, UploadTypeOK, CallsOK
  <1>11. ASSUME NEW c \in Caller, NEW u \in Upload, Confirm(c, u)
         PROVE  UploadTypeOK'
    <2>1. PICK r \in CallState : r = [at |-> "written", uploads |-> {u}, taken |-> {u}]
      BY DEF CallState
    <2>2. calls' = [calls EXCEPT ![c] = r] /\ r.at # "idle" /\ r.taken \subseteq r.uploads
          /\ (r.at = "written" => r.taken = r.uploads)
      BY <1>11, <2>1 DEF Confirm, WriteAtOnce
    <2>3. CallsOK'
      BY <1>0, <2>2, CallSet
    <2>. QED BY <1>0, <1>11, <2>3 DEF Confirm, UploadTypeOK, CallsOK
  <1>12. ASSUME NEW c \in Caller, NEW u \in Upload, Delete(c, u) PROVE UploadTypeOK'
    <2>1. PICK r \in CallState : r = [at |-> "deleting", uploads |-> {u}, taken |-> {}]
      BY DEF CallState
    <2>2. calls' = [calls EXCEPT ![c] = r] /\ r.at # "idle" /\ r.taken \subseteq r.uploads
          /\ (r.at = "written" => r.taken = r.uploads)
      BY <1>12, <2>1 DEF Delete
    <2>3. CallsOK'
      BY <1>0, <2>2, CallSet
    <2>. QED BY <1>0, <1>12, <2>3 DEF Delete, UploadTypeOK, CallsOK, File, Fate
  <1>13. ASSUME NEW c \in Caller, Refuse(c) PROVE UploadTypeOK'
    <2>3. CallsOK'
      BY <1>0, <1>13, CallSet, IdleSet DEF Refuse
    <2>4. calls[c].taken \subseteq {u \in Upload : route[u] = "agent"}
      <3>1. calls[c].taken \subseteq calls[c].uploads /\ calls[c].uploads \subseteq Upload
        BY <1>0 DEF CallsOK, CallState
      <3>. QED BY <1>0, <1>13, <3>1 DEF Refuse, CallShape
    <2>. QED BY <1>0, <1>13, <2>3, <2>4 DEF Refuse, UploadTypeOK, CallsOK
  <1>14. ASSUME NEW c \in Caller, Write(c) PROVE UploadTypeOK'
    <2>1. PICK s \in CallState : s = calls[c]
      BY <1>0 DEF CallsOK
    <2>2. PICK r \in CallState : r = [s EXCEPT !.at = "written"]
      BY AtType
    <2>3. CallsOK'
      <3>1. r.at = "written" /\ r.taken = r.uploads
        BY <1>14, <2>1, <2>2 DEF Write, CallState
      <3>2. calls' = [calls EXCEPT ![c] = r]
        BY <1>14, <2>1, <2>2 DEF Write
      <3>. QED BY <1>0, <3>1, <3>2, CallSet
    <2>. QED BY <1>0, <1>14, <2>3 DEF Write, UploadTypeOK, CallsOK
  <1>15. ASSUME NEW c \in Caller, Commit(c) PROVE UploadTypeOK'
    <2>3. CallsOK'
      BY <1>0, <1>15, CallSet, IdleSet DEF Commit
    <2>4. calls[c].uploads \subseteq Upload
      BY <1>0 DEF CallsOK, CallState
    <2>. QED BY <1>0, <1>15, <2>3, <2>4 DEF Commit, UploadTypeOK, CallsOK
  <1>16. ASSUME NEW c \in Caller, Fail(c) PROVE UploadTypeOK'
    <2>3. CallsOK'
      BY <1>0, <1>16, CallSet, IdleSet DEF Fail
    <2>4. fate' \in [Upload -> Fate]
      BY <1>0, <1>16 DEF Fail, Fate, UploadTypeOK
    <2>. QED BY <1>0, <1>16, <2>3, <2>4 DEF Fail, UploadTypeOK, CallsOK
  <1>17. ASSUME NEW c \in Caller, CommitDelete(c) PROVE UploadTypeOK'
    <2>3. CallsOK'
      BY <1>0, <1>17, CallSet, IdleSet DEF CommitDelete
    <2>4. fate' \in [Upload -> Fate]
      BY <1>0, <1>17 DEF CommitDelete, Fate, UploadTypeOK
    <2>. QED BY <1>0, <1>17, <2>3, <2>4 DEF CommitDelete, UploadTypeOK, CallsOK
  <1>18. ASSUME NEW c \in Caller, FailDelete(c) PROVE UploadTypeOK'
    <2>3. CallsOK'
      BY <1>0, <1>18, CallSet, IdleSet DEF FailDelete
    <2>. QED BY <1>0, <1>18, <2>3 DEF FailDelete, UploadTypeOK, CallsOK
  <1>19. ASSUME NEW c \in Caller, NEW u \in Upload, CompleteForItem(c, u)
         PROVE  UploadTypeOK'
    <2>1. PICK r \in CallState : r = [at |-> "written", uploads |-> {u}, taken |-> {u}]
      BY DEF CallState
    <2>2. /\ calls' = calls \/ calls' = [calls EXCEPT ![c] = r]
          /\ r.at # "idle" /\ r.taken \subseteq r.uploads
          /\ (r.at = "written" => r.taken = r.uploads)
      BY <1>19, <2>1 DEF CompleteForItem, WriteAtOnce
    <2>3. CallsOK'
      BY <1>0, <2>2, CallSet DEF CallsOK
    <2>4. file' \in [Upload -> File] /\ tagged' \subseteq Large
      BY <1>0, <1>19 DEF CompleteForItem, Completed, File, PartsAreLarge, UploadTypeOK
    <2>. QED BY <1>0, <1>19, <2>3, <2>4 DEF CompleteForItem, UploadTypeOK, CallsOK
  <1>. QED BY <1>1, <1>2, <1>3, <1>4, <1>5, <1>6, <1>7, <1>8, <1>9, <1>10, <1>11, <1>12,
     <1>13, <1>14, <1>15, <1>16, <1>17, <1>18, <1>19 DEF UploadNext, UploadStep, CallStep

\* So is what each state of a call says of its uploads.
LEMMA ShapeStep == UploadsInv /\ UploadNext => CallShape'
  <1>. SUFFICES ASSUME UploadsInv, UploadNext PROVE CallShape'
    OBVIOUS
  <1>. USE DEF UploadsInv, UploadTypeOK, CallState, NoCall, NoRoute
  <1>1. ASSUME NEW u \in Upload, NEW r \in Route, Presign(u, r) PROVE CallShape'
    BY <1>1 DEF Presign, CallShape
  <1>2. ASSUME NEW u \in Upload, Prepare(u) PROVE CallShape'
    BY <1>2 DEF Prepare, CallShape
  <1>3. ASSUME NEW c \in Caller, NEW S \in SUBSET Upload, Check(c, S)
        PROVE  CallShape'
    BY <1>3 DEF Check, CallShape
  <1>4. ASSUME NEW c \in Caller, NEW S \in SUBSET Upload, FileForm(c, S)
        PROVE  CallShape'
    BY <1>4 DEF FileForm, WriteAtOnce, CallShape, KeysFree
  <1>5. ASSUME NEW c \in Caller, NEW u \in Upload, Take(c, u) PROVE CallShape'
    BY <1>5 DEF Take, CallShape
  <1>6. ASSUME NEW c \in Caller, NEW u \in Upload, Confirm(c, u) PROVE CallShape'
    BY <1>6 DEF Confirm, WriteAtOnce, CallShape, KeysFree
  <1>7. ASSUME NEW c \in Caller, NEW u \in Upload, Delete(c, u) PROVE CallShape'
    BY <1>7 DEF Delete, CallShape
  <1>8. ASSUME NEW c \in Caller, Refuse(c) PROVE CallShape'
    BY <1>8 DEF Refuse, CallShape
  <1>9. ASSUME NEW c \in Caller, Write(c) PROVE CallShape'
    BY <1>9 DEF Write, CallShape, KeysFree
  <1>10. ASSUME NEW c \in Caller, Commit(c) PROVE CallShape'
    BY <1>10 DEF Commit, CallShape
  <1>11. ASSUME NEW c \in Caller, Fail(c) PROVE CallShape'
    BY <1>11 DEF Fail, CallShape
  <1>12. ASSUME NEW c \in Caller, CommitDelete(c) PROVE CallShape'
    BY <1>12 DEF CommitDelete, CallShape
  <1>13. ASSUME NEW c \in Caller, FailDelete(c) PROVE CallShape'
    BY <1>13 DEF FailDelete, CallShape
  <1>14. CASE UNCHANGED <<route, calls>>
    BY <1>14 DEF CallShape
  <1>item. ASSUME NEW c \in Caller, NEW u \in Upload, CompleteForItem(c, u)
           PROVE  CallShape'
    <2>1. route' = route /\ route[u] = "item"
      BY <1>item DEF CompleteForItem
    <2>2. CASE KeysFree({u})
      BY <1>item, <2>1, <2>2 DEF CompleteForItem, WriteAtOnce, CallShape
    <2>3. CASE ~ KeysFree({u})
      BY <1>item, <2>1, <2>3 DEF CompleteForItem, CallShape
    <2>. QED BY <2>2, <2>3
  <1>. HIDE DEF UploadsInv, UploadTypeOK
  <1>. QED
    <2>1. ASSUME NEW u \in Upload, UploadStep(u) PROVE CallShape'
      BY <2>1, <1>1, <1>2, <1>14 DEF UploadStep, Put, CompleteForForm, Forget, Validate, Sweep
    <2>2. ASSUME NEW c \in Caller, CallStep(c) PROVE CallShape'
      BY <2>2, <1>item, <1>3, <1>4, <1>5, <1>6, <1>7, <1>8, <1>9, <1>10, <1>11,
         <1>12, <1>13 DEF CallStep
    <2>. QED BY <2>1, <2>2 DEF UploadNext

\* Only a large file is ever in parts.
LEMMA PartsStep == UploadsInv /\ UploadNext => PartsAreLarge'
  <1>. SUFFICES ASSUME UploadsInv, UploadNext PROVE PartsAreLarge'
    OBVIOUS
  <1>. USE DEF UploadsInv, UploadTypeOK, CallState, NoCall, NoRoute
  <1>1. ASSUME NEW u \in Upload, Put(u) PROVE PartsAreLarge'
    BY <1>1 DEF Put, PartsAreLarge, Completed, File
  <1>2. ASSUME NEW u \in Upload, CompleteForForm(u) PROVE PartsAreLarge'
    BY <1>2 DEF CompleteForForm, PartsAreLarge, Completed, File
  <1>3. ASSUME NEW u \in Upload, Sweep(u) PROVE PartsAreLarge'
    BY <1>3 DEF Sweep, PartsAreLarge, Completed, File
  <1>4. ASSUME NEW c \in Caller, NEW S \in SUBSET Upload, Check(c, S)
        PROVE  PartsAreLarge'
    BY <1>4 DEF Check, PartsAreLarge, Completed, File
  <1>5. ASSUME NEW c \in Caller, NEW u \in Upload, Confirm(c, u)
        PROVE  PartsAreLarge'
    BY <1>5 DEF Confirm, PartsAreLarge, Completed, File, KeysFree
  <1>6. ASSUME NEW c \in Caller, NEW u \in Upload, Delete(c, u)
        PROVE  PartsAreLarge'
    BY <1>6 DEF Delete, PartsAreLarge, Completed, File
  <1>7. CASE UNCHANGED <<file>>
    BY <1>7 DEF PartsAreLarge
  <1>item. ASSUME NEW c \in Caller, NEW u \in Upload, CompleteForItem(c, u)
           PROVE  PartsAreLarge'
    BY <1>item DEF CompleteForItem, PartsAreLarge, Completed, File
  <1>. HIDE DEF UploadsInv, UploadTypeOK
  <1>. QED BY <1>item, <1>1, <1>2, <1>3, <1>4, <1>5, <1>6, <1>7 DEF UploadNext, UploadStep,
  CallStep,
     Presign, Prepare, Forget, Validate, FileForm, Take, Refuse,
     Write, Commit, Fail,
     CommitDelete, FailDelete

\* An upload that nobody asked for stays untouched.
LEMMA UnaskedStep == UploadsInv /\ UploadNext => Unasked'
  <1>. SUFFICES ASSUME UploadsInv, UploadNext PROVE Unasked'
    OBVIOUS
  <1>. USE DEF UploadsInv, UploadTypeOK, CallState, NoCall, NoRoute
  <1>1. ASSUME NEW u \in Upload, NEW r \in Route, Presign(u, r) PROVE Unasked'
    BY <1>1 DEF Presign, Unasked, Completed
  <1>2. ASSUME NEW u \in Upload, Prepare(u) PROVE Unasked'
    BY <1>2 DEF Prepare, Unasked, Completed
  <1>3. ASSUME NEW u \in Upload, Put(u) PROVE Unasked'
    BY <1>3 DEF Put, Unasked, Completed
  <1>4. ASSUME NEW u \in Upload, CompleteForForm(u) PROVE Unasked'
    BY <1>4 DEF CompleteForForm, Unasked, Completed
  <1>5. ASSUME NEW u \in Upload, Forget(u) PROVE Unasked'
    <2>1. route[u] = "agent"
      BY <1>5 DEF Forget
    <2>2. \A v \in Upload : route[v] = NoRoute => fate'[v] = fate[v]
      BY <1>5, <2>1 DEF Forget
    <2>3. UNCHANGED <<route, file, attached, job, calls>>
      BY <1>5 DEF Forget
    <2>. HIDE DEF UploadTypeOK, CallState, NoCall
    <2>. QED BY <2>2, <2>3 DEF Unasked
  <1>6. ASSUME NEW u \in Upload, Validate(u) PROVE Unasked'
    BY <1>6 DEF Validate, Unasked, Completed
  <1>7. ASSUME NEW u \in Upload, Sweep(u) PROVE Unasked'
    BY <1>7 DEF Sweep, Unasked, Completed
  <1>8. ASSUME NEW c \in Caller, NEW S \in SUBSET Upload, Check(c, S)
        PROVE  Unasked'
    BY <1>8 DEF Check, Unasked, Completed
  <1>9. ASSUME NEW c \in Caller, NEW S \in SUBSET Upload, FileForm(c, S)
        PROVE  Unasked'
    BY <1>9 DEF FileForm, WriteAtOnce, Unasked, Completed, KeysFree
  <1>10. ASSUME NEW c \in Caller, NEW u \in Upload, Take(c, u) PROVE Unasked'
    BY <1>10 DEF Take, Unasked, Completed
  <1>11. ASSUME NEW c \in Caller, NEW u \in Upload, Confirm(c, u) PROVE Unasked'
    BY <1>11 DEF Confirm, WriteAtOnce, Unasked, Completed, KeysFree
  <1>12. ASSUME NEW c \in Caller, NEW u \in Upload, Delete(c, u) PROVE Unasked'
    BY <1>12 DEF Delete, Unasked, Completed
  <1>13. ASSUME NEW c \in Caller, Refuse(c) PROVE Unasked'
    BY <1>13 DEF Refuse, Unasked, Completed
  <1>14. ASSUME NEW c \in Caller, Write(c) PROVE Unasked'
    BY <1>14 DEF Write, Unasked, Completed, KeysFree
  <1>15. ASSUME NEW c \in Caller, Commit(c) PROVE Unasked'
    BY <1>15 DEF Commit, Unasked, Completed
  <1>16. ASSUME NEW c \in Caller, Fail(c) PROVE Unasked'
    BY <1>16 DEF Fail, Unasked, Completed
  <1>17. ASSUME NEW c \in Caller, CommitDelete(c) PROVE Unasked'
    BY <1>17 DEF CommitDelete, Unasked, Completed
  <1>18. ASSUME NEW c \in Caller, FailDelete(c) PROVE Unasked'
    BY <1>18 DEF FailDelete, Unasked, Completed
  <1>item. ASSUME NEW c \in Caller, NEW u \in Upload, CompleteForItem(c, u)
           PROVE  Unasked'
    BY <1>item DEF CompleteForItem, WriteAtOnce, Unasked, Completed
  <1>. HIDE DEF UploadsInv, UploadTypeOK
  <1>. QED BY <1>item, <1>1, <1>2, <1>3, <1>4, <1>5, <1>6, <1>7, <1>8, <1>9, <1>10, <1>11, <1>12,
     <1>13, <1>14, <1>15, <1>16, <1>17, <1>18 DEF UploadNext, UploadStep, CallStep

\* A call that goes straight to its rows, with uploads no agent prepared.
LEMMA WrittenAtOnce ==
    ASSUME UploadsInv, NEW c \in Caller, NEW S \in SUBSET Upload, KeysFree(S),
           \A u \in S : route[u] # "agent",
           calls' = [calls EXCEPT ![c] = [at |-> "written", uploads |-> S, taken |-> S]],
           UNCHANGED <<pending, attached>>
    PROVE  UploadHeldOnce'
  <1>1. calls'[c].taken = S /\ \A d \in Caller \ {c} : calls'[d] = calls[d]
    BY DEF UploadsInv, UploadTypeOK
  <1>2. S \cap attached = {} /\ S \cap pending = {}
    BY DEF KeysFree, UploadsInv, UploadTypeOK
  <1>3. ASSUME NEW d \in Caller PROVE S \cap calls[d].taken = {}
    <2>1. calls[d].taken \subseteq calls[d].uploads /\ calls[d] \in CallState
      BY DEF UploadsInv, UploadTypeOK
    <2>2. CASE calls[d].at = "checked"
      BY <2>1, <2>2 DEF UploadsInv, CallShape
    <2>3. CASE calls[d].at = "written"
      BY <2>1, <2>3 DEF KeysFree
    <2>4. CASE calls[d].at \in {"idle", "deleting"}
      BY <2>4 DEF UploadsInv, UploadTypeOK, CallShape, NoCall
    <2>. QED BY <2>1, <2>2, <2>3, <2>4 DEF CallState
  <1>4. UploadHeldOnce
    BY DEF UploadsInv
  <1>. QED BY <1>1, <1>2, <1>3, <1>4 DEF UploadHeldOnce, Holds

\* Taking, refusing, writing and committing keep an upload in one place.
LEMMA HeldStep == UploadsInv /\ UploadNext => UploadHeldOnce'
  <1>. SUFFICES ASSUME UploadsInv, UploadNext PROVE UploadHeldOnce'
    OBVIOUS
  <1>. USE DEF UploadsInv, UploadTypeOK, CallState, NoCall, NoRoute
  <1>1. ASSUME NEW u \in Upload, Prepare(u) PROVE UploadHeldOnce'
    BY <1>1 DEF Prepare, UploadHeldOnce, Holds, CallShape, Unasked
  <1>2. ASSUME NEW u \in Upload, Forget(u) PROVE UploadHeldOnce'
    BY <1>2 DEF Forget, UploadHeldOnce, Holds, CallShape, Unasked
  <1>3. ASSUME NEW c \in Caller, NEW S \in SUBSET Upload, Check(c, S)
        PROVE  UploadHeldOnce'
    BY <1>3 DEF Check, UploadHeldOnce, Holds, CallShape, Unasked
  <1>4. ASSUME NEW c \in Caller, NEW S \in SUBSET Upload, FileForm(c, S)
        PROVE  UploadHeldOnce'
    BY <1>4, WrittenAtOnce DEF FileForm, WriteAtOnce
  <1>5. ASSUME NEW c \in Caller, NEW u \in Upload, Take(c, u)
        PROVE  UploadHeldOnce'
    BY <1>5 DEF Take, UploadHeldOnce, Holds, CallShape, Unasked
  <1>6. ASSUME NEW c \in Caller, NEW u \in Upload, Confirm(c, u)
        PROVE  UploadHeldOnce'
    BY <1>6, WrittenAtOnce DEF Confirm, WriteAtOnce
  <1>7. ASSUME NEW c \in Caller, NEW u \in Upload, Delete(c, u)
        PROVE  UploadHeldOnce'
    BY <1>7 DEF Delete, UploadHeldOnce, Holds, CallShape, Unasked
  <1>8. ASSUME NEW c \in Caller, Refuse(c) PROVE UploadHeldOnce'
    BY <1>8 DEF Refuse, UploadHeldOnce, Holds, CallShape, Unasked
  <1>9. ASSUME NEW c \in Caller, Write(c) PROVE UploadHeldOnce'
    BY <1>9 DEF Write, UploadHeldOnce, Holds, CallShape, Unasked, KeysFree
  <1>10. ASSUME NEW c \in Caller, Commit(c) PROVE UploadHeldOnce'
    BY <1>10 DEF Commit, UploadHeldOnce, Holds, CallShape, Unasked
  <1>11. ASSUME NEW c \in Caller, Fail(c) PROVE UploadHeldOnce'
    BY <1>11 DEF Fail, UploadHeldOnce, Holds, CallShape, Unasked
  <1>12. ASSUME NEW c \in Caller, CommitDelete(c) PROVE UploadHeldOnce'
    BY <1>12 DEF CommitDelete, UploadHeldOnce, Holds, CallShape, Unasked
  <1>13. ASSUME NEW c \in Caller, FailDelete(c) PROVE UploadHeldOnce'
    BY <1>13 DEF FailDelete, UploadHeldOnce, Holds, CallShape, Unasked
  <1>14. CASE UNCHANGED <<pending, attached, calls>>
    BY <1>14 DEF UploadHeldOnce, Holds
  <1>item. ASSUME NEW c \in Caller, NEW u \in Upload, CompleteForItem(c, u)
           PROVE  UploadHeldOnce'
    <2>1. UNCHANGED <<pending, attached>> /\ route[u] # "agent"
      BY <1>item DEF CompleteForItem
    <2>2. CASE KeysFree({u})
      <3>1. calls' = [calls EXCEPT
                        ![c] = [at |-> "written", uploads |-> {u}, taken |-> {u}]]
        BY <1>item, <2>2 DEF CompleteForItem, WriteAtOnce
      <3>2. {u} \in SUBSET Upload /\ \A v \in {u} : route[v] # "agent"
        BY <2>1
      <3>. HIDE DEF UploadsInv, UploadTypeOK
      <3>. QED BY <2>1, <2>2, <3>1, <3>2, WrittenAtOnce
    <2>3. CASE ~ KeysFree({u})
      BY <1>item, <2>1, <2>3 DEF CompleteForItem, UploadHeldOnce, Holds
    <2>. QED BY <2>2, <2>3
  <1>. HIDE DEF UploadsInv, UploadTypeOK
  <1>. QED
    <2>1. ASSUME NEW u \in Upload, UploadStep(u) PROVE UploadHeldOnce'
      BY <2>1, <1>1, <1>2, <1>14 DEF UploadStep, Presign, Put, CompleteForForm, Validate, Sweep
    <2>2. ASSUME NEW c \in Caller, CallStep(c) PROVE UploadHeldOnce'
      BY <2>2, <1>item, <1>3, <1>4, <1>5, <1>6, <1>7, <1>8, <1>9, <1>10, <1>11,
         <1>12, <1>13 DEF CallStep
    <2>. QED BY <2>1, <2>2 DEF UploadNext

\* Every step that takes an agent's upload out of Redis hands it on or
\* records why it is over.
LEMMA ForgottenStep == UploadsInv /\ UploadNext => NoUploadForgotten'
  <1>. SUFFICES ASSUME UploadsInv, UploadNext PROVE NoUploadForgotten'
    OBVIOUS
  <1>. USE DEF UploadsInv, UploadTypeOK, CallState, NoCall, NoRoute
  <1>1. ASSUME NEW u \in Upload, NEW r \in Route, Presign(u, r)
        PROVE  NoUploadForgotten'
    BY <1>1 DEF Presign, NoUploadForgotten, Holds, CallShape
  <1>2. ASSUME NEW u \in Upload, Prepare(u) PROVE NoUploadForgotten'
    BY <1>2 DEF Prepare, NoUploadForgotten, Holds, CallShape
  <1>3. ASSUME NEW u \in Upload, Forget(u) PROVE NoUploadForgotten'
    BY <1>3 DEF Forget, NoUploadForgotten, Holds
  <1>4. ASSUME NEW u \in Upload, Sweep(u) PROVE NoUploadForgotten'
    BY <1>4 DEF Sweep, NoUploadForgotten, Holds, CallShape
  <1>5. ASSUME NEW c \in Caller, NEW S \in SUBSET Upload, Check(c, S)
        PROVE  NoUploadForgotten'
    BY <1>5 DEF Check, NoUploadForgotten, Holds, CallShape
  <1>6. ASSUME NEW c \in Caller, NEW S \in SUBSET Upload, FileForm(c, S)
        PROVE  NoUploadForgotten'
    BY <1>6 DEF FileForm, WriteAtOnce, NoUploadForgotten, Holds, CallShape, KeysFree
  <1>7. ASSUME NEW c \in Caller, NEW u \in Upload, Take(c, u)
        PROVE  NoUploadForgotten'
    BY <1>7 DEF Take, NoUploadForgotten, Holds, CallShape
  <1>8. ASSUME NEW c \in Caller, NEW u \in Upload, Confirm(c, u)
        PROVE  NoUploadForgotten'
    BY <1>8 DEF Confirm, WriteAtOnce, NoUploadForgotten, Holds, CallShape, KeysFree
  <1>9. ASSUME NEW c \in Caller, NEW u \in Upload, Delete(c, u)
        PROVE  NoUploadForgotten'
    BY <1>9 DEF Delete, NoUploadForgotten, Holds, CallShape
  <1>10. ASSUME NEW c \in Caller, Refuse(c) PROVE NoUploadForgotten'
    BY <1>10 DEF Refuse, NoUploadForgotten, Holds, CallShape
  <1>11. ASSUME NEW c \in Caller, Write(c) PROVE NoUploadForgotten'
    BY <1>11 DEF Write, NoUploadForgotten, Holds, CallShape, KeysFree
  <1>12. ASSUME NEW c \in Caller, Commit(c) PROVE NoUploadForgotten'
    BY <1>12 DEF Commit, NoUploadForgotten, Holds, CallShape
  <1>13. ASSUME NEW c \in Caller, Fail(c) PROVE NoUploadForgotten'
    BY <1>13 DEF Fail, NoUploadForgotten, Holds, CallShape
  <1>14. ASSUME NEW c \in Caller, CommitDelete(c) PROVE NoUploadForgotten'
    BY <1>14 DEF CommitDelete, NoUploadForgotten, Holds, CallShape
  <1>15. ASSUME NEW c \in Caller, FailDelete(c) PROVE NoUploadForgotten'
    BY <1>15 DEF FailDelete, NoUploadForgotten, Holds, CallShape
  <1>16. CASE UNCHANGED <<route, fate, pending, attached, calls>>
    BY <1>16 DEF NoUploadForgotten, Holds
  <1>item. ASSUME NEW c \in Caller, NEW u \in Upload, CompleteForItem(c, u)
           PROVE  NoUploadForgotten'
    BY <1>item DEF CompleteForItem, WriteAtOnce, NoUploadForgotten, Holds, CallShape
  <1>. HIDE DEF UploadsInv, UploadTypeOK
  <1>. QED BY <1>item, <1>1, <1>2, <1>3, <1>4, <1>5, <1>6, <1>7, <1>8, <1>9, <1>10, <1>11, <1>12,
     <1>13, <1>14, <1>15, <1>16 DEF UploadNext, UploadStep, CallStep, Put,
     CompleteForForm,
     Validate

\* A file that was seen is there, or its loss is recorded.
LEMMA SeenStep == UploadsInv /\ UploadNext => FileSeen'
  <1>. SUFFICES ASSUME UploadsInv, UploadNext PROVE FileSeen'
    OBVIOUS
  <1>. USE DEF UploadsInv, UploadTypeOK, CallState, NoCall, NoRoute
  <1>1. ASSUME NEW u \in Upload, Prepare(u) PROVE FileSeen'
    BY <1>1 DEF Prepare, Agents, FileSeen, Held, Holds, HasFile, UploadHeldOnce,
       RemovedIsOver,
       Removed, Unasked, Completed
  <1>2. ASSUME NEW u \in Upload, Put(u) PROVE FileSeen'
    BY <1>2 DEF Put, Agents, FileSeen, Held, Holds, HasFile, UploadHeldOnce, RemovedIsOver,
       Removed, Unasked, Completed
  <1>3. ASSUME NEW u \in Upload, CompleteForForm(u) PROVE FileSeen'
    BY <1>3 DEF CompleteForForm, Agents, FileSeen, Held, Holds, HasFile, UploadHeldOnce,
       RemovedIsOver, Removed, Unasked, Completed
  <1>4. ASSUME NEW u \in Upload, Forget(u) PROVE FileSeen'
    BY <1>4 DEF Forget, Agents, FileSeen, UploadHeldOnce, Held, Holds, HasFile
  <1>5. ASSUME NEW u \in Upload, Sweep(u) PROVE FileSeen'
    BY <1>5 DEF Sweep, Agents, FileSeen, Held, Holds, HasFile, UploadHeldOnce,
       RemovedIsOver,
       Removed, Unasked, Completed
  <1>6. ASSUME NEW c \in Caller, NEW S \in SUBSET Upload, Check(c, S)
        PROVE  FileSeen'
    BY <1>6 DEF Check, Agents, FileSeen, Held, Holds, HasFile, UploadHeldOnce,
       RemovedIsOver,
       Removed, Unasked, Completed
  <1>7. ASSUME NEW c \in Caller, NEW S \in SUBSET Upload, FileForm(c, S)
        PROVE  FileSeen'
    BY <1>7 DEF FileForm, WriteAtOnce, Agents, FileSeen, Held, Holds, HasFile, UploadHeldOnce,
       RemovedIsOver,
       Removed, Unasked, Completed, KeysFree
  <1>8. ASSUME NEW c \in Caller, NEW u \in Upload, Take(c, u) PROVE FileSeen'
    BY <1>8 DEF Take, Agents, FileSeen, Held, Holds, HasFile, UploadHeldOnce,
       RemovedIsOver,
       Removed, Unasked, Completed
  <1>9. ASSUME NEW c \in Caller, NEW u \in Upload, Confirm(c, u) PROVE FileSeen'
    BY <1>9 DEF Confirm, WriteAtOnce, Agents, FileSeen, Held, Holds, HasFile, UploadHeldOnce,
       RemovedIsOver,
       Removed, Unasked, Completed, KeysFree
  <1>10. ASSUME NEW c \in Caller, NEW u \in Upload, Delete(c, u) PROVE FileSeen'
    BY <1>10 DEF Delete, Agents, FileSeen, Held, Holds, HasFile, UploadHeldOnce,
       RemovedIsOver,
       Removed, Unasked, Completed
  <1>11. ASSUME NEW c \in Caller, Refuse(c) PROVE FileSeen'
    BY <1>11 DEF Refuse, Agents, FileSeen, Held, Holds, HasFile, UploadHeldOnce,
       RemovedIsOver,
       Removed, Unasked, Completed
  <1>12. ASSUME NEW c \in Caller, Write(c) PROVE FileSeen'
    BY <1>12 DEF Write, Agents, FileSeen, Held, Holds, HasFile, UploadHeldOnce,
       RemovedIsOver,
       Removed, Unasked, Completed, KeysFree
  <1>13. ASSUME NEW c \in Caller, Commit(c) PROVE FileSeen'
    BY <1>13 DEF Commit, Agents, FileSeen, Held, Holds, HasFile, UploadHeldOnce,
       RemovedIsOver,
       Removed, Unasked, Completed
  <1>14. ASSUME NEW c \in Caller, Fail(c) PROVE FileSeen'
    BY <1>14 DEF Fail, Agents, FileSeen, Held, Holds, HasFile, UploadHeldOnce,
       RemovedIsOver,
       Removed, Unasked, Completed
  <1>15. ASSUME NEW c \in Caller, CommitDelete(c) PROVE FileSeen'
    BY <1>15 DEF CommitDelete, Agents, FileSeen, Held, Holds, HasFile, UploadHeldOnce,
       RemovedIsOver, Removed, Unasked, Completed
  <1>16. ASSUME NEW c \in Caller, FailDelete(c) PROVE FileSeen'
    BY <1>16 DEF FailDelete, Agents, FileSeen, Held, Holds, HasFile, UploadHeldOnce,
       RemovedIsOver, Removed, Unasked, Completed
  <1>17. ASSUME NEW u \in Upload, NEW r \in Route, Presign(u, r) PROVE FileSeen'
    BY <1>17 DEF Presign, Agents, FileSeen, Held, Holds, HasFile
  <1>18. CASE UNCHANGED <<route, attached, calls, pending, file, fate>>
    BY <1>18 DEF Agents, FileSeen, Held, Holds, HasFile
  <1>item. ASSUME NEW c \in Caller, NEW u \in Upload, CompleteForItem(c, u)
           PROVE  FileSeen'
    <2>1. route' = route /\ route[u] = "item" /\ UNCHANGED <<pending, attached, fate>>
      BY <1>item DEF CompleteForItem
    <2>2. \A v \in Upload : route[v] = "agent" => file'[v] = file[v]
      BY <1>item DEF CompleteForItem, Completed
    <2>3. \A d \in Caller, v \in Upload : route[v] = "agent" =>
            /\ Holds(d, v)' => Holds(d, v)
            /\ calls'[d].at = "checked" /\ v \in calls'[d].uploads =>
                 calls[d].at = "checked" /\ v \in calls[d].uploads
      <3>1. CASE KeysFree({u})
        BY <1>item, <3>1 DEF CompleteForItem, WriteAtOnce, Holds
      <3>2. CASE ~ KeysFree({u})
        BY <1>item, <3>2 DEF CompleteForItem, Holds
      <3>. QED BY <3>1, <3>2
    <2>. QED BY <2>1, <2>2, <2>3 DEF Agents, FileSeen, Held, HasFile
  <1>. HIDE DEF UploadsInv, UploadTypeOK
  <1>. QED
    <2>1. ASSUME NEW u \in Upload, UploadStep(u) PROVE FileSeen'
      BY <2>1, <1>1, <1>2, <1>3, <1>4, <1>5, <1>17, <1>18 DEF UploadStep, Validate
    <2>2. ASSUME NEW c \in Caller, CallStep(c) PROVE FileSeen'
      BY <2>2, <1>item, <1>6, <1>7, <1>8, <1>9, <1>10, <1>11, <1>12, <1>13, <1>14, <1>15,
       <1>16 DEF CallStep
    <2>. QED BY <2>1, <2>2 DEF UploadNext

\* What was deleted is neither pending nor held, and stays so.
LEMMA RemovedStep == UploadsInv /\ UploadNext => RemovedIsOver'
  <1>. SUFFICES ASSUME UploadsInv, UploadNext PROVE RemovedIsOver'
    OBVIOUS
  <1>. USE DEF UploadsInv, UploadTypeOK, CallState, NoCall, NoRoute
  <1>1. ASSUME NEW u \in Upload, Prepare(u) PROVE RemovedIsOver'
    BY <1>1 DEF Prepare, Agents, RemovedIsOver, Removed, Held, Holds, UploadHeldOnce,
       CallShape,
       Unasked, FileSeen, HasFile, Completed
  <1>2. ASSUME NEW u \in Upload, Put(u) PROVE RemovedIsOver'
    BY <1>2 DEF Put, Agents, RemovedIsOver, Removed, Held, Holds, UploadHeldOnce,
       CallShape,
       Unasked, FileSeen, HasFile, Completed
  <1>3. ASSUME NEW u \in Upload, CompleteForForm(u) PROVE RemovedIsOver'
    BY <1>3 DEF CompleteForForm, Agents, RemovedIsOver, Removed, Held, Holds,
       UploadHeldOnce,
       CallShape, Unasked, FileSeen, HasFile, Completed
  <1>4. ASSUME NEW u \in Upload, Forget(u) PROVE RemovedIsOver'
    BY <1>4 DEF Forget, Agents, RemovedIsOver, Removed, Held, Holds
  <1>5. ASSUME NEW u \in Upload, Sweep(u) PROVE RemovedIsOver'
    BY <1>5 DEF Sweep, Agents, RemovedIsOver, Removed, Held, Holds, UploadHeldOnce,
       CallShape,
       Unasked, FileSeen, HasFile, Completed
  <1>6. ASSUME NEW c \in Caller, NEW S \in SUBSET Upload, Check(c, S)
        PROVE  RemovedIsOver'
    BY <1>6 DEF Check, Agents, RemovedIsOver, Removed, Held, Holds, UploadHeldOnce,
       CallShape,
       Unasked, FileSeen, HasFile, Completed
  <1>7. ASSUME NEW c \in Caller, NEW S \in SUBSET Upload, FileForm(c, S)
        PROVE  RemovedIsOver'
    BY <1>7 DEF FileForm, WriteAtOnce, Agents, RemovedIsOver, Removed, Held, Holds, UploadHeldOnce,
       CallShape, Unasked, FileSeen, HasFile, Completed, KeysFree
  <1>8. ASSUME NEW c \in Caller, NEW u \in Upload, Take(c, u)
        PROVE  RemovedIsOver'
    BY <1>8 DEF Take, Agents, RemovedIsOver, Removed, Held, Holds, UploadHeldOnce,
       CallShape,
       Unasked, FileSeen, HasFile, Completed
  <1>9. ASSUME NEW c \in Caller, NEW u \in Upload, Confirm(c, u)
        PROVE  RemovedIsOver'
    BY <1>9 DEF Confirm, WriteAtOnce, Agents, RemovedIsOver, Removed, Held, Holds, UploadHeldOnce,
       CallShape,
       Unasked, FileSeen, HasFile, Completed, KeysFree
  <1>10. ASSUME NEW c \in Caller, NEW u \in Upload, Delete(c, u)
         PROVE  RemovedIsOver'
    BY <1>10 DEF Delete, Agents, RemovedIsOver, Removed, Held, Holds, UploadHeldOnce,
       CallShape,
       Unasked, FileSeen, HasFile, Completed
  <1>11. ASSUME NEW c \in Caller, Refuse(c) PROVE RemovedIsOver'
    BY <1>11 DEF Refuse, Agents, RemovedIsOver, Removed, Held, Holds, UploadHeldOnce,
       CallShape,
       Unasked, FileSeen, HasFile, Completed
  <1>12. ASSUME NEW c \in Caller, Write(c) PROVE RemovedIsOver'
    BY <1>12 DEF Write, Agents, RemovedIsOver, Removed, Held, Holds, UploadHeldOnce,
       CallShape,
       Unasked, FileSeen, HasFile, Completed, KeysFree
  <1>13. ASSUME NEW c \in Caller, Commit(c) PROVE RemovedIsOver'
    BY <1>13 DEF Commit, Agents, RemovedIsOver, Removed, Held, Holds, UploadHeldOnce,
       CallShape,
       Unasked, FileSeen, HasFile, Completed
  <1>14. ASSUME NEW c \in Caller, Fail(c) PROVE RemovedIsOver'
    BY <1>14 DEF Fail, Agents, RemovedIsOver, Removed, Held, Holds, UploadHeldOnce,
       CallShape,
       Unasked, FileSeen, HasFile, Completed
  <1>15. ASSUME NEW c \in Caller, CommitDelete(c) PROVE RemovedIsOver'
    BY <1>15 DEF CommitDelete, Agents, RemovedIsOver, Removed, Held, Holds, UploadHeldOnce,
       CallShape, Unasked, FileSeen, HasFile, Completed
  <1>16. ASSUME NEW c \in Caller, FailDelete(c) PROVE RemovedIsOver'
    BY <1>16 DEF FailDelete, Agents, RemovedIsOver, Removed, Held, Holds, UploadHeldOnce,
       CallShape, Unasked, FileSeen, HasFile, Completed
  <1>17. ASSUME NEW u \in Upload, NEW r \in Route, Presign(u, r) PROVE RemovedIsOver'
    BY <1>17 DEF Presign, Agents, RemovedIsOver, Removed, Held, Holds
  <1>18. CASE UNCHANGED <<route, attached, calls, pending, fate>>
    BY <1>18 DEF Agents, RemovedIsOver, Removed, Held, Holds
  <1>item. ASSUME NEW c \in Caller, NEW u \in Upload, CompleteForItem(c, u)
           PROVE  RemovedIsOver'
    BY <1>item DEF CompleteForItem, WriteAtOnce, Agents, RemovedIsOver, Removed,
       Held, Holds
  <1>. HIDE DEF UploadsInv, UploadTypeOK
  <1>. QED BY <1>item, <1>1, <1>2, <1>3, <1>4, <1>5, <1>6, <1>7, <1>8, <1>9, <1>10, <1>11, <1>12,
     <1>13, <1>14, <1>15, <1>16, <1>17, <1>18 DEF UploadNext, UploadStep, CallStep, Validate

\* A job has its row, or the row was deleted since.
LEMMA JobStep == UploadsInv /\ UploadNext => ValidatedRowExisted'
  <1>. SUFFICES ASSUME UploadsInv, UploadNext PROVE ValidatedRowExisted'
    OBVIOUS
  <1>. USE DEF UploadsInv, UploadTypeOK, CallState, NoCall, NoRoute
  <1>1. ASSUME NEW u \in Upload, Forget(u) PROVE ValidatedRowExisted'
    BY <1>1 DEF Forget, ValidatedRowExisted, Agents, RemovedIsOver, Removed,
       UploadHeldOnce,
       Held, Holds
  <1>2. ASSUME NEW u \in Upload, Validate(u) PROVE ValidatedRowExisted'
    BY <1>2 DEF Validate, ValidatedRowExisted, Agents, RemovedIsOver, Removed,
       UploadHeldOnce,
       Held, Holds
  <1>3. ASSUME NEW u \in Upload, Sweep(u) PROVE ValidatedRowExisted'
    BY <1>3 DEF Sweep, ValidatedRowExisted, Agents, RemovedIsOver, Removed, UploadHeldOnce,
       Held, Holds
  <1>4. ASSUME NEW c \in Caller, NEW u \in Upload, Delete(c, u)
        PROVE  ValidatedRowExisted'
    BY <1>4 DEF Delete, ValidatedRowExisted, Agents, RemovedIsOver, Removed,
       UploadHeldOnce,
       Held, Holds
  <1>5. ASSUME NEW c \in Caller, Commit(c) PROVE ValidatedRowExisted'
    BY <1>5 DEF Commit, ValidatedRowExisted, Agents, RemovedIsOver, Removed,
       UploadHeldOnce,
       Held, Holds
  <1>6. ASSUME NEW c \in Caller, Fail(c) PROVE ValidatedRowExisted'
    BY <1>6 DEF Fail, ValidatedRowExisted, Agents, RemovedIsOver, Removed, UploadHeldOnce,
       Held,
       Holds
  <1>7. ASSUME NEW c \in Caller, CommitDelete(c) PROVE ValidatedRowExisted'
    BY <1>7 DEF CommitDelete, ValidatedRowExisted, Agents, RemovedIsOver, Removed,
       UploadHeldOnce, Held, Holds
  <1>8. CASE UNCHANGED <<job, attached, fate>>
    BY <1>8 DEF ValidatedRowExisted
  <1>. HIDE DEF UploadsInv, UploadTypeOK
  <1>. QED BY <1>1, <1>2, <1>3, <1>4, <1>5, <1>6, <1>7, <1>8 DEF UploadNext, UploadStep,
     CallStep, Presign, Prepare, Put, CompleteForForm, Check,
     FileForm, Take, Confirm, CompleteForItem,
     Refuse, Write, FailDelete

LEMMA UploadsInit == UploadInit => UploadsInv
  BY DEF UploadInit, UploadsInv, UploadTypeOK, CallState, NoCall, File, Fate,
     NoRoute, CallShape,
         PartsAreLarge, Unasked, UploadHeldOnce, NoUploadForgotten, FileSeen,
         RemovedIsOver, Removed, Agents, HasFile, Held, Holds, ValidatedRowExisted

LEMMA UploadsStep == UploadsInv /\ [UploadNext]_(uploadVars) => UploadsInv'
  <1>. SUFFICES ASSUME UploadsInv, [UploadNext]_(uploadVars) PROVE UploadsInv'
    OBVIOUS
  <1>1. CASE UploadNext
    BY <1>1, TypeStep, ShapeStep, PartsStep, UnaskedStep, HeldStep, ForgottenStep,
       SeenStep, RemovedStep, JobStep DEF UploadsInv
  <1>2. CASE UNCHANGED uploadVars
    BY <1>2 DEF uploadVars, UploadsInv, UploadTypeOK, CallShape, PartsAreLarge, Unasked,
                UploadHeldOnce, NoUploadForgotten, FileSeen, RemovedIsOver, Removed,
                Agents, HasFile, Held, Holds, ValidatedRowExisted
  <1>. QED BY <1>1, <1>2

LEMMA UploadsInvariant == UploadSpec => []UploadsInv
  BY UploadsInit, UploadsStep, PTL DEF UploadSpec

\* The state keeps its shape, whatever the number of uploads and calls.
THEOREM UploadsTypeCorrect == UploadSpec => []UploadTypeOK
  <1>1. UploadsInv => UploadTypeOK
    BY DEF UploadsInv
  <1>. QED BY <1>1, UploadsInvariant, PTL

\* However many calls name the same uploads, each upload is consumed once
\* (_attach_uploads).
THEOREM ConsumedOnce == UploadSpec => []UploadHeldOnce
  <1>1. UploadsInv => UploadHeldOnce
    BY DEF UploadsInv
  <1>. QED BY <1>1, UploadsInvariant, PTL

\* No upload of an agent disappears with a refusal (_attach_uploads).
THEOREM RefusalPutsBack == UploadSpec => []NoUploadForgotten
  <1>1. UploadsInv => NoUploadForgotten
    BY DEF UploadsInv
  <1>. QED BY <1>1, UploadsInvariant, PTL

\* An attachment an agent made has its file until a bucket rule or its deletion
\* takes it (_uploads_ready, AttachmentService.delete, ensure_lifecycle_policy).
THEOREM RowsHaveFiles == UploadSpec => []FileBehindRow
  <1>1. UploadsInv => FileBehindRow
    BY DEF UploadsInv, UploadTypeOK, FileSeen, FileBehindRow, HasFile, Agents
  <1>. QED BY <1>1, UploadsInvariant, PTL

\* A validation job is never sent for a row that was not committed
\* (_validate_after_commit, _forget_after_rollback).
THEOREM JobsHaveRows == UploadSpec => []ValidatedRowExisted
  <1>1. UploadsInv => ValidatedRowExisted
    BY DEF UploadsInv
  <1>. QED BY <1>1, UploadsInvariant, PTL
=============================================================================

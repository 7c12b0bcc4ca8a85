--------------------------- MODULE Ingest_proofs ---------------------------
(***************************************************************************)
(* What holds of Ingest for every set of players, senders, puzzles,        *)
(* scores, times and callers.                                              *)
(***************************************************************************)
EXTENDS Ingest, TLAPS

\* What a submission in flight carries has passed Validate, and so still agrees
\* with itself when it is written; and only a sender's is held.
CallsSound ==
  \A c \in Callers : calls[c] # NoCall =>
    /\ Agrees(calls[c].post)
    /\ calls[c].stage = "hold" => calls[c].sender \in Senders

\* The inductive invariant.  GridsAgree needs CallsSound; IdentityOnRows is what
\* keeps a hand-entered row out of a move.
IInv == TypeOK /\ IdentityOnRows /\ GridsAgree /\ RowsHavePlayers /\ CallsSound

GridOf(row) == row.grid \in {NoGrid, row.score}

-----------------------------------------------------------------------------
(* UpsertResult and the operators built on it. *)

\* UpsertResult leaves a row of the schema.
LEMMA UpsertedType ==
  ASSUME NEW old \in Row \cup {NoResult}, NEW post \in Post,
         NEW by \in {"token", "hand"}, NEW id \in Senders \cup {NoSender}
  PROVE  Upserted(old, post, by, id) \in Row
<1>1. CASE Refused(old, by)
  BY <1>1 DEF Upserted, Refused
<1>2. CASE ~Refused(old, by) /\ old = NoResult
  BY <1>2 DEF Upserted, Inserted, Post, Row
<1>3. CASE ~Refused(old, by) /\ old # NoResult
  <2>1. old \in Row
    BY <1>3
  <2>2. FirstPosted(old.posted, post.posted) \in Times \cup {Never}
    BY <2>1 DEF FirstPosted, Post, Row
  <2>3. KeptGrid(old, post) \in Scores \cup {NoGrid}
    BY <2>1 DEF KeptGrid, Post, Row
  <2>4. Updated(old, post, by, id) \in Row
    BY <2>1, <2>2, <2>3 DEF Updated, Post, Row
  <2>5. QED
    BY <1>3, <2>4 DEF Upserted
<1>4. QED
  BY <1>1, <1>2, <1>3

\* UpsertResult never leaves squares of another score.
LEMMA UpsertedGrid ==
  ASSUME NEW old \in Row \cup {NoResult}, NEW post \in Post,
         NEW by \in {"token", "hand"}, NEW id \in Senders \cup {NoSender},
         Agrees(post), old # NoResult => GridOf(old)
  PROVE  GridOf(Upserted(old, post, by, id))
<1>1. CASE Refused(old, by)
  BY <1>1 DEF Upserted, Refused
<1>2. CASE ~Refused(old, by) /\ old = NoResult
  BY <1>2 DEF Upserted, Inserted, GridOf, Agrees
<1>3. CASE ~Refused(old, by) /\ old # NoResult
  <2>1. KeptGrid(old, post) \in {NoGrid, post.score}
    BY <1>3 DEF KeptGrid, GridOf, Agrees
  <2>2. QED
    BY <1>3, <2>1 DEF Upserted, Updated, GridOf
<1>4. QED
  BY <1>1, <1>2, <1>3

\* UpsertResult refuses, or leaves the writer's mark; and a hand is never refused.
LEMMA UpsertedMark ==
  ASSUME NEW old \in Row \cup {NoResult}, NEW post \in Post,
         NEW by \in {"token", "hand"}, NEW id \in Senders \cup {NoSender}
  PROVE  LET new == Upserted(old, post, by, id) IN
         \/ by = "token" /\ ByHand(old) /\ new = old
         \/ ~(by = "token" /\ ByHand(old)) /\ new.by = by /\ new.identity = id
  BY DEF Upserted, Refused, Inserted, Updated, ByHand

\* UpsertResult keeps a time of posting that is there.
LEMMA UpsertedPosted ==
  ASSUME NEW old \in Row, NEW post \in Post,
         NEW by \in {"token", "hand"}, NEW id \in Senders \cup {NoSender},
         old.posted # Never
  PROVE  Upserted(old, post, by, id).posted = old.posted
<1>1. old # NoResult
  BY NullsAreDistinct
<1>2. QED
  BY <1>1 DEF Upserted, Refused, Updated, FirstPosted

Column == [Puzzles -> Row \cup {NoResult}]

GoodColumn(column) == \A z \in Puzzles : column[z] # NoResult => GridOf(column[z])

\* Replaying what is held for a sender leaves each row as it was, or as
\* UpsertResult leaves it, written for that sender.
LEMMA ReplayedColumn ==
  ASSUME TypeOK, GridsAgree, NEW column \in Column, NEW s \in Senders, GoodColumn(column)
  PROVE  /\ Replayed(column, s) \in Column
         /\ GoodColumn(Replayed(column, s))
         /\ \A z \in Puzzles :
              \/ pending[s][z] = NoHeld /\ Replayed(column, s)[z] = column[z]
              \/ /\ pending[s][z] # NoHeld
                 /\ Replayed(column, s)[z] \in Row
                 /\ \/ ByHand(column[z]) /\ Replayed(column, s)[z] = column[z]
                    \/ /\ ~ByHand(column[z])
                       /\ Replayed(column, s)[z].by = "token"
                       /\ Replayed(column, s)[z].identity = s
<1> SUFFICES ASSUME NEW z \in Puzzles
             PROVE  /\ Replayed(column, s)[z] \in Row \cup {NoResult}
                    /\ Replayed(column, s)[z] # NoResult => GridOf(Replayed(column, s)[z])
                    /\ \/ pending[s][z] = NoHeld /\ Replayed(column, s)[z] = column[z]
                       \/ /\ pending[s][z] # NoHeld
                          /\ Replayed(column, s)[z] \in Row
                          /\ \/ ByHand(column[z]) /\ Replayed(column, s)[z] = column[z]
                             \/ /\ ~ByHand(column[z])
                                /\ Replayed(column, s)[z].by = "token"
                                /\ Replayed(column, s)[z].identity = s
  BY DEF Column, GoodColumn, Replayed
<1>1. CASE pending[s][z] = NoHeld
  BY <1>1 DEF Replayed, Column, GoodColumn
<1>2. CASE pending[s][z] # NoHeld
  <2> DEFINE new == Upserted(column[z], pending[s][z], "token", s)
  <2>1. column[z] \in Row \cup {NoResult}
    BY DEF Column
  <2>2. pending[s][z] \in Post /\ Agrees(pending[s][z])
    BY <1>2 DEF TypeOK, GridsAgree
  <2>3. column[z] # NoResult => GridOf(column[z])
    BY DEF GoodColumn
  <2>4. new \in Row
    BY <2>1, <2>2, UpsertedType
  <2>5. GridOf(new)
    BY <2>1, <2>2, <2>3, UpsertedGrid
  <2>6. \/ ByHand(column[z]) /\ new = column[z]
        \/ ~ByHand(column[z]) /\ new.by = "token" /\ new.identity = s
    BY <2>1, <2>2, UpsertedMark
  <2>7. Replayed(column, s)[z] = new
    BY <1>2 DEF Replayed
  <2> HIDE DEF new
  <2>8. QED
    BY <1>2, <2>4, <2>5, <2>6, <2>7
<1>3. QED
  BY <1>1, <1>2

\* The columns of a well-formed state are well formed.
LEMMA Columns ==
  ASSUME TypeOK, GridsAgree
  PROVE  \A p \in Players : results[p] \in Column /\ GoodColumn(results[p])
  BY DEF TypeOK, GridsAgree, Column, GoodColumn, GridOf

-----------------------------------------------------------------------------
(* The inductive invariant, one lemma per group of actions. *)

\* The empty database satisfies the invariant.
LEMMA InitInv == Init => IInv
  BY NullsAreDistinct, NoCallIsNoCall
  DEF Init, StoreInit, IInv, TypeOK, IdentityOnRows, GridsAgree, RowsHavePlayers, CallsSound,
      Status, Exists

\* Starting, failing and crashing calls touch nothing that is stored.
LEMMA StartInv ==
  ASSUME IInv, NEW c \in Callers, NEW z \in Puzzles, NEW post \in Posts,
         \/ \E s \in Senders, live \in BOOLEAN : ApplyFromSender(c, s, z, post, live)
         \/ \E p \in Players : ApplyNamed(c, p, z, post)
  PROVE  IInv'
<1>1. post \in Post /\ Agrees(post)
  BY PostsValidated
<1>2. \E call \in Call : /\ calls' = [calls EXCEPT ![c] = call]
                         /\ call.post = post
                         /\ call.stage = "hold" => call.sender \in Senders
  <2>1. ASSUME NEW s \in Senders, NEW live \in BOOLEAN, ApplyFromSender(c, s, z, post, live)
        PROVE  <1>2
    <3> DEFINE call == [stage |-> IF identityOf[s] = NoPlayer THEN "hold" ELSE "write",
                        sender |-> s, player |-> NoPlayer, puzzle |-> z, post |-> post,
                        live |-> live]
    <3>1. call \in Call
      BY <1>1 DEF Call
    <3>2. QED
      BY <2>1, <3>1 DEF ApplyFromSender
  <2>2. ASSUME NEW p \in Players, ApplyNamed(c, p, z, post)
        PROVE  <1>2
    <3> DEFINE call == [stage |-> "write", sender |-> NoSender, player |-> p,
                        puzzle |-> z, post |-> post, live |-> FALSE]
    <3>1. call \in Call
      BY <1>1 DEF Call
    <3>2. QED
      BY <2>2, <3>1 DEF ApplyNamed
  <2>3. QED
    BY <2>1, <2>2
<1>3. UNCHANGED storeVars
  BY DEF ApplyFromSender, ApplyNamed
<1>4. QED
  BY <1>1, <1>2, <1>3, NoCallIsNoCall DEF IInv, TypeOK, IdentityOnRows, GridsAgree, RowsHavePlayers,
     CallsSound, Exists, storeVars

\* A call that ends without writing keeps it.
LEMMA EndInv ==
  ASSUME IInv, UNCHANGED storeVars, \A c \in Callers : calls'[c] \in {calls[c], NoCall},
         calls' \in [Callers -> Call \cup {NoCall}]
  PROVE  IInv'
  BY DEF IInv, TypeOK, IdentityOnRows, GridsAgree, RowsHavePlayers, CallsSound, Exists, storeVars

\* So does holding a result for a sender who looked unclaimed.
LEMMA HoldInv ==
  ASSUME IInv, NEW c \in Callers, Hold(c)
  PROVE  IInv'
<1> DEFINE s == calls[c].sender
           z == calls[c].puzzle
           held == Merged(pending[s][z], calls[c].post)
<1>1. calls[c] \in Call /\ Agrees(calls[c].post) /\ s \in Senders
  BY DEF Hold, IInv, TypeOK, CallsSound
<1>2. z \in Puzzles /\ calls[c].post \in Post
  BY <1>1 DEF Call
<1>3. held \in Post /\ Agrees(held)
  <2>1. CASE pending[s][z] = NoHeld
    BY <1>1, <1>2, <2>1 DEF Merged
  <2>2. CASE pending[s][z] # NoHeld
    <3>1. pending[s][z] \in Post
      BY <1>1, <1>2, <2>2 DEF IInv, TypeOK
    <3>2. FirstPosted(pending[s][z].posted, calls[c].post.posted) \in Times \cup {Never}
      BY <1>2, <3>1 DEF FirstPosted, Post
    <3>3. QED
      BY <1>1, <1>2, <2>2, <3>2 DEF Merged, Post, Agrees
  <2>3. QED
    BY <2>1, <2>2
<1>4. pending' = [pending EXCEPT ![s][z] = held]
  BY DEF Hold, HoldPendingResult
<1> HIDE DEF held
<1>5. TypeOK'
  BY <1>1, <1>2, <1>3, <1>4 DEF IInv, TypeOK, Hold, HoldPendingResult, Finish
<1>6. GridsAgree'
  BY <1>1, <1>2, <1>3, <1>4 DEF IInv, TypeOK, GridsAgree, Hold, HoldPendingResult
<1>7. QED
  BY <1>5, <1>6 DEF IInv, TypeOK, IdentityOnRows, RowsHavePlayers, CallsSound, Exists,
     Hold, HoldPendingResult, Finish

\* A step that changes results in one player's column only.
LEMMA ColumnInv ==
  ASSUME IInv, NEW p \in Players, NEW column \in Column, GoodColumn(column),
         results' = [results EXCEPT ![p] = column],
         \A z \in Puzzles : column[z] # results[p][z] =>
           \/ column[z] = NoResult
           \/ column[z].identity = NoSender
           \/ /\ column[z].by = "token"
              /\ column[z].identity \in Senders
              /\ identityOf'[column[z].identity] \in Players,
         \A s \in Senders : identityOf[s] # NoPlayer => identityOf'[s] # NoPlayer,
         \A s \in Senders : identityOf'[s] \in {identityOf[s], p},
         identityOf' \in [Senders -> Players \cup {NoPlayer}],
         member' \in [Players -> Status], member'[p] # "absent",
         \A q \in Players : member[q] # "absent" => member'[q] # "absent",
         \A s \in Senders : pending'[s] \in {pending[s], NothingHeld},
         pending' \in [Senders -> [Puzzles -> Post \cup {NoHeld}]],
         \A c \in Callers : calls'[c] \in {calls[c], NoCall},
         calls' \in [Callers -> Call \cup {NoCall}]
  PROVE  IInv'
<1>1. TypeOK'
  BY DEF IInv, TypeOK, Column
<1>2. IdentityOnRows'
  <2> SUFFICES ASSUME NEW q \in Players, NEW z \in Puzzles,
                      results'[q][z] # NoResult, results'[q][z].identity # NoSender
               PROVE  /\ results'[q][z].by = "token"
                      /\ identityOf'[results'[q][z].identity] # NoPlayer
    BY DEF IdentityOnRows
  <2>1. CASE results'[q][z] = results[q][z]
    <3>1. results[q][z].identity \in Senders
      BY <2>1 DEF IInv, TypeOK, Row
    <3>2. QED
      BY <2>1, <3>1 DEF IInv, IdentityOnRows
  <2>2. CASE results'[q][z] # results[q][z]
    <3>1. q = p /\ results'[q][z] = column[z]
      BY <2>2 DEF IInv, TypeOK
    <3>2. QED
      BY <2>2, <3>1, NullsAreDistinct
  <2>3. QED
    BY <2>1, <2>2
<1>3. GridsAgree'
  <2>1. ASSUME NEW q \in Players, NEW z \in Puzzles, results'[q][z] # NoResult
        PROVE  results'[q][z].grid \in {NoGrid, results'[q][z].score}
    <3>1. CASE q = p
      BY <2>1, <3>1 DEF IInv, TypeOK, GoodColumn, GridOf
    <3>2. CASE q # p
      BY <2>1, <3>2 DEF IInv, TypeOK, GridsAgree
    <3>3. QED
      BY <3>1, <3>2
  <2>2. ASSUME NEW s \in Senders, NEW z \in Puzzles, pending'[s][z] # NoHeld
        PROVE  Agrees(pending'[s][z])
    BY <2>2 DEF IInv, GridsAgree, NothingHeld
  <2>3. QED
    BY <2>1, <2>2 DEF GridsAgree, Agrees
<1>4. RowsHavePlayers'
  BY DEF IInv, TypeOK, RowsHavePlayers, Exists
<1>5. CallsSound'
  BY DEF IInv, CallsSound
<1>6. QED
  BY <1>1, <1>2, <1>3, <1>4, <1>5 DEF IInv

\* So does filing a result for whoever the sender resolves to by then.
LEMMA WriteInv ==
  ASSUME IInv, NEW c \in Callers, Write(c)
  PROVE  IInv'
<1> DEFINE p == Target(calls[c])
           z == calls[c].puzzle
           id == calls[c].sender
           new == Upserted(results[p][z], calls[c].post, "token", id)
           column == [results[p] EXCEPT ![z] = new]
<1>1. calls[c] \in Call /\ Agrees(calls[c].post)
  BY DEF Write, IInv, TypeOK, CallsSound
<1>2. z \in Puzzles /\ calls[c].post \in Post /\ id \in Senders \cup {NoSender}
  BY <1>1 DEF Call
<1>3. p \in Players /\ member[p] # "absent" /\ (id # NoSender => identityOf[id] = p)
  BY <1>1, <1>2 DEF Write, CanWrite, Target, Exists, Call, IInv, TypeOK
<1>4. results[p] \in Column /\ GoodColumn(results[p])
  BY <1>3, Columns DEF IInv
<1>5. results[p][z] \in Row \cup {NoResult} /\ (results[p][z] # NoResult => GridOf(results[p][z]))
  BY <1>2, <1>4 DEF Column, GoodColumn
<1>6. new \in Row /\ GridOf(new)
  BY <1>1, <1>2, <1>5, UpsertedType, UpsertedGrid
<1>7. new # results[p][z] => new.by = "token" /\ new.identity = id
  BY <1>2, <1>5, UpsertedMark
<1>8. results' = [results EXCEPT ![p] = column]
  BY DEF Write, FileResult
<1> HIDE DEF new
<1>9. column \in Column /\ GoodColumn(column)
  BY <1>2, <1>4, <1>6 DEF Column, GoodColumn
<1>10. \A y \in Puzzles : column[y] # results[p][y] =>
         column[y].by = "token" /\ column[y].identity = id
  BY <1>2, <1>4, <1>7 DEF Column
<1>11. member' \in [Players -> Status] /\ member'[p] # "absent"
       /\ \A q \in Players : member[q] # "absent" => member'[q] # "absent"
  BY <1>3 DEF Write, FileResult, Reactivated, IInv, TypeOK, Status
<1>12. UNCHANGED <<identityOf, pending>> /\ calls' = [calls EXCEPT ![c] = NoCall]
  BY DEF Write, FileResult, Finish
<1> HIDE DEF column
<1>13. \A y \in Puzzles : column[y] # results[p][y] =>
           \/ column[y] = NoResult
           \/ column[y].identity = NoSender
           \/ /\ column[y].by = "token"
              /\ column[y].identity \in Senders
              /\ identityOf'[column[y].identity] \in Players
  BY <1>2, <1>3, <1>10, <1>12
<1>14. QED
  BY <1>3, <1>8, <1>9, <1>11, <1>12, <1>13, ColumnInv DEF IInv, TypeOK

\* A step that puts bare scores into a column by hand, or takes rows out of it.
LEMMA ByHandInv ==
  ASSUME IInv, NEW p \in Players, NEW column \in [Puzzles -> Row \cup {NoResult}],
         results' = [results EXCEPT ![p] = column],
         \A z \in Puzzles : \/ column[z] \in {results[p][z], NoResult}
                            \/ \E x \in Scores : column[z] =
                                 Upserted(results[p][z], Bare(x), "hand", NoSender),
         member' \in [Players -> Status], member'[p] # "absent",
         \A q \in Players : member[q] # "absent" => member'[q] # "absent",
         UNCHANGED <<identityOf, pending, calls>>
  PROVE  IInv'
<1>1. results[p] \in Column /\ GoodColumn(results[p])
  BY Columns DEF IInv
<1>2. ASSUME NEW z \in Puzzles
      PROVE  /\ column[z] # NoResult => GridOf(column[z])
             /\ column[z] # results[p][z] =>
                  column[z] = NoResult \/ column[z].identity = NoSender
  <2>1. CASE column[z] \in {results[p][z], NoResult}
    BY <1>1, <2>1 DEF GoodColumn
  <2>2. ASSUME NEW x \in Scores,
               column[z] = Upserted(results[p][z], Bare(x), "hand", NoSender)
        PROVE  GridOf(column[z]) /\ column[z].identity = NoSender
    <3>1. Bare(x) \in Post /\ Agrees(Bare(x))
      BY DEF Bare, Post, Agrees
    <3>2. results[p][z] \in Row \cup {NoResult}
          /\ (results[p][z] # NoResult => GridOf(results[p][z]))
      BY <1>1 DEF Column, GoodColumn
    <3> DEFINE new == Upserted(results[p][z], Bare(x), "hand", NoSender)
    <3>3. GridOf(new)
      BY <3>1, <3>2, UpsertedGrid
    <3>4. new.identity = NoSender
      BY DEF Upserted, Refused, Inserted, Updated
    <3>5. column[z] = new
      BY <2>2
    <3> HIDE DEF new
    <3>6. QED
      BY <3>3, <3>4, <3>5
  <2>3. QED
    BY <2>1, <2>2
<1>3. column \in Column /\ GoodColumn(column)
  BY <1>2 DEF Column, GoodColumn
<1>4. QED
  BY <1>2, <1>3, ColumnInv DEF IInv, TypeOK

\* So does every write by hand.
LEMMA HandStepInv ==
  ASSUME IInv, HandStep, UNCHANGED calls
  PROVE  IInv'
<1>1. ASSUME NEW p \in Players, NEW z \in Puzzles, NEW x \in Scores, SetResult(p, z, x)
      PROVE  IInv'
  <2> DEFINE column == [results[p] EXCEPT ![z] = Upserted(@, Bare(x), "hand", NoSender)]
  <2>1. results[p] \in [Puzzles -> Row \cup {NoResult}]
    BY DEF IInv, TypeOK
  <2>2. Upserted(results[p][z], Bare(x), "hand", NoSender) \in Row
    BY <2>1, UpsertedType DEF Bare, Post
  <2>3. column \in [Puzzles -> Row \cup {NoResult}]
    BY <2>1, <2>2
  <2>4. results' = [results EXCEPT ![p] = column]
    BY <1>1 DEF SetResult
  <2>5. \A y \in Puzzles : \/ column[y] \in {results[p][y], NoResult}
                           \/ \E w \in Scores : column[y] =
                                Upserted(results[p][y], Bare(w), "hand", NoSender)
    BY <2>1
  <2>6. UNCHANGED <<member, identityOf, pending>> /\ member[p] # "absent"
    BY <1>1 DEF SetResult, Exists
  <2> HIDE DEF column
  <2>7. QED
    BY <2>3, <2>4, <2>5, <2>6, ByHandInv DEF IInv, TypeOK
<1>2. ASSUME NEW p \in Players, NEW z \in Puzzles, DeleteResult(p, z)
      PROVE  IInv'
  <2> DEFINE column == [results[p] EXCEPT ![z] = NoResult]
  <2>1. column \in [Puzzles -> Row \cup {NoResult}]
    BY DEF IInv, TypeOK
  <2>2. results' = [results EXCEPT ![p] = column]
    BY <1>2 DEF DeleteResult
  <2>3. \A y \in Puzzles : column[y] \in {results[p][y], NoResult}
    BY DEF IInv, TypeOK
  <2>4. UNCHANGED <<member, identityOf, pending>> /\ member[p] # "absent"
    BY <1>2 DEF DeleteResult, IInv, RowsHavePlayers, Exists
  <2> HIDE DEF column
  <2>5. QED
    BY <2>1, <2>2, <2>3, <2>4, ByHandInv DEF IInv, TypeOK
<1>3. ASSUME NEW p \in Players, NEW status \in {"active", "left"}, NEW cells \in SUBSET Puzzles,
             NEW sheet \in [Puzzles -> Scores], Backfill(p, status, cells, sheet)
      PROVE  IInv'
  <2> DEFINE column == [y \in Puzzles |->
                          IF y \in cells THEN Upserted(results[p][y], Bare(sheet[y]), "hand", NoSender)
                          ELSE results[p][y]]
  <2>1. \A y \in Puzzles : results[p][y] \in Row \cup {NoResult} /\ sheet[y] \in Scores
    BY DEF IInv, TypeOK
  <2>2. \A y \in Puzzles : Upserted(results[p][y], Bare(sheet[y]), "hand", NoSender) \in Row
    BY <2>1, UpsertedType DEF Bare, Post
  <2>3. \A y \in Puzzles : \/ column[y] = results[p][y]
                           \/ column[y] = Upserted(results[p][y], Bare(sheet[y]), "hand", NoSender)
    OBVIOUS
  <2>4. results' = [results EXCEPT ![p] = column]
    BY <1>3 DEF Backfill
  <2>5. DOMAIN column = Puzzles /\ column = [y \in Puzzles |-> column[y]]
    OBVIOUS
  <2>6. /\ member' \in [Players -> Status] /\ member'[p] # "absent"
        /\ \A q \in Players : member[q] # "absent" => member'[q] # "absent"
        /\ UNCHANGED <<identityOf, pending>>
    BY <1>3 DEF Backfill, IInv, TypeOK, Status
  <2> HIDE DEF column
  <2>7. column \in [Puzzles -> Row \cup {NoResult}]
    BY <2>1, <2>2, <2>3, <2>5
  <2>8. \A y \in Puzzles : \/ column[y] \in {results[p][y], NoResult}
                           \/ \E x \in Scores : column[y] =
                                Upserted(results[p][y], Bare(x), "hand", NoSender)
    BY <2>1, <2>3
  <2>9. QED
    BY <1>3, <2>4, <2>6, <2>7, <2>8, ByHandInv
<1>4. QED
  BY <1>1, <1>2, <1>3 DEF HandStep

\* So does claiming a sender and replaying what was held for it.
LEMMA LinkInv ==
  ASSUME IInv, NEW p \in Players, NEW s \in Senders, LinkIdentity(p, s), UNCHANGED calls
  PROVE  IInv'
<1> DEFINE column == Replayed(results[p], s)
<1>1. results[p] \in Column /\ GoodColumn(results[p])
  BY Columns DEF IInv
<1>2. column \in Column /\ GoodColumn(column)
  BY <1>1, ReplayedColumn DEF IInv
<1>3. \A z \in Puzzles : column[z] # results[p][z] =>
        column[z].by = "token" /\ column[z].identity = s
  BY <1>1, ReplayedColumn DEF IInv
<1>4. results' = [results EXCEPT ![p] = column] /\ identityOf' = [identityOf EXCEPT ![s] = p]
      /\ pending' = [pending EXCEPT ![s] = NothingHeld] /\ UNCHANGED member /\ member[p] # "absent"
  BY DEF LinkIdentity, Exists
<1> HIDE DEF column
<1>5. identityOf'[s] = p
  BY <1>4 DEF IInv, TypeOK
<1>6. \A z \in Puzzles : column[z] # results[p][z] =>
           \/ column[z] = NoResult
           \/ column[z].identity = NoSender
           \/ /\ column[z].by = "token"
              /\ column[z].identity \in Senders
              /\ identityOf'[column[z].identity] \in Players
  BY <1>3, <1>5
<1>7. pending' \in [Senders -> [Puzzles -> Post \cup {NoHeld}]]
      /\ \A t \in Senders : pending'[t] \in {pending[t], NothingHeld}
  BY <1>4 DEF IInv, TypeOK, NothingHeld
<1>8. identityOf' \in [Senders -> Players \cup {NoPlayer}]
      /\ \A t \in Senders : /\ identityOf'[t] \in {identityOf[t], p}
                            /\ identityOf[t] # NoPlayer => identityOf'[t] # NoPlayer
  BY <1>4, NullsAreDistinct DEF IInv, TypeOK
<1>9. QED
  BY <1>2, <1>4, <1>6, <1>7, <1>8, ColumnInv DEF IInv, TypeOK

\* The second sender of a form replays over what the first one left.
LEMMA ReplayedTwice ==
  ASSUME TypeOK, GridsAgree, NEW column \in Column, GoodColumn(column),
         NEW s \in Senders, NEW t \in Senders
  PROVE  LET twice == Replayed(Replayed(column, s), t) IN
         /\ twice \in Column /\ GoodColumn(twice)
         /\ \A z \in Puzzles : twice[z] # column[z] =>
              twice[z].by = "token" /\ twice[z].identity \in {s, t}
<1> DEFINE once == Replayed(column, s)
           twice == Replayed(once, t)
<1>1. once \in Column /\ GoodColumn(once)
  BY ReplayedColumn
<1>2. \A z \in Puzzles : once[z] # column[z] => once[z].by = "token" /\ once[z].identity = s
  BY ReplayedColumn
<1> HIDE DEF once
<1>3. twice \in Column /\ GoodColumn(twice)
  BY <1>1, ReplayedColumn
<1>4. \A z \in Puzzles : twice[z] # once[z] => twice[z].by = "token" /\ twice[z].identity = t
  BY <1>1, ReplayedColumn
<1> HIDE DEF twice
<1>5. \A z \in Puzzles : twice[z] # column[z] =>
        twice[z].by = "token" /\ twice[z].identity \in {s, t}
  BY <1>2, <1>4
<1>6. QED
  BY <1>3, <1>5 DEF once, twice

\* So does making a player for one or two senders.
LEMMA CreateForInv ==
  ASSUME IInv, NEW p \in Players, NEW s \in Senders, NEW t \in Senders,
         CreatePlayerForSenders(p, s, t), UNCHANGED calls
  PROVE  IInv'
<1> DEFINE column == IF s = t THEN Replayed(results[p], s)
                     ELSE Replayed(Replayed(results[p], s), t)
<1>1. results[p] \in Column /\ GoodColumn(results[p])
  BY Columns DEF IInv
<1>2. /\ column \in Column /\ GoodColumn(column)
      /\ \A z \in Puzzles : column[z] # results[p][z] =>
           column[z].by = "token" /\ column[z].identity \in {s, t}
  <2>1. CASE s = t
    BY <1>1, <2>1, ReplayedColumn DEF IInv
  <2>2. CASE s # t
    BY <1>1, <2>2, ReplayedTwice DEF IInv
  <2>3. QED
    BY <2>1, <2>2
<1>3. /\ results' = [results EXCEPT ![p] = column]
      /\ identityOf' = [identityOf EXCEPT ![s] = p, ![t] = p]
      /\ pending' = [pending EXCEPT ![s] = NothingHeld, ![t] = NothingHeld]
      /\ member' = [member EXCEPT ![p] = "active"]
  BY DEF CreatePlayerForSenders
<1> HIDE DEF column
<1>4. identityOf'[s] = p /\ identityOf'[t] = p
  BY <1>3 DEF IInv, TypeOK
<1>5. \A z \in Puzzles : column[z] # results[p][z] =>
           \/ column[z] = NoResult
           \/ column[z].identity = NoSender
           \/ /\ column[z].by = "token"
              /\ column[z].identity \in Senders
              /\ identityOf'[column[z].identity] \in Players
  BY <1>2, <1>4
<1>6. pending' \in [Senders -> [Puzzles -> Post \cup {NoHeld}]]
      /\ \A u \in Senders : pending'[u] \in {pending[u], NothingHeld}
  BY <1>3 DEF IInv, TypeOK, NothingHeld
<1>7. identityOf' \in [Senders -> Players \cup {NoPlayer}]
      /\ \A u \in Senders : /\ identityOf'[u] \in {identityOf[u], p}
                            /\ identityOf[u] # NoPlayer => identityOf'[u] # NoPlayer
  BY <1>3, NullsAreDistinct DEF IInv, TypeOK
<1>8. member' \in [Players -> Status] /\ member'[p] # "absent"
      /\ \A q \in Players : member[q] # "absent" => member'[q] # "absent"
  BY <1>3 DEF IInv, TypeOK, Status
<1>9. QED
  BY <1>2, <1>3, <1>5, <1>6, <1>7, <1>8, ColumnInv DEF IInv, TypeOK

\* So does moving a sender, with or without its results.
LEMMA ReassignInv ==
  ASSUME IInv, NEW s \in Senders, NEW q \in Players, NEW move \in BOOLEAN,
         ReassignIdentity(s, q, move), UNCHANGED calls
  PROVE  IInv'
<1> DEFINE p == identityOf[s]
<1>1. /\ p \in Players /\ p # q /\ member[q] # "absent"
      /\ identityOf' = [identityOf EXCEPT ![s] = q] /\ UNCHANGED <<member, pending>>
  BY DEF ReassignIdentity, Exists, IInv, TypeOK
<1>2. results' = results \/ results' = Moved(s, p, q, Movable(s, p, q))
  BY DEF ReassignIdentity
<1>3. ASSUME NEW r \in Players, NEW z \in Puzzles
      PROVE  \/ results'[r][z] \in {results[r][z], NoResult}
             \/ r = q /\ results'[r][z] = results[p][z]
  BY <1>1, <1>2 DEF Moved, IInv, TypeOK
<1>4. results' \in [Players -> [Puzzles -> Row \cup {NoResult}]]
  BY <1>1, <1>2 DEF Moved, IInv, TypeOK
<1>5. TypeOK'
  BY <1>1, <1>4 DEF IInv, TypeOK
<1>6. \A t \in Senders : identityOf[t] # NoPlayer => identityOf'[t] # NoPlayer
  BY <1>1, NullsAreDistinct DEF IInv, TypeOK
<1>7. IdentityOnRows'
  <2> SUFFICES ASSUME NEW r \in Players, NEW z \in Puzzles,
                      results'[r][z] # NoResult, results'[r][z].identity # NoSender
               PROVE  /\ results'[r][z].by = "token"
                      /\ identityOf'[results'[r][z].identity] # NoPlayer
    BY DEF IdentityOnRows
  <2>1. PICK o \in Players : results'[r][z] = results[o][z]
    BY <1>1, <1>3
  <2>2. results[o][z].identity \in Senders
    BY <2>1 DEF IInv, TypeOK, Row
  <2>3. QED
    BY <1>6, <2>1, <2>2 DEF IInv, IdentityOnRows
<1>8. GridsAgree'
  BY <1>1, <1>3 DEF IInv, GridsAgree, Agrees
<1>9. RowsHavePlayers'
  BY <1>1, <1>3 DEF IInv, TypeOK, RowsHavePlayers, Exists
<1>10. QED
  BY <1>5, <1>7, <1>8, <1>9 DEF IInv, CallsSound

\* So does unlinking a sender, whose rows then name nobody.
LEMMA UnlinkInv ==
  ASSUME IInv, NEW s \in Senders, UnlinkIdentity(s), UNCHANGED calls
  PROVE  IInv'
<1>1. /\ identityOf' = [identityOf EXCEPT ![s] = NoPlayer] /\ UNCHANGED <<member, pending>>
      /\ results' = [p \in Players |-> [z \in Puzzles |-> Cleared(results[p][z], s)]]
  BY DEF UnlinkIdentity
<1>2. ASSUME NEW p \in Players, NEW z \in Puzzles
      PROVE  /\ results'[p][z] = NoResult <=> results[p][z] = NoResult
             /\ results[p][z] # NoResult =>
                  /\ results'[p][z] \in Row
                  /\ results'[p][z].by = results[p][z].by
                  /\ GridOf(results'[p][z])
                  /\ results'[p][z].identity # s
                  /\ results'[p][z].identity \in {results[p][z].identity, NoSender}
  <2>1. results'[p][z] = Cleared(results[p][z], s)
    BY <1>1
  <2>2. results[p][z] \in Row \cup {NoResult}
    BY DEF IInv, TypeOK
  <2>3. results[p][z] # NoResult => GridOf(results[p][z])
    BY DEF IInv, GridsAgree, GridOf
  <2>4. CASE results[p][z] = NoResult
    BY <2>1, <2>4 DEF Cleared
  <2>5. CASE results[p][z] # NoResult
    <3>1. Cleared(results[p][z], s) \in Row
      BY <2>2, <2>5 DEF Cleared, Row
    <3>2. QED
      BY <2>1, <2>2, <2>3, <2>5, <3>1, NullsAreDistinct DEF Cleared, Row, GridOf
  <2>6. QED
    BY <2>4, <2>5
<1>3. TypeOK'
  BY <1>1, <1>2 DEF IInv, TypeOK
<1>4. IdentityOnRows'
  <2> SUFFICES ASSUME NEW p \in Players, NEW z \in Puzzles,
                      results'[p][z] # NoResult, results'[p][z].identity # NoSender
               PROVE  /\ results'[p][z].by = "token"
                      /\ identityOf'[results'[p][z].identity] # NoPlayer
    BY DEF IdentityOnRows
  <2>1. results[p][z] # NoResult /\ results'[p][z].identity = results[p][z].identity
        /\ results[p][z].identity # s /\ results'[p][z].by = results[p][z].by
    BY <1>2
  <2>2. results[p][z].identity \in Senders
    BY <2>1 DEF IInv, TypeOK, Row
  <2>3. QED
    BY <1>1, <2>1, <2>2 DEF IInv, TypeOK, IdentityOnRows
<1>5. GridsAgree'
  BY <1>1, <1>2 DEF IInv, GridsAgree, GridOf, Agrees
<1>6. RowsHavePlayers'
  BY <1>1, <1>2, NullsAreDistinct DEF IInv, TypeOK, RowsHavePlayers, Exists
<1>7. QED
  BY <1>3, <1>4, <1>5, <1>6 DEF IInv, CallsSound

\* Dropping what is held, by an admin or by the retention window.
LEMMA DropHeldInv ==
  ASSUME IInv, DropHeldStep, UNCHANGED calls
  PROVE  IInv'
<1>1. UNCHANGED <<member, identityOf, results>>
  BY DEF DropHeldStep, DiscardPendingResults, DeleteExpiredPendingResults
<1>2. /\ pending' \in [Senders -> [Puzzles -> Post \cup {NoHeld}]]
      /\ \A s \in Senders, z \in Puzzles : pending'[s][z] \in {pending[s][z], NoHeld}
  <2>1. ASSUME NEW s \in Senders, DiscardPendingResults(s)
        PROVE  <1>2
    BY <2>1 DEF DiscardPendingResults, NothingHeld, IInv, TypeOK
  <2>2. ASSUME NEW s \in Senders, NEW old \in SUBSET Puzzles, DeleteExpiredPendingResults(s, old)
        PROVE  <1>2
    BY <2>2 DEF DeleteExpiredPendingResults, IInv, TypeOK
  <2>3. QED
    BY <2>1, <2>2 DEF DropHeldStep
<1>3. GridsAgree'
  BY <1>1, <1>2 DEF IInv, GridsAgree, Agrees
<1>4. QED
  BY <1>1, <1>2, <1>3 DEF IInv, TypeOK, IdentityOnRows, RowsHavePlayers, Exists, CallsSound

\* Creating a player, and changing who is a member.
LEMMA RosterInv ==
  ASSUME IInv, RosterStep, UNCHANGED calls
  PROVE  IInv'
<1>1. UNCHANGED <<identityOf, results, pending>>
  BY DEF RosterStep, CreatePlayer, SetMembership
<1>2. /\ member' \in [Players -> Status]
      /\ \A p \in Players : member[p] # "absent" => member'[p] # "absent"
  BY DEF RosterStep, CreatePlayer, SetMembership, IInv, TypeOK, Status
<1>3. QED
  BY <1>1, <1>2 DEF IInv, TypeOK, IdentityOnRows, GridsAgree, Agrees, RowsHavePlayers, Exists,
     CallsSound

\* Clearing a demo takes a player's results and identities with the player.
LEMMA ClearInv ==
  ASSUME IInv, NEW blocked \in SUBSET Players, ClearDemoData(blocked), UNCHANGED calls
  PROVE  IInv'
<1> DEFINE kept(s) == identityOf[s] \in blocked
           row(r)  == IF r # NoResult /\ r.identity # NoSender /\ ~kept(r.identity)
                      THEN [r EXCEPT !.identity = NoSender] ELSE r
<1>1. /\ member' = [p \in Players |-> IF p \in blocked THEN member[p] ELSE "absent"]
      /\ identityOf' = [s \in Senders |-> IF kept(s) THEN identityOf[s] ELSE NoPlayer]
      /\ results' = [p \in Players |-> [z \in Puzzles |->
                       IF p \in blocked THEN row(results[p][z]) ELSE NoResult]]
      /\ pending' = [s \in Senders |-> NothingHeld]
  BY DEF ClearDemoData
<1>2. ASSUME NEW p \in Players, NEW z \in Puzzles, results'[p][z] # NoResult
      PROVE  /\ p \in blocked /\ results[p][z] # NoResult
             /\ results'[p][z] \in Row /\ GridOf(results'[p][z])
             /\ results'[p][z].by = results[p][z].by
             /\ results'[p][z].identity # NoSender =>
                  /\ results'[p][z].identity = results[p][z].identity
                  /\ kept(results[p][z].identity)
  <2>1. p \in blocked /\ results'[p][z] = row(results[p][z])
    BY <1>1, <1>2
  <2>2. results[p][z] # NoResult
    BY <1>2, <2>1
  <2>3. results[p][z] \in Row /\ GridOf(results[p][z])
    BY <2>2 DEF IInv, TypeOK, GridsAgree, GridOf
  <2>4. row(results[p][z]) \in Row
    BY <2>3 DEF Row
  <2>5. QED
    BY <2>1, <2>2, <2>3, <2>4 DEF Row, GridOf
<1>3. TypeOK'
  BY <1>1, <1>2 DEF IInv, TypeOK, Status, NothingHeld
<1>4. IdentityOnRows'
  <2> SUFFICES ASSUME NEW p \in Players, NEW z \in Puzzles,
                      results'[p][z] # NoResult, results'[p][z].identity # NoSender
               PROVE  /\ results'[p][z].by = "token"
                      /\ identityOf'[results'[p][z].identity] # NoPlayer
    BY DEF IdentityOnRows
  <2>1. results'[p][z].identity = results[p][z].identity /\ kept(results[p][z].identity)
        /\ results[p][z] # NoResult /\ results'[p][z].by = results[p][z].by
    BY <1>2
  <2>2. results[p][z].identity \in Senders
    BY <2>1 DEF IInv, TypeOK, Row
  <2>3. QED
    BY <1>1, <2>1, <2>2 DEF IInv, IdentityOnRows
<1>5. GridsAgree'
  BY <1>1, <1>2 DEF GridsAgree, GridOf, NothingHeld
<1>6. RowsHavePlayers'
  BY <1>1, <1>2, NullsAreDistinct DEF IInv, TypeOK, RowsHavePlayers, Exists
<1>7. QED
  BY <1>3, <1>4, <1>5, <1>6 DEF IInv, CallsSound

\* Every step keeps the invariant.
LEMMA NextInv == IInv /\ [Next]_vars => IInv'
<1> SUFFICES ASSUME IInv, [Next]_vars PROVE IInv'
  OBVIOUS
<1>1. CASE CallStep
  <2>1. ASSUME NEW c \in Callers,
               \/ \E s \in Senders, z \in Puzzles, post \in Posts, live \in BOOLEAN :
                    ApplyFromSender(c, s, z, post, live)
               \/ \E p \in Players, z \in Puzzles, post \in Posts : ApplyNamed(c, p, z, post)
        PROVE  IInv'
    BY <2>1, StartInv
  <2>2. ASSUME NEW c \in Callers, WriteFails(c) PROVE IInv'
    BY <2>2, EndInv DEF WriteFails, Finish, IInv, TypeOK
  <2>3. QED
    BY <1>1, <2>1, <2>2, HoldInv, WriteInv DEF CallStep
<1>2. CASE Crash
  BY <1>2, EndInv DEF Crash
<1>3. CASE AdminStep /\ UNCHANGED calls
  <2>1. CASE IdentityStep
    BY <1>3, <2>1, LinkInv, CreateForInv, ReassignInv, UnlinkInv DEF IdentityStep
  <2>2. CASE ClearStep
    BY <1>3, <2>2, ClearInv DEF ClearStep
  <2>3. QED
    BY <1>3, <2>1, <2>2, HandStepInv, DropHeldInv, RosterInv DEF AdminStep
<1>4. CASE UNCHANGED vars
  BY <1>4 DEF vars, IInv, TypeOK, IdentityOnRows, GridsAgree, Agrees, RowsHavePlayers, Exists,
     CallsSound
<1>5. QED
  BY <1>1, <1>2, <1>3, <1>4 DEF Next

\* The inductive invariant holds of every reachable state.
THEOREM Invariance == Spec => []IInv
<1>1. QED
  BY InitInv, NextInv, PTL DEF Spec

\* Every table and every call in flight keeps its type.
THEOREM TypeCorrect == Spec => []TypeOK
<1>1. IInv => TypeOK
  BY DEF IInv
<1>2. QED
  BY <1>1, Invariance, PTL

\* Only automated rows of living identities name one.
THEOREM IdentityOnRowsHolds == Spec => []IdentityOnRows
<1>1. IInv => IdentityOnRows
  BY DEF IInv
<1>2. QED
  BY <1>1, Invariance, PTL

\* Squares never sit beside another score.
THEOREM GridsAgreeHolds == Spec => []GridsAgree
<1>1. IInv => GridsAgree
  BY DEF IInv
<1>2. QED
  BY <1>1, Invariance, PTL

\* No result and no identity outlives its player.
THEOREM RowsHavePlayersHolds == Spec => []RowsHavePlayers
<1>1. IInv => RowsHavePlayers
  BY DEF IInv
<1>2. QED
  BY <1>1, Invariance, PTL

-----------------------------------------------------------------------------
(* The action properties. *)

\* What an automated write does to one player's row.
LEMMA WriteEffect ==
  ASSUME IInv, NEW c \in Callers, Write(c)
  PROVE  LET p == Target(calls[c]) z == calls[c].puzzle id == calls[c].sender IN
         /\ p \in Players /\ z \in Puzzles /\ id \in Senders \cup {NoSender}
         /\ calls[c].post \in Post
         /\ id # NoSender => identityOf[id] = p
         /\ results' = [results EXCEPT ![p][z] = Upserted(@, calls[c].post, "token", id)]
         /\ UNCHANGED <<identityOf, pending>>
<1>1. calls[c] \in Call
  BY DEF Write, IInv, TypeOK
<1>2. QED
  BY <1>1 DEF Write, FileResult, CanWrite, Target, Exists, Call, IInv, TypeOK

\* A result entered by hand is changed by a hand only.  The step that could go
\* wrong is a move: it takes rows by their identity, and IdentityOnRows says that
\* no hand-entered row has one.
THEOREM HandEntryStandsHolds == Spec => HandEntryStands
<1> DEFINE Stands == \A p \in Players, z \in Puzzles :
                       ByHand(results[p][z]) => results'[p][z] = results[p][z]
<1>1. IInv /\ [Next]_vars => [Stands \/ HandStep \/ ClearStep]_vars
  <2> SUFFICES ASSUME IInv, Next, ~HandStep, ~ClearStep, NEW p \in Players, NEW z \in Puzzles,
                      ByHand(results[p][z])
               PROVE  results'[p][z] = results[p][z]
    BY DEF Stands
  <2>1. /\ results[p][z] \in Row /\ results[p][z] # NoResult /\ results[p][z].by = "hand"
        /\ results[p][z].identity = NoSender
    BY DEF ByHand, IInv, TypeOK, IdentityOnRows
  <2>2. CASE UNCHANGED results
    BY <2>2
  <2>3. ASSUME NEW c \in Callers, Write(c) PROVE results'[p][z] = results[p][z]
    BY <2>1, <2>3, WriteEffect DEF Upserted, Refused, IInv, TypeOK
  <2>4. ASSUME NEW q \in Players, NEW s \in Senders, LinkIdentity(q, s)
        PROVE  results'[p][z] = results[p][z]
    BY <2>1, <2>4 DEF LinkIdentity, Replayed, Upserted, Refused, IInv, TypeOK
  <2>5. ASSUME NEW q \in Players, NEW s \in Senders, NEW t \in Senders,
               CreatePlayerForSenders(q, s, t)
        PROVE  results'[p][z] = results[p][z]
    <3>1. p # q
      BY <2>1, <2>5 DEF CreatePlayerForSenders, IInv, RowsHavePlayers
    <3>2. QED
      BY <2>5, <3>1 DEF CreatePlayerForSenders, IInv, TypeOK
  <2>6. ASSUME NEW s \in Senders, NEW q \in Players, NEW move \in BOOLEAN,
               ReassignIdentity(s, q, move)
        PROVE  results'[p][z] = results[p][z]
    <3>1. identityOf[s] \in Players /\ identityOf[s] # q
      BY <2>6 DEF ReassignIdentity, IInv, TypeOK
    <3>2. s # NoSender
      BY NullsAreDistinct
    <3>3. CASE results' = results
      BY <3>3
    <3>4. CASE results' = Moved(s, identityOf[s], q, Movable(s, identityOf[s], q))
      BY <2>1, <3>1, <3>2, <3>4 DEF Moved, Movable, IInv, TypeOK
    <3>5. QED
      BY <2>6, <3>3, <3>4 DEF ReassignIdentity
  <2>7. ASSUME NEW s \in Senders, UnlinkIdentity(s) PROVE results'[p][z] = results[p][z]
    BY <2>1, <2>7, NullsAreDistinct DEF UnlinkIdentity, Cleared
  <2>8. \/ UNCHANGED results
        \/ \E c \in Callers : Write(c)
        \/ IdentityStep
    BY DEF Next, CallStep, AdminStep, Crash, ApplyFromSender, ApplyNamed, Hold,
       HoldPendingResult, WriteFails, storeVars, DropHeldStep, DiscardPendingResults,
       DeleteExpiredPendingResults, RosterStep, CreatePlayer, SetMembership
  <2>9. QED
    BY <2>2, <2>3, <2>4, <2>5, <2>6, <2>7, <2>8 DEF IdentityStep
<1>2. QED
  BY <1>1, Invariance, PTL DEF Spec, HandEntryStands

\* Who writes results.
LEMMA Writers ==
  ASSUME [Next]_vars
  PROVE  \/ UNCHANGED results
         \/ \E c \in Callers : Write(c)
         \/ \E s \in Senders :
              \/ \E p \in Players : LinkIdentity(p, s)
              \/ \E p \in Players, t \in Senders : CreatePlayerForSenders(p, s, t)
              \/ \E q \in Players, move \in BOOLEAN : ReassignIdentity(s, q, move)
              \/ UnlinkIdentity(s)
         \/ HandStep
         \/ ClearStep
BY DEF Next, vars, CallStep, AdminStep, Crash, ApplyFromSender, ApplyNamed, Hold, HoldPendingResult,
   WriteFails, storeVars, IdentityStep, DropHeldStep, DiscardPendingResults,
   DeleteExpiredPendingResults, RosterStep, CreatePlayer, SetMembership

\* What a claim does to the player's column and to what was held.
LEMMA LinkEffect ==
  ASSUME IInv, NEW q \in Players, NEW s \in Senders, LinkIdentity(q, s)
  PROVE  /\ \A p \in Players \ {q} : results'[p] = results[p]
         /\ \A z \in Puzzles :
              /\ results[q][z] # NoResult => results'[q][z] # NoResult
              /\ pending[s][z] # NoHeld => results'[q][z] # NoResult
              /\ results'[q][z] # results[q][z] => results'[q][z].identity = s
         /\ identityOf'[s] = q
         /\ \A t \in Senders \ {s} : pending'[t] = pending[t]
<1>1. results[q] \in Column /\ GoodColumn(results[q])
  BY Columns DEF IInv
<1>2. /\ results' = [results EXCEPT ![q] = Replayed(results[q], s)]
      /\ identityOf' = [identityOf EXCEPT ![s] = q]
      /\ pending' = [pending EXCEPT ![s] = NothingHeld]
  BY DEF LinkIdentity
<1>3. ASSUME NEW z \in Puzzles
      PROVE  /\ results[q][z] # NoResult => Replayed(results[q], s)[z] # NoResult
             /\ pending[s][z] # NoHeld => Replayed(results[q], s)[z] # NoResult
             /\ Replayed(results[q], s)[z] # results[q][z] => Replayed(results[q], s)[z].identity = s
  BY <1>1, ReplayedColumn, NullsAreDistinct DEF IInv
<1>4. results'[q] = Replayed(results[q], s) /\ \A p \in Players \ {q} : results'[p] = results[p]
  BY <1>2 DEF IInv, TypeOK
<1> QED
  BY <1>2, <1>3, <1>4 DEF IInv, TypeOK

\* What making a player for senders does: the column was empty.
LEMMA CreateForEffect ==
  ASSUME IInv, NEW q \in Players, NEW s \in Senders, NEW t \in Senders,
         CreatePlayerForSenders(q, s, t)
  PROVE  /\ \A p \in Players \ {q} : results'[p] = results[p]
         /\ \A z \in Puzzles :
              /\ results[q][z] = NoResult
              /\ pending[s][z] # NoHeld \/ pending[t][z] # NoHeld => results'[q][z] # NoResult
              /\ results'[q][z] # NoResult => results'[q][z].identity \in {s, t}
         /\ identityOf'[s] = q /\ identityOf'[t] = q
         /\ \A u \in Senders \ {s, t} : pending'[u] = pending[u]
<1> DEFINE once == Replayed(results[q], s)
           twice == Replayed(once, t)
<1>1. results[q] \in Column /\ GoodColumn(results[q])
  BY Columns DEF IInv
<1>2. once \in Column /\ GoodColumn(once)
  BY <1>1, ReplayedColumn DEF IInv
<1>3. ASSUME NEW z \in Puzzles
      PROVE  /\ results[q][z] = NoResult
             /\ pending[s][z] # NoHeld => once[z] # NoResult
             /\ once[z] # NoResult => once[z].identity = s
  <2>1. results[q][z] = NoResult
    BY DEF CreatePlayerForSenders, IInv, RowsHavePlayers
  <2> QED BY <1>1, <2>1, ReplayedColumn, NullsAreDistinct DEF IInv, ByHand
<1>4. /\ results' = [results EXCEPT ![q] = IF s = t THEN once ELSE twice]
      /\ identityOf' = [identityOf EXCEPT ![s] = q, ![t] = q]
      /\ pending' = [pending EXCEPT ![s] = NothingHeld, ![t] = NothingHeld]
  BY DEF CreatePlayerForSenders
<1> HIDE DEF once
<1>5. ASSUME NEW z \in Puzzles
      PROVE  /\ once[z] # NoResult => twice[z] # NoResult
             /\ pending[t][z] # NoHeld => twice[z] # NoResult
             /\ twice[z] # once[z] => twice[z].identity = t
  BY <1>2, ReplayedColumn, NullsAreDistinct DEF IInv
<1> HIDE DEF twice
<1>6. results'[q] = (IF s = t THEN once ELSE twice)
      /\ \A p \in Players \ {q} : results'[p] = results[p]
  BY <1>4 DEF IInv, TypeOK
<1>7. identityOf'[s] = q /\ identityOf'[t] = q /\ \A u \in Senders \ {s, t} : pending'[u] = pending[u]
  BY <1>4 DEF IInv, TypeOK
<1> QED
  BY <1>3, <1>5, <1>6, <1>7

\* What a move does: rows go from one player to the other, where that one had none.
LEMMA ReassignEffect ==
  ASSUME IInv, NEW s \in Senders, NEW q \in Players, NEW move \in BOOLEAN,
         ReassignIdentity(s, q, move)
  PROVE  /\ identityOf[s] \in Players \ {q} /\ identityOf'[s] = q
         /\ UNCHANGED pending
         /\ \A p \in Players, z \in Puzzles :
              \/ results'[p][z] = results[p][z]
              \/ p = identityOf[s] /\ results'[p][z] = NoResult
                 /\ results[q][z] = NoResult /\ results'[q][z] = results[p][z]
              \/ p = q /\ results[p][z] = NoResult /\ results'[p][z].identity = s
<1>1. identityOf[s] \in Players \ {q} /\ identityOf'[s] = q /\ UNCHANGED pending
  BY DEF ReassignIdentity, IInv, TypeOK
<1>2. results' = results \/ results' = Moved(s, identityOf[s], q, Movable(s, identityOf[s], q))
  BY DEF ReassignIdentity
<1>3. CASE results' = results
  BY <1>1, <1>3
<1>4. CASE results' = Moved(s, identityOf[s], q, Movable(s, identityOf[s], q))
  <2> DEFINE o == identityOf[s]
             Z == Movable(s, o, q)
  <2>1. /\ results'[o] = [z \in Puzzles |-> IF z \in Z THEN NoResult ELSE results[o][z]]
        /\ results'[q] = [z \in Puzzles |-> IF z \in Z THEN results[o][z] ELSE results[q][z]]
        /\ \A p \in Players \ {o, q} : results'[p] = results[p]
    BY <1>1, <1>4 DEF Moved, IInv, TypeOK
  <2>2. \A z \in Z : results[o][z].identity = s /\ results[q][z] = NoResult
    BY DEF Movable
  <2> HIDE DEF Z
  <2> QED BY <1>1, <2>1, <2>2
<1> QED BY <1>2, <1>3, <1>4

\* No result is silently dropped: unless a hand unsets it, a row that leaves a player is with
\* another, unchanged, who had none for that puzzle (ReassignIdentity --move-results).
THEOREM ResultsOnlyMoveHolds == Spec => ResultsOnlyMove
<1> DEFINE Only == \A p \in Players, z \in Puzzles :
                     (results[p][z] # NoResult /\ results'[p][z] = NoResult) =>
                       \E q \in Players : results[q][z] = NoResult /\ results'[q][z] = results[p][z]
<1>1. IInv /\ [Next]_vars => [Only \/ HandStep \/ ClearStep]_vars
  <2> SUFFICES ASSUME IInv, [Next]_vars, ~HandStep, ~ClearStep, NEW p \in Players, NEW z \in Puzzles,
                      results[p][z] # NoResult, results'[p][z] = NoResult
               PROVE  \E q \in Players : results[q][z] = NoResult /\ results'[q][z] = results[p][z]
    BY DEF Only
  <2>1. CASE UNCHANGED results
    BY <2>1
  <2>2. ASSUME NEW c \in Callers, Write(c) PROVE FALSE
    <3> DEFINE o == Target(calls[c])
               y == calls[c].puzzle
               new == Upserted(results[o][y], calls[c].post, "token", calls[c].sender)
    <3>1. /\ o \in Players /\ y \in Puzzles /\ results' = [results EXCEPT ![o][y] = new]
          /\ new \in Row
      BY <2>2, WriteEffect, UpsertedType DEF IInv, TypeOK
    <3> HIDE DEF new
    <3> QED BY <3>1, NullsAreDistinct DEF IInv, TypeOK
  <2>3. ASSUME NEW s \in Senders, NEW q \in Players, LinkIdentity(q, s) PROVE FALSE
    BY <2>3, LinkEffect
  <2>4. ASSUME NEW s \in Senders, NEW q \in Players, NEW t \in Senders,
               CreatePlayerForSenders(q, s, t)
        PROVE  FALSE
    BY <2>4, CreateForEffect
  <2>5. ASSUME NEW s \in Senders, NEW q \in Players, NEW move \in BOOLEAN,
               ReassignIdentity(s, q, move)
        PROVE  results[q][z] = NoResult /\ results'[q][z] = results[p][z]
    BY <2>5, ReassignEffect
  <2>6. ASSUME NEW s \in Senders, UnlinkIdentity(s) PROVE FALSE
    <3>1. results[p][z] \in Row /\ results'[p][z] = Cleared(results[p][z], s)
      BY <2>6 DEF UnlinkIdentity, IInv, TypeOK
    <3>2. Cleared(results[p][z], s) \in Row
      BY <3>1 DEF Cleared, Row
    <3> QED BY <3>1, <3>2, NullsAreDistinct
  <2> QED
    BY <2>1, <2>2, <2>3, <2>4, <2>5, <2>6, Writers
<1> QED
  BY <1>1, Invariance, PTL DEF Spec, ResultsOnlyMove

\* A row written for a sender, or moved with it, is with the player the sender maps to once
\* the step is over, whoever that was when the submission was looked up (ingest.write
\* resolves the sender again inside its transaction).
THEOREM RowsFollowSenderHolds == Spec => RowsFollowSender
<1> DEFINE Follows == \A p \in Players, z \in Puzzles :
                        (/\ results'[p][z] # NoResult
                         /\ results'[p][z].identity # NoSender
                         /\ results'[p][z] # results[p][z]) => identityOf'[results'[p][z].identity] = p
<1>1. IInv /\ [Next]_vars => [Follows]_vars
  <2> SUFFICES ASSUME IInv, [Next]_vars, NEW p \in Players, NEW z \in Puzzles,
                      results'[p][z] # NoResult, results'[p][z].identity # NoSender,
                      results'[p][z] # results[p][z]
               PROVE  identityOf'[results'[p][z].identity] = p
    BY DEF Follows
  <2>1. CASE UNCHANGED results
    BY <2>1
  <2>2. ASSUME NEW c \in Callers, Write(c) PROVE identityOf'[results'[p][z].identity] = p
    <3> DEFINE o == Target(calls[c])
               y == calls[c].puzzle
               id == calls[c].sender
               new == Upserted(results[o][y], calls[c].post, "token", id)
    <3>1. /\ o \in Players /\ y \in Puzzles /\ results' = [results EXCEPT ![o][y] = new]
          /\ id # NoSender => identityOf[id] = o
          /\ UNCHANGED identityOf
          /\ new = results[o][y] \/ new.identity = id
      BY <2>2, WriteEffect, UpsertedMark DEF IInv, TypeOK
    <3> HIDE DEF new
    <3>2. p = o /\ z = y /\ results'[p][z] = new
      BY <3>1 DEF IInv, TypeOK
    <3> QED BY <3>1, <3>2
  <2>3. ASSUME NEW s \in Senders, NEW q \in Players, LinkIdentity(q, s)
        PROVE  identityOf'[results'[p][z].identity] = p
    BY <2>3, LinkEffect
  <2>4. ASSUME NEW s \in Senders, NEW q \in Players, NEW t \in Senders,
               CreatePlayerForSenders(q, s, t)
        PROVE  identityOf'[results'[p][z].identity] = p
    BY <2>4, CreateForEffect
  <2>5. ASSUME NEW s \in Senders, NEW q \in Players, NEW move \in BOOLEAN,
               ReassignIdentity(s, q, move)
        PROVE  identityOf'[results'[p][z].identity] = p
    BY <2>5, ReassignEffect
  <2>6. ASSUME NEW s \in Senders, UnlinkIdentity(s) PROVE FALSE
    <3>1. results'[p][z] = Cleared(results[p][z], s) /\ results[p][z] \in Row \cup {NoResult}
      BY <2>6 DEF UnlinkIdentity, IInv, TypeOK
    <3> QED BY <3>1 DEF Cleared, Row
  <2>7. CASE HandStep
    <3>1. ASSUME NEW post \in Post, NEW old \in Row \cup {NoResult}
          PROVE  Upserted(old, post, "hand", NoSender).identity = NoSender
      BY DEF Upserted, Refused, Inserted, Updated
    <3>2. \A x \in Scores : Bare(x) \in Post
      BY DEF Bare, Post
    <3>3. results[p][z] \in Row \cup {NoResult}
      BY DEF IInv, TypeOK
    <3>4. \A x \in Scores : Upserted(results[p][z], Bare(x), "hand", NoSender).identity = NoSender
      BY <3>1, <3>2, <3>3
    <3>5. ASSUME NEW q \in Players, NEW y \in Puzzles, NEW x \in Scores, SetResult(q, y, x) PROVE FALSE
      BY <3>4, <3>5 DEF SetResult, IInv, TypeOK
    <3>6. ASSUME NEW q \in Players, NEW y \in Puzzles, DeleteResult(q, y) PROVE FALSE
      BY <3>6 DEF DeleteResult, IInv, TypeOK
    <3>7. ASSUME NEW q \in Players, NEW status \in {"active", "left"}, NEW cells \in SUBSET Puzzles,
                 NEW sheet \in [Puzzles -> Scores], Backfill(q, status, cells, sheet)
          PROVE  FALSE
      BY <3>4, <3>7 DEF Backfill, IInv, TypeOK
    <3> QED BY <2>7, <3>5, <3>6, <3>7 DEF HandStep
  <2>8. ASSUME NEW blocked \in SUBSET Players, ClearDemoData(blocked) PROVE FALSE
    <3>1. results[p][z] \in Row \cup {NoResult}
      BY DEF IInv, TypeOK
    <3> QED BY <2>8, <3>1 DEF ClearDemoData, Row
  <2> QED
    BY <2>1, <2>2, <2>3, <2>4, <2>5, <2>6, <2>7, <2>8, Writers DEF ClearStep
<1> QED
  BY <1>1, Invariance, PTL DEF Spec, RowsFollowSender

\* Once a result has a time of posting, no repost, correction, replay or move changes it
\* (UpsertResult: posted_at = COALESCE(posted_at, ?)).
THEOREM FirstPostingKeptHolds == Spec => FirstPostingKept
<1> DEFINE Kept == \A p \in Players, z \in Puzzles :
                     (/\ results[p][z] # NoResult /\ results'[p][z] # NoResult
                      /\ results[p][z].posted # Never) => results'[p][z].posted = results[p][z].posted
<1>1. IInv /\ [Next]_vars => [Kept]_vars
  <2> SUFFICES ASSUME IInv, [Next]_vars, NEW p \in Players, NEW z \in Puzzles,
                      results[p][z] # NoResult, results'[p][z] # NoResult,
                      results[p][z].posted # Never
               PROVE  results'[p][z].posted = results[p][z].posted
    BY DEF Kept
  <2> DEFINE old == results[p][z]
  <2>1. old \in Row
    BY DEF IInv, TypeOK
  <2>2. ASSUME NEW post \in Post, NEW by \in {"token", "hand"}, NEW id \in Senders \cup {NoSender}
        PROVE  Upserted(old, post, by, id).posted = old.posted
    BY <2>1, UpsertedPosted
  <2>3. CASE UNCHANGED results
    BY <2>3
  <2>4. ASSUME NEW c \in Callers, Write(c) PROVE results'[p][z].posted = old.posted
    <3>1. /\ calls[c].post \in Post /\ calls[c].sender \in Senders \cup {NoSender}
          /\ results'[p][z] \in {old, Upserted(old, calls[c].post, "token", calls[c].sender)}
      BY <2>4, WriteEffect DEF IInv, TypeOK
    <3> QED BY <2>2, <3>1
  <2>5. ASSUME NEW s \in Senders, NEW q \in Players, LinkIdentity(q, s)
        PROVE  results'[p][z].posted = old.posted
    <3>1. \/ results'[p][z] = old
          \/ /\ pending[s][z] # NoHeld
             /\ results'[p][z] = Upserted(old, pending[s][z], "token", s)
      BY <2>5 DEF LinkIdentity, Replayed, IInv, TypeOK
    <3>2. pending[s][z] # NoHeld => pending[s][z] \in Post
      BY DEF IInv, TypeOK
    <3> QED BY <2>2, <3>1, <3>2
  <2>6. ASSUME NEW s \in Senders, NEW q \in Players, NEW t \in Senders,
               CreatePlayerForSenders(q, s, t)
        PROVE  results'[p][z].posted = old.posted
    BY <2>6, CreateForEffect
  <2>7. ASSUME NEW s \in Senders, NEW q \in Players, NEW move \in BOOLEAN,
               ReassignIdentity(s, q, move)
        PROVE  results'[p][z].posted = old.posted
    BY <2>7, ReassignEffect
  <2>8. ASSUME NEW s \in Senders, UnlinkIdentity(s) PROVE results'[p][z].posted = old.posted
    BY <2>1, <2>8 DEF UnlinkIdentity, Cleared, Row
  <2>9. CASE HandStep
    <3>1. \A x \in Scores : Bare(x) \in Post
      BY DEF Bare, Post
    <3>2. \A x \in Scores : Upserted(old, Bare(x), "hand", NoSender).posted = old.posted
      BY <2>2, <3>1
    <3>3. ASSUME NEW q \in Players, NEW y \in Puzzles, NEW x \in Scores, SetResult(q, y, x)
          PROVE  results'[p][z].posted = old.posted
      BY <3>2, <3>3 DEF SetResult, IInv, TypeOK
    <3>4. ASSUME NEW q \in Players, NEW y \in Puzzles, DeleteResult(q, y)
          PROVE  results'[p][z].posted = old.posted
      BY <3>4 DEF DeleteResult, IInv, TypeOK
    <3>5. ASSUME NEW q \in Players, NEW status \in {"active", "left"}, NEW cells \in SUBSET Puzzles,
                 NEW sheet \in [Puzzles -> Scores], Backfill(q, status, cells, sheet)
          PROVE  results'[p][z].posted = old.posted
      BY <3>2, <3>5 DEF Backfill, IInv, TypeOK
    <3> QED BY <2>9, <3>3, <3>4, <3>5 DEF HandStep
  <2>10. ASSUME NEW blocked \in SUBSET Players, ClearDemoData(blocked)
         PROVE  results'[p][z].posted = old.posted
    BY <2>1, <2>10 DEF ClearDemoData, Row
  <2> QED
    BY <2>3, <2>4, <2>5, <2>6, <2>7, <2>8, <2>9, <2>10, Writers DEF ClearStep
<1> QED
  BY <1>1, Invariance, PTL DEF Spec, FirstPostingKept

\* A held result leaves the table only when its puzzle has a result for the player the sender
\* now maps to, unless somebody discards it or the retention window does (replayPending).
THEOREM HeldUntilReplayedHolds == Spec => HeldUntilReplayed
<1> DEFINE Stays == \A s \in Senders, z \in Puzzles :
                      (pending[s][z] # NoHeld /\ pending'[s][z] = NoHeld) =>
                        \E p \in Players : identityOf'[s] = p /\ results'[p][z] # NoResult
<1>1. IInv /\ [Next]_vars => [Stays \/ DropHeldStep \/ ClearStep]_vars
  <2> SUFFICES ASSUME IInv, [Next]_vars, ~DropHeldStep, ~ClearStep, NEW s \in Senders, NEW z \in Puzzles,
                      pending[s][z] # NoHeld, pending'[s][z] = NoHeld
               PROVE  \E p \in Players : identityOf'[s] = p /\ results'[p][z] # NoResult
    BY DEF Stays
  <2>1. CASE UNCHANGED pending
    BY <2>1
  <2>2. ASSUME NEW c \in Callers, Hold(c) PROVE FALSE
    <3> DEFINE t == calls[c].sender
               y == calls[c].puzzle
               held == Merged(pending[t][y], calls[c].post)
    <3>1. calls[c] \in Call /\ t \in Senders
      BY <2>2 DEF Hold, IInv, TypeOK, CallsSound
    <3>2. y \in Puzzles /\ calls[c].post \in Post
      BY <3>1 DEF Call
    <3>3. held \in Post
      <4>1. CASE pending[t][y] = NoHeld
        BY <3>2, <4>1 DEF Merged
      <4>2. CASE pending[t][y] # NoHeld
        <5>1. pending[t][y] \in Post
          BY <3>1, <3>2, <4>2 DEF IInv, TypeOK
        <5>2. FirstPosted(pending[t][y].posted, calls[c].post.posted) \in Times \cup {Never}
          BY <3>2, <5>1 DEF FirstPosted, Post
        <5> QED BY <3>2, <4>2, <5>2 DEF Merged, Post
      <4> QED BY <4>1, <4>2
    <3>4. pending' = [pending EXCEPT ![t][y] = held]
      BY <2>2 DEF Hold, HoldPendingResult
    <3> HIDE DEF held
    <3> QED BY <3>1, <3>2, <3>3, <3>4, NullsAreDistinct DEF IInv, TypeOK
  <2>3. ASSUME NEW t \in Senders, NEW q \in Players, LinkIdentity(q, t)
        PROVE  \E p \in Players : identityOf'[s] = p /\ results'[p][z] # NoResult
    BY <2>3, LinkEffect
  <2>4. ASSUME NEW t \in Senders, NEW q \in Players, NEW u \in Senders,
               CreatePlayerForSenders(q, t, u)
        PROVE  \E p \in Players : identityOf'[s] = p /\ results'[p][z] # NoResult
    BY <2>4, CreateForEffect
  <2>5. \/ UNCHANGED pending
        \/ \E c \in Callers : Hold(c)
        \/ \E t \in Senders, q \in Players : LinkIdentity(q, t)
        \/ \E t \in Senders, q \in Players, u \in Senders : CreatePlayerForSenders(q, t, u)
    BY DEF Next, vars, CallStep, AdminStep, Crash, ApplyFromSender, ApplyNamed, Write, FileResult,
       WriteFails, storeVars, IdentityStep, ReassignIdentity, UnlinkIdentity, RosterStep,
       CreatePlayer, SetMembership, HandStep, SetResult, DeleteResult, Backfill
  <2> QED
    BY <2>1, <2>2, <2>3, <2>4, <2>5
<1> QED
  BY <1>1, Invariance, PTL DEF Spec, HeldUntilReplayed

-----------------------------------------------------------------------------
(* The score book. *)

\* What is in a cell, and when it may be written without a hand.
LEMMA CellsAre ==
  ASSUME NEW row \in Row \cup {NoResult}
  PROVE  /\ Cell(row) \in B!Cells
         /\ Cell(row) = {} <=> row = NoResult
         /\ B!Open(Cell(row)) <=> ~ByHand(row)
<1>1. CASE row = NoResult
  BY <1>1 DEF Cell, B!Cells, B!Open, ByHand
<1>2. CASE row # NoResult
  <2>1. row \in Row /\ row.score \in Scores /\ row.by \in {"token", "hand"}
    BY <1>2 DEF Row
  <2>2. Cell(row) = {[score |-> row.score, by |-> row.by]}
    BY <1>2 DEF Cell
  <2>3. Cell(row) \in B!Cells
    BY <2>1, <2>2 DEF B!Cells, B!Automatic, B!ByHand
  <2>4. B!Open(Cell(row)) <=> row.by # "hand"
    BY <2>2 DEF B!Open
  <2> QED BY <1>2, <2>2, <2>3, <2>4 DEF ByHand
<1> QED BY <1>1, <1>2

\* UpsertResult leaves a score by hand to a hand, and else enters the score that came.
LEMMA UpsertedCell ==
  ASSUME NEW old \in Row \cup {NoResult}, NEW post \in Post,
         NEW by \in {"token", "hand"}, NEW id \in Senders \cup {NoSender}
  PROVE  LET new == Upserted(old, post, by, id) IN
         \/ by = "token" /\ ByHand(old) /\ new = old
         \/ ~(by = "token" /\ ByHand(old)) /\ Cell(new) = {[score |-> post.score, by |-> by]}
<1> DEFINE new == Upserted(old, post, by, id)
<1>1. CASE by = "token" /\ ByHand(old)
  BY <1>1, UpsertedMark
<1>2. CASE ~(by = "token" /\ ByHand(old))
  <2>1. new.by = by /\ new # NoResult
    BY <1>2, UpsertedMark, UpsertedType, NullsAreDistinct
  <2>2. new.score = post.score
    BY <1>2 DEF Upserted, Refused, Inserted, Updated, ByHand
  <2> HIDE DEF new
  <2>3. Cell(new) = {[score |-> post.score, by |-> by]}
    BY <2>1, <2>2 DEF Cell
  <2> QED BY <1>2, <2>3 DEF new
<1> QED BY <1>1, <1>2

\* The book is unchanged when no cell is.
LEMMA BookSame ==
  ASSUME \A p \in Players, z \in Puzzles : Cell(results'[p][z]) = Cell(results[p][z])
  PROVE  Book' = Book
BY DEF Book

\* A step that writes one player's rows writes that player's column.
LEMMA BookColumn ==
  ASSUME NEW p \in Players, \A q \in Players \ {p}, y \in Puzzles : results'[q][y] = results[q][y]
  PROVE  /\ Book' = [Book EXCEPT ![p] = [z \in Puzzles |-> Cell(results'[p][z])]]
         /\ Book[p] = [z \in Puzzles |-> Cell(results[p][z])]
BY DEF Book

\* A step that writes one row writes one cell.
LEMMA BookCell ==
  ASSUME TypeOK, NEW p \in Players, NEW z \in Puzzles, NEW row,
         results' = [results EXCEPT ![p][z] = row]
  PROVE  Book' = [Book EXCEPT ![p][z] = Cell(row)] /\ Book[p][z] = Cell(results[p][z])
<1>1. results'[p][z] = row
  BY DEF TypeOK
<1>2. \A q \in Players, y \in Puzzles : (q # p \/ y # z) => results'[q][y] = results[q][y]
  BY DEF TypeOK
<1>3. [Book[p] EXCEPT ![z] = Cell(row)] = [y \in Puzzles |-> Cell(results'[p][y])]
  BY <1>1, <1>2 DEF Book
<1>4. Book' = [Book EXCEPT ![p] = [y \in Puzzles |-> Cell(results'[p][y])]]
  BY <1>2, BookColumn
<1> QED BY <1>3, <1>4 DEF Book

\* The first book is empty.
LEMMA BookStarts == Init => B!Init
BY DEF Init, StoreInit, B!Init, Book, Held, Cell

\* What is held is unchanged when no cell of it is.
LEMMA HeldSame ==
  ASSUME \A s \in Senders, z \in Puzzles : pending'[s][z] = pending[s][z]
  PROVE  Held' = Held
BY DEF Held

\* What is held by the score, or not at all.
LEMMA HeldIs ==
  ASSUME NEW s \in Senders, NEW z \in Puzzles
  PROVE  /\ pending[s][z] = NoHeld => Held[s][z] = {}
         /\ pending[s][z] # NoHeld => Held[s][z] = {pending[s][z].score}
BY DEF Held

\* Holding a result: its score waits.
LEMMA HoldKeeps ==
  ASSUME IInv, NEW c \in Callers, Hold(c)
  PROVE  B!Next
<1> DEFINE s == calls[c].sender
           z == calls[c].puzzle
           post == calls[c].post
           held == Merged(pending[s][z], post)
<1>1. calls[c] \in Call /\ s \in Senders
  BY DEF Hold, IInv, TypeOK, CallsSound
<1>2. z \in Puzzles /\ post \in Post
  BY <1>1 DEF Call
<1>3. held \in Post /\ held.score = post.score
  <2>1. CASE pending[s][z] = NoHeld
    BY <1>2, <2>1 DEF Merged
  <2>2. CASE pending[s][z] # NoHeld
    <3>1. pending[s][z] \in Post
      BY <1>1, <1>2, <2>2 DEF IInv, TypeOK
    <3>2. FirstPosted(pending[s][z].posted, post.posted) \in Times \cup {Never}
      BY <1>2, <3>1 DEF FirstPosted, Post
    <3> QED BY <1>2, <2>2, <3>2 DEF Merged, Post
  <2> QED BY <2>1, <2>2
<1>4. pending' = [pending EXCEPT ![s][z] = held] /\ UNCHANGED <<results, identityOf>>
  BY DEF Hold, HoldPendingResult
<1>5. post.score \in Scores
  BY <1>2 DEF Post
<1> HIDE DEF held, s, z, post
<1>6. held # NoHeld
  BY <1>3, NullsAreDistinct
<1>7. pending'[s][z] = held /\ \A t \in Senders, y \in Puzzles : (t # s \/ y # z) => pending'[t][y] = pending[t][y]
  BY <1>1, <1>2, <1>4 DEF IInv, TypeOK
<1>8. [Held[s] EXCEPT ![z] = {post.score}] =
        [y \in Puzzles |-> {q.score : q \in {pending'[s][y]} \ {NoHeld}}]
  <2>1. {q.score : q \in {held} \ {NoHeld}} = {post.score}
    BY <1>3, <1>6
  <2>2. Held[s] = [y \in Puzzles |-> {q.score : q \in {pending[s][y]} \ {NoHeld}}]
    BY <1>1 DEF Held
  <2> QED BY <1>1, <1>2, <1>7, <2>1, <2>2
<1>9. Held' = [Held EXCEPT ![s][z] = {post.score}]
  BY <1>1, <1>2, <1>7, <1>8 DEF Held
<1>10. Book' = Book
  BY <1>4, BookSame
<1>11. B!Wait(s, z, post.score)
  BY <1>4, <1>9, <1>10 DEF B!Wait
<1> QED BY <1>1, <1>2, <1>5, <1>11 DEF B!Next

\* Filing a result: its score is entered, unless the hand's stands.
LEMMA WriteKeeps ==
  ASSUME IInv, NEW c \in Callers, Write(c)
  PROVE  B!Next \/ UNCHANGED B!vars
<1> DEFINE p == Target(calls[c])
           z == calls[c].puzzle
           id == calls[c].sender
           post == calls[c].post
           new == Upserted(results[p][z], post, "token", id)
<1>1. /\ p \in Players /\ z \in Puzzles /\ id \in Senders \cup {NoSender} /\ post \in Post
      /\ results' = [results EXCEPT ![p][z] = new]
      /\ UNCHANGED <<pending, identityOf>>
  BY WriteEffect
<1>2. results[p][z] \in Row \cup {NoResult} /\ post.score \in Scores
  BY <1>1 DEF IInv, TypeOK, Post
<1>3. \/ ByHand(results[p][z]) /\ new = results[p][z]
      \/ ~ByHand(results[p][z]) /\ Cell(new) = {B!Automatic(post.score)}
  BY <1>1, <1>2, UpsertedCell DEF B!Automatic
<1> HIDE DEF p, z, id, post, new
<1>4. Held' = Held /\ UNCHANGED identityOf
  BY <1>1, HeldSame
<1>5. CASE new = results[p][z]
  <2>1. results' = results
    BY <1>1, <1>5 DEF IInv, TypeOK
  <2>2. Book' = Book
    BY <2>1, BookSame
  <2> QED BY <1>4, <2>2 DEF B!vars
<1>6. CASE ~ByHand(results[p][z]) /\ Cell(new) = {B!Automatic(post.score)}
  <2>1. Book' = [Book EXCEPT ![p][z] = {B!Automatic(post.score)}] /\ Book[p][z] = Cell(results[p][z])
    <3>1. TypeOK
      BY DEF IInv
    <3>2. Book' = [Book EXCEPT ![p][z] = Cell(new)] /\ Book[p][z] = Cell(results[p][z])
      BY <1>1, <3>1, BookCell
    <3> QED BY <1>6, <3>2
  <2>2. B!Open(Book[p][z])
    BY <1>2, <1>6, <2>1, CellsAre
  <2>3. B!File(p, z, post.score)
    BY <1>4, <2>1, <2>2 DEF B!File
  <2> QED BY <1>1, <1>2, <2>3 DEF B!Next
<1> QED BY <1>3, <1>5, <1>6

\* Some of a player's scores are entered by hand, and nothing else is touched.
Enters(p, Z, sheet) ==
  /\ \A q \in Players \ {p}, z \in Puzzles : results'[q][z] = results[q][z]
  /\ \A z \in Puzzles : results'[p][z] = IF z \in Z THEN Upserted(results[p][z], Bare(sheet[z]), "hand", NoSender)
                                          ELSE results[p][z]
  /\ UNCHANGED <<pending, identityOf>>

\* That is an entry in the book.
LEMMA EnterKeeps ==
  ASSUME IInv, NEW p \in Players, NEW Z \in SUBSET Puzzles, NEW sheet \in [Puzzles -> Scores],
         Enters(p, Z, sheet)
  PROVE  B!Next
<1> USE DEF Enters
<1>1. ASSUME NEW z \in Z PROVE Cell(results'[p][z]) = {B!ByHand(sheet[z])}
  <2>1. Bare(sheet[z]) \in Post /\ Bare(sheet[z]).score = sheet[z]
    BY DEF Bare, Post
  <2>2. results[p][z] \in Row \cup {NoResult}
    BY DEF IInv, TypeOK
  <2>3. results'[p][z] = Upserted(results[p][z], Bare(sheet[z]), "hand", NoSender)
    OBVIOUS
  <2> QED BY <2>1, <2>2, <2>3, UpsertedCell DEF B!ByHand
<1>2. /\ Book' = [Book EXCEPT ![p] = [z \in Puzzles |-> Cell(results'[p][z])]]
      /\ Book[p] = [z \in Puzzles |-> Cell(results[p][z])]
  BY BookColumn
<1>3. [z \in Puzzles |-> Cell(results'[p][z])] = [z \in Puzzles |-> IF z \in Z THEN {B!ByHand(sheet[z])} ELSE Book[p][z]]
  BY <1>1, <1>2
<1>4. Held' = Held /\ UNCHANGED identityOf
  BY HeldSame
<1> DEFINE entered == [z \in Z |-> sheet[z]]
<1>5. entered \in [Z -> Scores] /\ \A z \in Z : entered[z] = sheet[z]
  OBVIOUS
<1> HIDE DEF entered
<1>6. [z \in Puzzles |-> Cell(results'[p][z])] = [z \in Puzzles |-> IF z \in Z THEN {B!ByHand(entered[z])} ELSE Book[p][z]]
  BY <1>3, <1>5
<1>7. B!Enter(p, Z, entered)
  BY <1>2, <1>4, <1>6 DEF B!Enter
<1> QED BY <1>5, <1>7 DEF B!Next

\* Every correction by hand is one of the book's.
LEMMA HandKeeps ==
  ASSUME IInv, HandStep
  PROVE  B!Next
<1>1. ASSUME NEW p \in Players, NEW z \in Puzzles, NEW x \in Scores, SetResult(p, z, x) PROVE B!Next
  <2> DEFINE sheet == [y \in Puzzles |-> x]
  <2>1. results' = [results EXCEPT ![p][z] = Upserted(@, Bare(x), "hand", NoSender)] /\ UNCHANGED <<pending, identityOf>>
    BY <1>1 DEF SetResult
  <2>2. \A q \in Players \ {p}, y \in Puzzles : results'[q][y] = results[q][y]
    BY <2>1 DEF IInv, TypeOK
  <2>3. \A y \in Puzzles : results'[p][y] = IF y \in {z} THEN Upserted(results[p][y], Bare(x), "hand", NoSender)
                                            ELSE results[p][y]
    BY <2>1 DEF IInv, TypeOK
  <2>4. sheet \in [Puzzles -> Scores] /\ \A y \in Puzzles : sheet[y] = x
    OBVIOUS
  <2>5. \A y \in Puzzles : results'[p][y] = IF y \in {z} THEN Upserted(results[p][y], Bare(sheet[y]), "hand", NoSender)
                                            ELSE results[p][y]
    BY <2>3, <2>4
  <2> HIDE DEF sheet
  <2>6. Enters(p, {z}, sheet)
    BY <2>1, <2>2, <2>5 DEF Enters
  <2>7. {z} \in SUBSET Puzzles
    OBVIOUS
  <2> QED BY <2>4, <2>6, <2>7, EnterKeeps
<1>2. ASSUME NEW p \in Players, NEW z \in Puzzles, DeleteResult(p, z) PROVE B!Next
  <2>1. results' = [results EXCEPT ![p][z] = NoResult] /\ UNCHANGED <<pending, identityOf>>
    BY <1>2 DEF DeleteResult
  <2>2. Book' = [Book EXCEPT ![p][z] = {}]
    BY <2>1, BookCell DEF IInv, Cell
  <2>3. Held' = Held
    BY <2>1, HeldSame
  <2>4. B!Strike(p, z)
    BY <2>1, <2>2, <2>3 DEF B!Strike
  <2> QED BY <2>4 DEF B!Next
<1>3. ASSUME NEW p \in Players, NEW status \in {"active", "left"}, NEW cells \in SUBSET Puzzles,
             NEW sheet \in [Puzzles -> Scores], Backfill(p, status, cells, sheet)
      PROVE  B!Next
  <2>1. UNCHANGED <<pending, identityOf>>
    BY <1>3 DEF Backfill
  <2>2. \A q \in Players \ {p}, y \in Puzzles : results'[q][y] = results[q][y]
    BY <1>3 DEF Backfill, IInv, TypeOK
  <2>3. \A z \in Puzzles : results'[p][z] = IF z \in cells THEN Upserted(results[p][z], Bare(sheet[z]), "hand", NoSender)
                                            ELSE results[p][z]
    BY <1>3 DEF Backfill, IInv, TypeOK
  <2>4. Enters(p, cells, sheet)
    BY <2>1, <2>2, <2>3 DEF Enters
  <2> QED BY <2>4, EnterKeeps
<1> QED BY <1>1, <1>2, <1>3 DEF HandStep

\* Some senders become one player's, and everything held for them is filed there, in the
\* rows that are not by hand.
Claims(p, S) ==
  /\ \A s \in S : identityOf[s] = NoPlayer
  /\ identityOf' = [s \in Senders |-> IF s \in S THEN p ELSE identityOf[s]]
  /\ \A q \in Players \ {p}, z \in Puzzles : results'[q][z] = results[q][z]
  /\ \A z \in Puzzles :
       /\ results'[p][z] \in Row \cup {NoResult}
       /\ \/ /\ results'[p][z] = results[p][z]
             /\ ByHand(results[p][z]) \/ \A s \in S : pending[s][z] = NoHeld
          \/ /\ ~ByHand(results[p][z])
             /\ \E s \in S : /\ pending[s][z] # NoHeld
                             /\ Cell(results'[p][z]) = {B!Automatic(pending[s][z].score)}
  /\ \A s \in Senders : pending'[s] = IF s \in S THEN NothingHeld ELSE pending[s]

\* That is a claim of the book's.
LEMMA ClaimKeeps ==
  ASSUME IInv, NEW p \in Players, NEW S \in SUBSET Senders, Claims(p, S)
  PROVE  B!Next
<1> USE DEF Claims
<1> DEFINE column == [z \in Puzzles |-> Cell(results'[p][z])]
           Waits(z) == UNION {Held[s][z] : s \in S}
<1>1. Book' = [Book EXCEPT ![p] = column] /\ Book[p] = [z \in Puzzles |-> Cell(results[p][z])]
  BY BookColumn
<1>2. Held' = [s \in Senders |-> IF s \in S THEN [z \in Puzzles |-> {}] ELSE Held[s]]
  <2> DEFINE waits(t) == [z \in Puzzles |-> {post.score : post \in {pending[t][z]} \ {NoHeld}}]
             waits2(t) == [z \in Puzzles |-> {post.score : post \in {pending'[t][z]} \ {NoHeld}}]
  <2>1. ASSUME NEW t \in S PROVE waits2(t) = [z \in Puzzles |-> {}]
    <3>1. ASSUME NEW z \in Puzzles PROVE pending'[t][z] = NoHeld
      BY DEF NothingHeld
    <3>2. ASSUME NEW z \in Puzzles PROVE {post.score : post \in {pending'[t][z]} \ {NoHeld}} = {}
      BY <3>1
    <3> QED BY <3>2
  <2>2. ASSUME NEW t \in Senders \ S PROVE waits2(t) = waits(t)
    <3>1. pending'[t] = pending[t]
      OBVIOUS
    <3> QED BY <3>1
  <2>3. Held' = [t \in Senders |-> waits2(t)] /\ \A t \in Senders : Held[t] = waits(t)
    BY DEF Held
  <2> HIDE DEF waits, waits2
  <2> QED BY <2>1, <2>2, <2>3
<1>3. column \in [Puzzles -> B!Cells]
  BY CellsAre
<1>4. ASSUME NEW z \in Puzzles
      PROVE  column[z] \in IF Waits(z) # {} /\ B!Open(Book[p][z]) THEN {{B!Automatic(x)} : x \in Waits(z)} ELSE {Book[p][z]}
  <2>1. results[p][z] \in Row \cup {NoResult}
    BY DEF IInv, TypeOK
  <2>2. B!Open(Book[p][z]) <=> ~ByHand(results[p][z])
    BY <1>1, <2>1, CellsAre
  <2>3. CASE results'[p][z] = results[p][z] /\ (ByHand(results[p][z]) \/ \A s \in S : pending[s][z] = NoHeld)
    <3>1. column[z] = Book[p][z]
      BY <1>1, <2>3
    <3>2. (\A s \in S : pending[s][z] = NoHeld) => Waits(z) = {}
      BY HeldIs
    <3> HIDE DEF column, Waits
    <3> QED BY <2>2, <2>3, <3>1, <3>2
  <2>4. ASSUME ~ByHand(results[p][z]), NEW s \in S, pending[s][z] # NoHeld,
               Cell(results'[p][z]) = {B!Automatic(pending[s][z].score)}
        PROVE  <1>4!2
    <3>1. pending[s][z].score \in Waits(z)
      BY <2>4, HeldIs
    <3>2. column[z] = {B!Automatic(pending[s][z].score)}
      BY <2>4
    <3> HIDE DEF column, Waits
    <3> QED BY <2>2, <2>4, <3>1, <3>2
  <2> HIDE DEF column, Waits
  <2> QED BY <2>3, <2>4
<1> HIDE DEF column
<1>5. B!Claim(p, S)
  BY <1>1, <1>2, <1>3, <1>4 DEF B!Claim
<1> QED BY <1>5 DEF B!Next

\* What a replay leaves in a player's cell.
LEMMA ReplayedCell ==
  ASSUME IInv, NEW column \in Column, NEW s \in Senders, NEW z \in Puzzles
  PROVE  \/ /\ Replayed(column, s)[z] = column[z]
            /\ ByHand(column[z]) \/ pending[s][z] = NoHeld
         \/ /\ ~ByHand(column[z]) /\ ~ByHand(Replayed(column, s)[z]) /\ pending[s][z] # NoHeld
            /\ Cell(Replayed(column, s)[z]) = {B!Automatic(pending[s][z].score)}
<1>1. CASE pending[s][z] = NoHeld
  BY <1>1 DEF Replayed
<1>2. CASE pending[s][z] # NoHeld
  <2> DEFINE new == Upserted(column[z], pending[s][z], "token", s)
  <2>1. Replayed(column, s)[z] = new
    BY <1>2 DEF Replayed
  <2>2. column[z] \in Row \cup {NoResult} /\ pending[s][z] \in Post
    BY <1>2 DEF Column, IInv, TypeOK
  <2>3. \/ ByHand(column[z]) /\ new = column[z]
        \/ ~ByHand(column[z]) /\ Cell(new) = {B!Automatic(pending[s][z].score)}
    BY <2>2, UpsertedCell DEF B!Automatic
  <2>4. ByHand(column[z]) \/ new.by = "token"
    BY <2>2, UpsertedMark
  <2> HIDE DEF new
  <2>5. ByHand(column[z]) \/ ~ByHand(new)
    BY <2>4 DEF ByHand
  <2> QED BY <1>2, <2>1, <2>3, <2>5
<1> QED BY <1>1, <1>2

\* A claim files all that is held for its sender.
LEMMA LinkKeeps ==
  ASSUME IInv, NEW p \in Players, NEW s \in Senders, LinkIdentity(p, s)
  PROVE  B!Next
<1> DEFINE new == Replayed(results[p], s)
<1>1. results[p] \in Column /\ new \in Column
  BY Columns, ReplayedColumn DEF IInv
<1>2. /\ results' = [results EXCEPT ![p] = new] /\ pending' = [pending EXCEPT ![s] = NothingHeld]
      /\ identityOf[s] = NoPlayer /\ identityOf' = [identityOf EXCEPT ![s] = p]
  BY DEF LinkIdentity
<1>3. \A z \in Puzzles : \/ /\ new[z] = results[p][z]
                            /\ ByHand(results[p][z]) \/ pending[s][z] = NoHeld
                         \/ /\ ~ByHand(results[p][z]) /\ pending[s][z] # NoHeld
                            /\ Cell(new[z]) = {B!Automatic(pending[s][z].score)}
  BY <1>1, ReplayedCell
<1> HIDE DEF new
<1>4. results'[p] = new /\ \A q \in Players \ {p} : results'[q] = results[q]
  BY <1>2 DEF IInv, TypeOK
<1>5. \A t \in Senders : pending'[t] = IF t \in {s} THEN NothingHeld ELSE pending[t]
  BY <1>2 DEF IInv, TypeOK
<1>6. \A z \in Puzzles :
        /\ results'[p][z] \in Row \cup {NoResult}
        /\ \/ /\ results'[p][z] = results[p][z]
              /\ ByHand(results[p][z]) \/ \A t \in {s} : pending[t][z] = NoHeld
           \/ /\ ~ByHand(results[p][z])
              /\ \E t \in {s} : /\ pending[t][z] # NoHeld
                                /\ Cell(results'[p][z]) = {B!Automatic(pending[t][z].score)}
  BY <1>1, <1>3, <1>4 DEF Column
<1>7. \A q \in Players \ {p}, y \in Puzzles : results'[q][y] = results[q][y]
  BY <1>4
<1>8. identityOf' = [t \in Senders |-> IF t \in {s} THEN p ELSE identityOf[t]]
  BY <1>2 DEF IInv, TypeOK
<1>9. {s} \in SUBSET Senders /\ Claims(p, {s})
  BY <1>2, <1>5, <1>6, <1>7, <1>8 DEF Claims
<1> QED BY <1>9, ClaimKeeps

\* So does making a player for two senders: of a puzzle both have, the second's counts.
LEMMA CreateForKeeps ==
  ASSUME IInv, NEW p \in Players, NEW s \in Senders, NEW t \in Senders, CreatePlayerForSenders(p, s, t)
  PROVE  B!Next
<1> DEFINE once == Replayed(results[p], s)
           twice == Replayed(once, t)
           new == IF s = t THEN once ELSE twice
<1>1. results[p] \in Column /\ once \in Column /\ GoodColumn(once)
  BY Columns, ReplayedColumn DEF IInv
<1>2. /\ results' = [results EXCEPT ![p] = new]
      /\ pending' = [pending EXCEPT ![s] = NothingHeld, ![t] = NothingHeld]
      /\ identityOf[s] = NoPlayer /\ identityOf[t] = NoPlayer
      /\ identityOf' = [identityOf EXCEPT ![s] = p, ![t] = p]
  BY DEF CreatePlayerForSenders
<1>3. \A z \in Puzzles : results[p][z] = NoResult
  BY DEF CreatePlayerForSenders, IInv, RowsHavePlayers
<1>4. \A z \in Puzzles : ~ByHand(results[p][z])
  BY <1>3 DEF ByHand
<1>5. \A z \in Puzzles : \/ once[z] = results[p][z] /\ pending[s][z] = NoHeld
                         \/ /\ ~ByHand(once[z]) /\ pending[s][z] # NoHeld
                            /\ Cell(once[z]) = {B!Automatic(pending[s][z].score)}
  BY <1>1, <1>4, ReplayedCell
<1> HIDE DEF once
<1>6. \A z \in Puzzles : ~ByHand(once[z])
  BY <1>4, <1>5
<1>7. twice \in Column
  BY <1>1, ReplayedColumn DEF IInv
<1>8. \A z \in Puzzles : \/ twice[z] = once[z] /\ pending[t][z] = NoHeld
                         \/ /\ pending[t][z] # NoHeld
                            /\ Cell(twice[z]) = {B!Automatic(pending[t][z].score)}
  BY <1>1, <1>6, ReplayedCell
<1> HIDE DEF twice
<1>9. results'[p] = new /\ \A q \in Players \ {p} : results'[q] = results[q]
  BY <1>2 DEF IInv, TypeOK
<1>10. \A u \in Senders : pending'[u] = IF u \in {s, t} THEN NothingHeld ELSE pending[u]
  BY <1>2 DEF IInv, TypeOK
<1>11. ASSUME NEW z \in Puzzles
       PROVE  \/ results'[p][z] = results[p][z] /\ \A u \in {s, t} : pending[u][z] = NoHeld
              \/ \E u \in {s, t} : /\ pending[u][z] # NoHeld
                                   /\ Cell(results'[p][z]) = {B!Automatic(pending[u][z].score)}
  <2>1. CASE s = t
    BY <1>5, <1>9, <2>1
  <2>2. CASE s # t
    BY <1>5, <1>8, <1>9, <2>2
  <2> QED BY <2>1, <2>2
<1>12. \A z \in Puzzles : results'[p][z] \in Row \cup {NoResult}
  BY <1>1, <1>7, <1>9 DEF Column
<1>13. \A z \in Puzzles :
         /\ results'[p][z] \in Row \cup {NoResult}
         /\ \/ /\ results'[p][z] = results[p][z]
               /\ ByHand(results[p][z]) \/ \A u \in {s, t} : pending[u][z] = NoHeld
            \/ /\ ~ByHand(results[p][z])
               /\ \E u \in {s, t} : /\ pending[u][z] # NoHeld
                                    /\ Cell(results'[p][z]) = {B!Automatic(pending[u][z].score)}
  BY <1>4, <1>11, <1>12
<1>14. \A q \in Players \ {p}, y \in Puzzles : results'[q][y] = results[q][y]
  BY <1>9
<1>15. identityOf' = [u \in Senders |-> IF u \in {s, t} THEN p ELSE identityOf[u]]
  BY <1>2 DEF IInv, TypeOK
<1>16. {s, t} \in SUBSET Senders /\ Claims(p, {s, t})
  BY <1>2, <1>10, <1>13, <1>14, <1>15 DEF Claims
<1> QED BY <1>16, ClaimKeeps

\* A move takes automatic entries, since a row that names a sender is one.
LEMMA ReassignKeeps ==
  ASSUME IInv, NEW s \in Senders, NEW q \in Players, NEW move \in BOOLEAN, ReassignIdentity(s, q, move)
  PROVE  B!Next
<1> DEFINE p == identityOf[s]
           Z == Movable(s, p, q)
<1>1. p \in Players /\ p # q /\ UNCHANGED pending /\ identityOf' = [identityOf EXCEPT ![s] = q]
  BY DEF ReassignIdentity, IInv, TypeOK
<1>2. Held' = Held
  BY <1>1, HeldSame
<1>3. CASE results' = results
  <2>1. Book' = Book
    BY <1>3, BookSame
  <2>2. Book = [Book EXCEPT ![p] = [z \in Puzzles |-> IF z \in {} THEN {} ELSE Book[p][z]],
                            ![q] = [z \in Puzzles |-> IF z \in {} THEN Book[p][z] ELSE Book[q][z]]]
    BY <1>1 DEF Book
  <2>3. B!Move(s, p, q, {})
    BY <1>1, <1>2, <2>1, <2>2 DEF B!Move
  <2> QED BY <1>1, <2>3 DEF B!Next
<1>4. CASE results' = Moved(s, p, q, Z)
  <2>1. Z \in SUBSET Puzzles
    BY DEF Movable
  <2>2. ASSUME NEW z \in Z
        PROVE  Cell(results[p][z]) # {} /\ B!Open(Cell(results[p][z])) /\ results[q][z] = NoResult
    <3>1. results[p][z] # NoResult /\ results[p][z].identity = s /\ results[q][z] = NoResult /\ z \in Puzzles
      BY DEF Movable
    <3>2. results[p][z] \in Row \cup {NoResult} /\ s # NoSender
      BY <1>1, <3>1, NullsAreDistinct DEF IInv, TypeOK
    <3>3. ~ByHand(results[p][z])
      BY <1>1, <3>1, <3>2 DEF IInv, IdentityOnRows, ByHand
    <3> QED BY <3>1, <3>2, <3>3, CellsAre
  <2>3. \A r \in Players, z \in Puzzles :
          results'[r][z] = IF r = p THEN (IF z \in Z THEN NoResult ELSE results[p][z])
                           ELSE IF r = q THEN (IF z \in Z THEN results[p][z] ELSE results[q][z])
                           ELSE results[r][z]
    BY <1>1, <1>4 DEF Moved, IInv, TypeOK
  <2>0. p = identityOf[s]
    OBVIOUS
  <2> HIDE DEF p, Z
  <2>4. Cell(NoResult) = {}
    BY DEF Cell
  <2>5. \A r \in Players, z \in Puzzles : Book[r][z] = Cell(results[r][z])
    BY DEF Book
  <2>6. [z \in Puzzles |-> Cell(results'[p][z])] = [z \in Puzzles |-> IF z \in Z THEN {} ELSE Book[p][z]]
    BY <1>1, <2>3, <2>4, <2>5
  <2>7. [z \in Puzzles |-> Cell(results'[q][z])] = [z \in Puzzles |-> IF z \in Z THEN Book[p][z] ELSE Book[q][z]]
    BY <1>1, <2>3, <2>5
  <2>8. \A r \in Players \ {p, q} : [z \in Puzzles |-> Cell(results'[r][z])] = Book[r]
    BY <2>3 DEF Book
  <2>9. Book' = [Book EXCEPT ![p] = [z \in Puzzles |-> IF z \in Z THEN {} ELSE Book[p][z]],
                             ![q] = [z \in Puzzles |-> IF z \in Z THEN Book[p][z] ELSE Book[q][z]]]
    <3>1. Book' = [r \in Players |-> [z \in Puzzles |-> Cell(results'[r][z])]]
      BY DEF Book
    <3>2. DOMAIN Book = Players /\ Book = [r \in Players |-> Book[r]]
      BY DEF Book
    <3> DEFINE without == [z \in Puzzles |-> IF z \in Z THEN {} ELSE Book[p][z]]
               with    == [z \in Puzzles |-> IF z \in Z THEN Book[p][z] ELSE Book[q][z]]
               column(r) == [z \in Puzzles |-> Cell(results'[r][z])]
               moved == [Book EXCEPT ![p] = without, ![q] = with]
    <3>3. column(p) = without /\ column(q) = with /\ \A r \in Players \ {p, q} : column(r) = Book[r]
      BY <2>6, <2>7, <2>8
    <3>4. Book' = [r \in Players |-> column(r)]
      BY <3>1
    <3> HIDE DEF Book, without, with, column
    <3>5. moved = [r \in Players |-> moved[r]]
      BY <3>2
    <3>6. ASSUME NEW r \in Players PROVE moved[r] = column(r)
      BY <1>1, <3>2, <3>3
    <3>7. Book' = moved
      BY <3>4, <3>5, <3>6
    <3> QED BY <3>7 DEF without, with
  <2>10. \A z \in Z : Book[p][z] # {} /\ B!Open(Book[p][z]) /\ Book[q][z] = {}
    BY <1>1, <2>1, <2>2, <2>4, <2>5
  <2>11. B!Move(s, p, q, Z)
    BY <1>1, <1>2, <2>9, <2>10, <2>0 DEF B!Move
  <2> QED BY <1>1, <2>1, <2>11 DEF B!Next
<1> QED BY <1>3, <1>4 DEF ReassignIdentity

\* Unlinking a sender changes no score.
LEMMA UnlinkKeeps ==
  ASSUME IInv, NEW s \in Senders, UnlinkIdentity(s)
  PROVE  B!Next
<1>1. UNCHANGED pending /\ identityOf' = [identityOf EXCEPT ![s] = NoPlayer] /\ results' = [p \in Players |-> [z \in Puzzles |-> Cleared(results[p][z], s)]]
  BY DEF UnlinkIdentity
<1>2. ASSUME NEW p \in Players, NEW z \in Puzzles PROVE Cell(results'[p][z]) = Cell(results[p][z])
  <2>1. results'[p][z] = Cleared(results[p][z], s) /\ results[p][z] \in Row \cup {NoResult}
    BY <1>1 DEF IInv, TypeOK
  <2>2. CASE results'[p][z] = results[p][z]
    BY <2>2
  <2>3. CASE results[p][z] # NoResult /\ results'[p][z] = [results[p][z] EXCEPT !.identity = NoSender]
    <3>1. /\ results'[p][z] \in Row
          /\ results'[p][z].score = results[p][z].score /\ results'[p][z].by = results[p][z].by
      BY <2>1, <2>3 DEF Row
    <3>2. results'[p][z] # NoResult
      BY <3>1, NullsAreDistinct
    <3> QED BY <2>3, <3>1, <3>2 DEF Cell
  <2> QED BY <2>1, <2>2, <2>3 DEF Cleared
<1>3. B!Release(s)
  BY <1>1, <1>2, BookSame, HeldSame DEF B!Release
<1> QED BY <1>3 DEF B!Next

\* What is dropped waits no more.
LEMMA DropKeeps ==
  ASSUME IInv, DropHeldStep
  PROVE  B!Next
<1>1. ASSUME NEW s \in Senders, NEW old \in SUBSET Puzzles, UNCHANGED <<results, identityOf>>,
             pending' = [pending EXCEPT ![s] = [z \in Puzzles |-> IF z \in old THEN NoHeld ELSE pending[s][z]]]
      PROVE  B!Next
  <2>1. \A t \in Senders, z \in Puzzles :
          pending'[t][z] = IF t = s /\ z \in old THEN NoHeld ELSE pending[t][z]
    BY <1>1 DEF IInv, TypeOK
  <2>2. Held' = [Held EXCEPT ![s] = [z \in Puzzles |-> IF z \in old THEN {} ELSE Held[s][z]]]
    <3> DEFINE waits(t) == [z \in Puzzles |-> {post.score : post \in {pending[t][z]} \ {NoHeld}}]
               left(t)  == [z \in Puzzles |-> {post.score : post \in {pending'[t][z]} \ {NoHeld}}]
               kept     == [z \in Puzzles |-> IF z \in old THEN {} ELSE Held[s][z]]
    <3>1. Held = [t \in Senders |-> waits(t)] /\ Held' = [t \in Senders |-> left(t)]
      BY DEF Held
    <3>2. ASSUME NEW t \in Senders \ {s} PROVE left(t) = waits(t)
      BY <2>1
    <3>3. left(s) = kept
      <4>1. Held[s] = waits(s)
        BY <3>1
      <4>2. ASSUME NEW z \in old PROVE left(s)[z] = {}
        BY <2>1
      <4>3. ASSUME NEW z \in Puzzles \ old PROVE left(s)[z] = waits(s)[z]
        BY <2>1
      <4> QED BY <4>1, <4>2, <4>3
    <3> HIDE DEF waits, left, kept, Held
    <3>4. Held' = [Held EXCEPT ![s] = kept]
      BY <3>1, <3>2, <3>3
    <3> QED BY <3>4 DEF kept
  <2>3. B!Drop(s, old)
    BY <1>1, <2>2, BookSame DEF B!Drop
  <2> QED BY <2>3 DEF B!Next
<1>2. ASSUME NEW s \in Senders, DiscardPendingResults(s) PROVE B!Next
  <2>1. pending' = [pending EXCEPT ![s] = [z \in Puzzles |-> IF z \in Puzzles THEN NoHeld ELSE pending[s][z]]]
    BY <1>2 DEF DiscardPendingResults, NothingHeld
  <2> QED BY <1>1, <1>2, <2>1 DEF DiscardPendingResults
<1>3. ASSUME NEW s \in Senders, NEW old \in SUBSET Puzzles, DeleteExpiredPendingResults(s, old) PROVE B!Next
  BY <1>1, <1>3 DEF DeleteExpiredPendingResults
<1> QED BY <1>2, <1>3 DEF DropHeldStep

\* A demo that ends leaves the columns of those an invitation names.
LEMMA ClearKeeps ==
  ASSUME IInv, ClearStep
  PROVE  B!Next
<1>1. PICK blocked \in SUBSET Players : ClearDemoData(blocked)
  BY DEF ClearStep
<1> DEFINE row(r) == IF r # NoResult /\ r.identity # NoSender /\ ~(identityOf[r.identity] \in blocked)
                     THEN [r EXCEPT !.identity = NoSender] ELSE r
<1>2. /\ results' = [p \in Players |-> [z \in Puzzles |-> IF p \in blocked THEN row(results[p][z]) ELSE NoResult]]
      /\ pending' = [s \in Senders |-> NothingHeld]
      /\ identityOf' = [s \in Senders |-> IF identityOf[s] \in blocked THEN identityOf[s] ELSE NoPlayer]
  BY <1>1 DEF ClearDemoData
<1>3. ASSUME NEW p \in blocked, NEW z \in Puzzles PROVE Cell(results'[p][z]) = Cell(results[p][z])
  <2>1. results'[p][z] = row(results[p][z]) /\ results[p][z] \in Row \cup {NoResult}
    BY <1>2 DEF IInv, TypeOK
  <2>2. CASE results'[p][z] = results[p][z]
    BY <2>2
  <2>3. CASE results[p][z] # NoResult /\ results'[p][z] = [results[p][z] EXCEPT !.identity = NoSender]
    <3>1. /\ results'[p][z] \in Row
          /\ results'[p][z].score = results[p][z].score /\ results'[p][z].by = results[p][z].by
      BY <2>1, <2>3 DEF Row
    <3>2. results'[p][z] # NoResult
      BY <3>1, NullsAreDistinct
    <3> QED BY <2>3, <3>1, <3>2 DEF Cell
  <2> QED BY <2>1, <2>2, <2>3
<1>4. ASSUME NEW p \in Players \ blocked, NEW z \in Puzzles PROVE Cell(results'[p][z]) = {}
  BY <1>2 DEF Cell
<1> HIDE DEF row
<1>5. Book' = [p \in Players |-> IF p \in blocked THEN Book[p] ELSE [z \in Puzzles |-> {}]]
  BY <1>3, <1>4 DEF Book
<1>6. Held' = [s \in Senders |-> [z \in Puzzles |-> {}]]
  BY <1>2 DEF Held, NothingHeld
<1>7. B!Clear(blocked)
  BY <1>2, <1>5, <1>6 DEF B!Clear
<1> QED BY <1>7 DEF B!Next

\* Every step is one of the score book's, or none of its business.
LEMMA StepKeeps == IInv /\ [Next]_vars => [B!Next]_(B!vars)
<1> SUFFICES ASSUME IInv, [Next]_vars PROVE B!Next \/ UNCHANGED B!vars
  OBVIOUS
<1>1. CASE UNCHANGED <<results, pending, identityOf>>
  BY <1>1, BookSame, HeldSame DEF B!vars
<1>2. \/ UNCHANGED <<results, pending, identityOf>>
      \/ \E c \in Callers : Hold(c) \/ Write(c)
      \/ HandStep \/ IdentityStep \/ DropHeldStep \/ ClearStep
  BY DEF Next, vars, CallStep, AdminStep, Crash, ApplyFromSender, ApplyNamed,
     WriteFails, storeVars, RosterStep, CreatePlayer, SetMembership
<1>3. CASE IdentityStep
  BY <1>3, LinkKeeps, CreateForKeeps, ReassignKeeps, UnlinkKeeps DEF IdentityStep
<1> QED BY <1>1, <1>2, <1>3, HoldKeeps, WriteKeeps, HandKeeps, DropKeeps, ClearKeeps

\* Results and held results implement the score book: whatever is in flight, every step
\* files, holds, claims, moves, releases, drops, enters, strikes or clears as the book allows.
THEOREM KeepsBookHolds == Spec => KeepsBook
<1>1. IInv /\ [Next]_vars => [B!Next]_(B!vars)
  BY StepKeeps
<1>2. Init => B!Init
  BY BookStarts
<1> QED BY <1>1, <1>2, Invariance, PTL DEF Spec, KeepsBook, B!Spec
=============================================================================

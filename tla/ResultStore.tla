---------------------------- MODULE ResultStore ----------------------------
(***************************************************************************)
(* The part of the SQLite database that results live in, and the          *)
(* transactions of internal/store that write it: players, the senders      *)
(* claimed for them (player_identities), the results, and the results held *)
(* for senders nobody has claimed (pending_results).                       *)
(*                                                                         *)
(* One connection serves the whole process and SQLite admits one writer,   *)
(* so every store.InTx body is one atomic action here.  What is NOT atomic *)
(* - a submission's look-up, then its hold or its write - is in Ingest.    *)
(*                                                                         *)
(* Abstractions.  A score stands for (guesses, solved); a grid for the     *)
(* score it draws, which is all Grid.Agrees reads of it.  An identity row  *)
(* is named by its sender, because UNIQUE (source, external_id) allows one *)
(* row per sender and deleting it clears every reference to it.  hard_mode *)
(* (overwritten with the score), received_at, names, slugs, display hints  *)
(* and the activity log are left out.                                      *)
(***************************************************************************)
EXTENDS Integers

CONSTANTS
  Players,        \* everyone who may ever have a row in players
  Senders,        \* (source, external_id) pairs that post
  Puzzles,        \* puzzle numbers
  Scores,         \* scores a result can carry
  Times,          \* instants a result can be posted at
  NoPlayer, NoSender, NoGrid, Never, NoResult, NoHeld,  \* SQL's NULL and "no row"
  PendingExpires, \* PENDING_RETENTION is set: the janitor drops old held rows
  DemoMode        \* DEMO_MODE is set: players may be deleted

Post   == [score : Scores, grid : Scores \cup {NoGrid}, posted : Times \cup {Never}]
Row    == [score : Scores, by : {"token", "hand"}, identity : Senders \cup {NoSender},
           posted : Times \cup {Never}, grid : Scores \cup {NoGrid}]
Status == {"absent", "active", "left"}

ASSUME NullsAreDistinct ==
  /\ NoPlayer \notin Players /\ NoSender \notin Senders
  /\ NoGrid \notin Scores /\ Never \notin Times
  /\ NoResult \notin Row /\ NoHeld \notin Post

ASSUME ConfigurationFlags == PendingExpires \in BOOLEAN /\ DemoMode \in BOOLEAN

VARIABLES
  member,      \* [Players -> Status]: no row, or players.active
  identityOf,  \* [Senders -> Players or NoPlayer]: player_identities
  results,     \* [Players -> [Puzzles -> Row or NoResult]]
  pending      \* [Senders -> [Puzzles -> Post or NoHeld]]: pending_results

storeVars == <<member, identityOf, results, pending>>

StoreInit ==
  /\ member     = [p \in Players |-> "absent"]
  /\ identityOf = [s \in Senders |-> NoPlayer]
  /\ results    = [p \in Players |-> [z \in Puzzles |-> NoResult]]
  /\ pending    = [s \in Senders |-> [z \in Puzzles |-> NoHeld]]

Exists(p) == member[p] # "absent"

(***************************************************************************)
(* UpsertResult                                                            *)
(***************************************************************************)

\* The grid agrees with the score, or there is none: Submission.validGrid.
Agrees(post) == post.grid \in {NoGrid, post.score}

\* A correction by hand or from a sheet: a bare score.
Bare(score) == [score |-> score, grid |-> NoGrid, posted |-> Never]

\* A bug: an automated write always lands.
RefusedNever(old, by) == FALSE

\* A token write against a row entered by hand.
Refused(old, by) == old # NoResult /\ by = "token" /\ old.by = "hand"

\* A bug: the newest posting wins.
LastPosted(old, new) == IF new # Never THEN new ELSE old

\* posted_at = COALESCE(posted_at, ?)
FirstPosted(old, new) == IF old # Never THEN old ELSE new

\* A bug: the stored squares outlive a correction of the score.
KeptGridAlways(old, post) == IF post.grid # NoGrid THEN post.grid ELSE old.grid

\* The squares left beside the score after an update.
KeptGrid(old, post) ==
  IF post.grid # NoGrid THEN post.grid
  ELSE IF old.score = post.score THEN old.grid ELSE NoGrid

Inserted(post, by, identity) ==
  [score |-> post.score, by |-> by, identity |-> identity,
   posted |-> post.posted, grid |-> post.grid]

Updated(old, post, by, identity) ==
  [score |-> post.score, by |-> by, identity |-> identity,
   posted |-> FirstPosted(old.posted, post.posted), grid |-> KeptGrid(old, post)]

\* The row that UpsertResult leaves where `old' was.
Upserted(old, post, by, identity) ==
  IF Refused(old, by) THEN old
  ELSE IF old = NoResult THEN Inserted(post, by, identity) ELSE Updated(old, post, by, identity)

(***************************************************************************)
(* The automated writes, parameterised by what Ingest resolved.            *)
(***************************************************************************)

\* store.HoldPendingResult: a repost overwrites the score and the squares, and
\* keeps the first time of posting.
Merged(old, post) ==
  IF old = NoHeld THEN post
  ELSE [post EXCEPT !.posted = FirstPosted(old.posted, post.posted)]

HoldPendingResult(s, z, post) ==
  /\ pending' = [pending EXCEPT ![s][z] = Merged(@, post)]
  /\ UNCHANGED <<member, identityOf, results>>

\* ReactivatePlayer, when the arrival may reactivate.
Reactivated(p, live) == IF live THEN [member EXCEPT ![p] = "active"] ELSE member

\* The transaction of ingest.write: return the player, then file the result.  A
\* refused result still commits the return.
FileResult(p, z, post, identity, live) ==
  /\ member'  = Reactivated(p, live)
  /\ results' = [results EXCEPT ![p][z] = Upserted(@, post, "token", identity)]
  /\ UNCHANGED <<identityOf, pending>>

(***************************************************************************)
(* Identities: claim, add, reassign, unlink, discard                       *)
(***************************************************************************)

\* A bug: the mapping is made and the held rows go, but nothing is replayed.
ReplayedNothing(column, s) == column

\* Player p's column after replaying everything held for s.
Replayed(column, s) ==
  [z \in Puzzles |-> IF pending[s][z] = NoHeld THEN column[z]
                     ELSE Upserted(column[z], pending[s][z], "token", s)]

NothingHeld == [z \in Puzzles |-> NoHeld]

\* A bug: what was held is replayed and stays held.
LinkKeepsHeld(p, s) ==
  /\ Exists(p)
  /\ identityOf[s] = NoPlayer
  /\ identityOf' = [identityOf EXCEPT ![s] = p]
  /\ results'    = [results EXCEPT ![p] = Replayed(@, s)]
  /\ UNCHANGED <<member, pending>>

\* store.LinkIdentity: claim, add, and the web's assign.
LinkIdentity(p, s) ==
  /\ Exists(p)
  /\ identityOf[s] = NoPlayer
  /\ identityOf' = [identityOf EXCEPT ![s] = p]
  /\ results'    = [results EXCEPT ![p] = Replayed(@, s)]
  /\ pending'    = [pending EXCEPT ![s] = NothingHeld]
  /\ UNCHANGED member

CreatePlayer(p) ==
  /\ ~Exists(p)
  /\ member' = [member EXCEPT ![p] = "active"]
  /\ UNCHANGED <<identityOf, results, pending>>

\* store.CreatePlayerForSenders with the senders s and t, replayed in that
\* order; s = t is the form with one sender.  A form naming more than two is
\* the same replay again and is not modelled.
CreatePlayerForSenders(p, s, t) ==
  /\ ~Exists(p)
  /\ identityOf[s] = NoPlayer /\ identityOf[t] = NoPlayer
  /\ member'     = [member EXCEPT ![p] = "active"]
  /\ identityOf' = [identityOf EXCEPT ![s] = p, ![t] = p]
  /\ results'    = [results EXCEPT ![p] = IF s = t THEN Replayed(@, s)
                                          ELSE Replayed(Replayed(@, s), t)]
  /\ pending'    = [pending EXCEPT ![s] = NothingHeld, ![t] = NothingHeld]

\* A bug: the new player's own result does not stand in the way.
MovableOver(s, p, q) ==
  {z \in Puzzles : /\ results[p][z] # NoResult
                   /\ results[p][z].identity = s}

\* The puzzles whose result moves with sender s from player p to player q: the
\* rows this identity wrote for p, where q has none.
Movable(s, p, q) ==
  {z \in Puzzles : /\ results[p][z] # NoResult
                   /\ results[p][z].identity = s
                   /\ results[q][z] = NoResult}

Moved(s, p, q, Z) ==
  [results EXCEPT ![p] = [z \in Puzzles |-> IF z \in Z THEN NoResult ELSE results[p][z]],
                  ![q] = [z \in Puzzles |-> IF z \in Z THEN results[p][z] ELSE results[q][z]]]

\* A bug: the rows move and the mapping is forgotten.
ReassignForgets(s, q, move) ==
  LET p == identityOf[s] IN
  /\ p # NoPlayer /\ p # q /\ Exists(q)
  /\ results' = IF move THEN Moved(s, p, q, Movable(s, p, q)) ELSE results
  /\ UNCHANGED <<member, identityOf, pending>>

\* store.ReassignIdentity, with or without --move-results.
ReassignIdentity(s, q, move) ==
  LET p == identityOf[s] IN
  /\ p # NoPlayer /\ p # q /\ Exists(q)
  /\ identityOf' = [identityOf EXCEPT ![s] = q]
  /\ results'    = IF move THEN Moved(s, p, q, Movable(s, p, q)) ELSE results
  /\ UNCHANGED <<member, pending>>

\* A bug: the rows keep pointing at the identity that is gone.
ClearedNot(row, s) == row

\* results.identity_id REFERENCES player_identities ON DELETE SET NULL
Cleared(row, s) ==
  IF row # NoResult /\ row.identity = s THEN [row EXCEPT !.identity = NoSender] ELSE row

\* store.UnlinkIdentity
UnlinkIdentity(s) ==
  /\ identityOf[s] # NoPlayer
  /\ identityOf' = [identityOf EXCEPT ![s] = NoPlayer]
  /\ results'    = [p \in Players |-> [z \in Puzzles |-> Cleared(results[p][z], s)]]
  /\ UNCHANGED <<member, pending>>

\* store.DiscardPendingResults
DiscardPendingResults(s) ==
  /\ pending[s] # NothingHeld
  /\ pending' = [pending EXCEPT ![s] = NothingHeld]
  /\ UNCHANGED <<member, identityOf, results>>

\* store.DeleteExpiredPendingResults: any of the held rows may be past the
\* window, received_at not being modelled.
DeleteExpiredPendingResults(s, old) ==
  /\ PendingExpires
  /\ \E z \in old : pending[s][z] # NoHeld
  /\ pending' = [pending EXCEPT ![s] = [z \in Puzzles |-> IF z \in old THEN NoHeld ELSE pending[s][z]]]
  /\ UNCHANGED <<member, identityOf, results>>

(***************************************************************************)
(* Writes by hand                                                          *)
(***************************************************************************)

\* cmd/wordleland results set: entered_by is the acting admin.
SetResult(p, z, score) ==
  /\ Exists(p)
  /\ results' = [results EXCEPT ![p][z] = Upserted(@, Bare(score), "hand", NoSender)]
  /\ UNCHANGED <<member, identityOf, pending>>

\* store.DeleteResult
DeleteResult(p, z) ==
  /\ results[p][z] # NoResult
  /\ results' = [results EXCEPT ![p][z] = NoResult]
  /\ UNCHANGED <<member, identityOf, pending>>

\* One column of a backfilled sheet: the player is made if need be, membership
\* is set to what the mapping declares, and each cell that differs from the row
\* it is for is entered by hand.  `cells' are those: a cell may differ in
\* hard_mode alone, so one whose score is already there is or is not among them.
\* Columns touch different players, so a sheet of several is several such steps.
Backfill(p, status, cells, sheet) ==
  /\ member'  = [member EXCEPT ![p] = status]
  /\ results' = [results EXCEPT ![p] =
                   [z \in Puzzles |-> IF z \in cells THEN Upserted(results[p][z], Bare(sheet[z]), "hand", NoSender)
                                      ELSE results[p][z]]]
  /\ UNCHANGED <<identityOf, pending>>

\* store.UpdatePlayer: an admin, or the player, changes membership.
SetMembership(p, status) ==
  /\ Exists(p) /\ member[p] # status
  /\ member' = [member EXCEPT ![p] = status]
  /\ UNCHANGED <<identityOf, results, pending>>

\* store.ClearDemoData: every player not blocked by an invitation goes, with
\* results and identities; so do the references to those identities, and
\* everything held.
ClearDemoData(blocked) ==
  LET kept(s) == identityOf[s] \in blocked
      row(r)  == IF r # NoResult /\ r.identity # NoSender /\ ~kept(r.identity)
                 THEN [r EXCEPT !.identity = NoSender] ELSE r
  IN
  /\ DemoMode
  /\ member'     = [p \in Players |-> IF p \in blocked THEN member[p] ELSE "absent"]
  /\ identityOf' = [s \in Senders |-> IF kept(s) THEN identityOf[s] ELSE NoPlayer]
  /\ results'    = [p \in Players |-> [z \in Puzzles |->
                      IF p \in blocked THEN row(results[p][z]) ELSE NoResult]]
  /\ pending'    = [s \in Senders |-> NothingHeld]

(***************************************************************************)
(* Who acts, for the properties of Ingest to name.                         *)
(***************************************************************************)
HandStep ==
  \E p \in Players :
    \/ \E z \in Puzzles, x \in Scores : SetResult(p, z, x)
    \/ \E z \in Puzzles : DeleteResult(p, z)
    \/ \E status \in {"active", "left"}, cells \in SUBSET Puzzles, sheet \in [Puzzles -> Scores] :
         Backfill(p, status, cells, sheet)

IdentityStep ==
  \E s \in Senders :
    \/ \E p \in Players : LinkIdentity(p, s)
    \/ \E p \in Players, t \in Senders : CreatePlayerForSenders(p, s, t)
    \/ \E q \in Players, move \in BOOLEAN : ReassignIdentity(s, q, move)
    \/ UnlinkIdentity(s)

DropHeldStep ==
  \E s \in Senders :
    \/ DiscardPendingResults(s)
    \/ \E old \in SUBSET Puzzles : DeleteExpiredPendingResults(s, old)

RosterStep ==
  \E p \in Players :
    \/ CreatePlayer(p)
    \/ \E status \in {"active", "left"} : SetMembership(p, status)

ClearStep == \E blocked \in SUBSET Players : ClearDemoData(blocked)

=============================================================================

------------------------------- MODULE Ingest -------------------------------
(***************************************************************************)
(* internal/ingest: a submission is looked up on the connection pool, and  *)
(* only then held or written, in a statement or transaction of its own.    *)
(* Several are in flight at once - the bridge's worker and any number of   *)
(* API requests - while admins claim, move, unlink and correct from the    *)
(* web pages and from the CLI, which is another process.                   *)
(*                                                                         *)
(* A caller is one goroutine inside ingest.Apply.  The bridge's retry of a *)
(* failed delivery is another call with the same submission.               *)
(***************************************************************************)
EXTENDS ResultStore

CONSTANTS
  Callers,   \* goroutines that may be inside ingest.Apply
  Posts,     \* the submissions' payloads that a run tries
  NoCall     \* the caller is not inside ingest.Apply

\* What a caller is about to do with its submission: hold it, or write it to the
\* sender's player or to a player named outright.
Call == [stage : {"hold", "write"}, sender : Senders \cup {NoSender},
         player : Players \cup {NoPlayer}, puzzle : Puzzles, post : Post, live : BOOLEAN]

ASSUME PostsValidated == Posts \subseteq {post \in Post : Agrees(post)}
ASSUME NoCallIsNoCall == NoCall \notin Call

VARIABLE calls    \* [Callers -> Call or NoCall]

vars == <<member, identityOf, results, pending, calls>>

Init == StoreInit /\ calls = [c \in Callers |-> NoCall]

Finish(c) == calls' = [calls EXCEPT ![c] = NoCall]

\* ingest.Apply for a named sender, up to and including the ResolveIdentity on
\* the pool.  All it decides is whether to hold or to write: which player is
\* written to is resolved again inside write's transaction.
ApplyFromSender(c, s, z, post, live) ==
  /\ calls[c] = NoCall
  /\ calls' = [calls EXCEPT ![c] =
       [stage |-> IF identityOf[s] = NoPlayer THEN "hold" ELSE "write",
        sender |-> s, player |-> NoPlayer, puzzle |-> z, post |-> post, live |-> live]]
  /\ UNCHANGED storeVars

\* ingest.Apply for a player_id or a slug: the player is looked up once, on the
\* pool, and never counts as evidence of a return.
ApplyNamed(c, p, z, post) ==
  /\ calls[c] = NoCall
  /\ Exists(p)
  /\ calls' = [calls EXCEPT ![c] =
       [stage |-> "write", sender |-> NoSender, player |-> p,
        puzzle |-> z, post |-> post, live |-> FALSE]]
  /\ UNCHANGED storeVars

Hold(c) ==
  /\ calls[c] # NoCall /\ calls[c].stage = "hold"
  /\ HoldPendingResult(calls[c].sender, calls[c].puzzle, calls[c].post)
  /\ Finish(c)

\* The player a write lands on, as its transaction sees it.
Target(call) == IF call.sender = NoSender THEN call.player ELSE identityOf[call.sender]

\* A bug: nothing checks that the player named is still there.
CanWriteUnchecked(call) == Target(call) # NoPlayer

\* The transaction can commit: the sender resolves, or the player named is
\* still there to satisfy the foreign key.
CanWrite(call) == Target(call) # NoPlayer /\ Exists(Target(call))

Write(c) ==
  /\ calls[c] # NoCall /\ calls[c].stage = "write"
  /\ CanWrite(calls[c])
  /\ FileResult(Target(calls[c]), calls[c].puzzle, calls[c].post,
                calls[c].sender, calls[c].live)
  /\ Finish(c)

\* The transaction rolls back and Apply returns the error.
WriteFails(c) ==
  /\ calls[c] # NoCall /\ calls[c].stage = "write"
  /\ ~CanWrite(calls[c])
  /\ Finish(c)
  /\ UNCHANGED storeVars

\* The process stops.  What has committed stays; what was in flight is gone.
Crash ==
  /\ \E c \in Callers : calls[c] # NoCall
  /\ calls' = [c \in Callers |-> NoCall]
  /\ UNCHANGED storeVars

CallStep ==
  \E c \in Callers :
    \/ \E s \in Senders, z \in Puzzles, post \in Posts, live \in BOOLEAN :
         ApplyFromSender(c, s, z, post, live)
    \/ \E p \in Players, z \in Puzzles, post \in Posts : ApplyNamed(c, p, z, post)
    \/ Hold(c)
    \/ Write(c)
    \/ WriteFails(c)

AdminStep == HandStep \/ IdentityStep \/ DropHeldStep \/ RosterStep \/ ClearStep

Next == CallStep \/ Crash \/ (AdminStep /\ UNCHANGED calls)

Spec == Init /\ [][Next]_vars

(***************************************************************************)
(* Invariants                                                              *)
(***************************************************************************)

\* Every table holds rows of its schema, and every call a submission.
TypeOK ==
  /\ member     \in [Players -> Status]
  /\ identityOf \in [Senders -> Players \cup {NoPlayer}]
  /\ results    \in [Players -> [Puzzles -> Row \cup {NoResult}]]
  /\ pending    \in [Senders -> [Puzzles -> Post \cup {NoHeld}]]
  /\ calls      \in [Callers -> Call \cup {NoCall}]

\* A row names an identity only if it was written automatically, and only one
\* that still exists: `reassign --move-results' moves by identity alone, so a
\* hand-entered row that kept one would be moved with it.
IdentityOnRows ==
  \A p \in Players, z \in Puzzles :
    (results[p][z] # NoResult /\ results[p][z].identity # NoSender) =>
      /\ results[p][z].by = "token"
      /\ identityOf[results[p][z].identity] # NoPlayer

\* The squares beside a score are the squares of that score, on results and on
\* what is held, through reposts, corrections, replays and moves.
GridsAgree ==
  /\ \A p \in Players, z \in Puzzles :
       results[p][z] # NoResult => results[p][z].grid \in {NoGrid, results[p][z].score}
  /\ \A s \in Senders, z \in Puzzles : pending[s][z] # NoHeld => Agrees(pending[s][z])

\* Nothing belongs to a player who is not there.
RowsHavePlayers ==
  \A p \in Players : ~Exists(p) =>
    /\ \A z \in Puzzles : results[p][z] = NoResult
    /\ \A s \in Senders : identityOf[s] # p

(***************************************************************************)
(* Action properties                                                       *)
(***************************************************************************)

ByHand(row) == row # NoResult /\ row.by = "hand"

\* A result entered by hand changes only by a hand: no post, replay, claim or
\* move rewrites it or takes it away, whatever was in flight.
HandEntryStands ==
  [][\/ \A p \in Players, z \in Puzzles : ByHand(results[p][z]) => results'[p][z] = results[p][z]
     \/ HandStep \/ ClearStep]_vars

\* A held result leaves pending_results only when its puzzle has a result for
\* the player the sender now maps to, or when somebody or the retention window
\* drops it.
HeldUntilReplayed ==
  [][\/ \A s \in Senders, z \in Puzzles :
          (pending[s][z] # NoHeld /\ pending'[s][z] = NoHeld) =>
            \E p \in Players : identityOf'[s] = p /\ results'[p][z] # NoResult
     \/ DropHeldStep \/ ClearStep]_vars

\* No result is silently dropped: unless it is unset by hand, a row that leaves
\* a player is found, unchanged, with another who had none for that puzzle.
ResultsOnlyMove ==
  [][\/ \A p \in Players, z \in Puzzles :
          (results[p][z] # NoResult /\ results'[p][z] = NoResult) =>
            \E q \in Players : results[q][z] = NoResult /\ results'[q][z] = results[p][z]
     \/ HandStep \/ ClearStep]_vars

\* A row that is written for a sender, or moved with it, is with the player the
\* sender maps to once the step is over - not with the one it mapped to when the
\* submission was looked up.
RowsFollowSender ==
  [][\A p \in Players, z \in Puzzles :
       (/\ results'[p][z] # NoResult
        /\ results'[p][z].identity # NoSender
        /\ results'[p][z] # results[p][z]) => identityOf'[results'[p][z].identity] = p]_vars

\* Once a result has a time of posting, no repost, correction or replay moves it.
FirstPostingKept ==
  [][\A p \in Players, z \in Puzzles :
       (/\ results[p][z] # NoResult /\ results'[p][z] # NoResult
        /\ results[p][z].posted # Never) => results'[p][z].posted = results[p][z].posted]_vars

(***************************************************************************)
(* What Ingest implements                                                  *)
(***************************************************************************)

\* The score book: a row's score and how it was entered, and the score of what is held.
Cell(row) == IF row = NoResult THEN {} ELSE {[score |-> row.score, by |-> row.by]}

Book == [p \in Players |-> [z \in Puzzles |-> Cell(results[p][z])]]

Held == [s \in Senders |-> [z \in Puzzles |-> {post.score : post \in {pending[s][z]} \ {NoHeld}}]]

B == INSTANCE ScoreBook WITH Nobody <- NoPlayer, book <- Book, waiting <- Held, owner <- identityOf

\* Whatever is in flight and whoever is at it, what happens to the scores is one of
\* the nine things that happen to a score book: above all a claim files everything
\* held for its sender in the step that clears it.
KeepsBook == B!Spec

(***************************************************************************)
(* What comments in the code say and the code does not do                  *)
(***************************************************************************)

\* The pending pages list senders nobody has claimed: what was held is replayed
\* and cleared by the claim.
ClaimedHoldNothing ==
  \A s \in Senders : identityOf[s] # NoPlayer => pending[s] = NothingHeld

=============================================================================

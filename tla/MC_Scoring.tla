---------------------------- MODULE MC_Scoring ----------------------------
(* An instance of Site, and so of all that is computed, for TLC. *)
EXTENDS Site

Failure == [guesses |-> 0, hard |-> TRUE]
Three   == [guesses |-> 3, hard |-> FALSE]
FailureAndThree == {Failure, Three}

\* A month of two days with a day before it, and the month after it.
TwoMonths == {[first |-> 2, end |-> 4], [first |-> 4, end |-> 6]}

\* The first player may post on any of four days, the second in the first month
\* only, and the third on one day of it.
Turnout == ({1} \X (1..4)) \cup ({2} \X {2, 3}) \cup {<<3, 3>>}

\* The page as it comes, with failures left out and missed days counted, and with
\* hard mode only.
Pages ==
  LET Page(xAsSeven, missed, hardOnly) ==
        [countXAsSeven |-> xAsSeven, countMissed |-> missed, hardModeOnly |-> hardOnly]
  IN  {DefaultOptions, Page(FALSE, TRUE, FALSE), Page(TRUE, FALSE, TRUE)}

\* So many days and games that a player of this instance can earn most traits.
FewDays == [streak |-> 1, ironman |-> 3, veteran |-> 3, flawless |-> 2, lately |-> 2, clean |-> 2]
=============================================================================

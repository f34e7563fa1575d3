-------------------------- MODULE MCDiscordHistory --------------------------
(* Model values and sets for checking DiscordHistory.                       *)
EXTENDS DiscordHistory, TLC

NoBlank   == {}
ThirdBlank == {3}
OldBlank  == {1, 2}

Readers == Permutations(Reader)

-----------------------------------------------------------------------------
(* Statements of the program's comments that the code does not keep.       *)

\* catch_up_channel: what was said while nobody was listening appears:
\* once it is done, no kept message has a missing one between it and an
\* older kept one, where neither it nor a read of older messages looks.
CatchingUp == \E r \in Reader : read[r].kind = "after"
CaughtUpIsComplete ==
    caughtUp /\ ~CatchingUp =>
        \A s, t \in stored : \A i \in Live \ Blank :
            s < i /\ i < t => i \in stored

\* record_message: what is not announced, because it is kept already, was
\* announced before, and the notification it deserves given.
DispatchedIsAnnounced ==
    \A i \in (base + 1)..pos : i \notin Blank => told[i] # 0

\* MESSAGE_DELETE "removes the row outright": a message of the session whose
\* deletion was handled does not come back.
StaysDeleted ==
    [][\A i \in gone :
          i > base /\ i \notin dels /\ i \notin stored => i \notin stored']_vars

=============================================================================

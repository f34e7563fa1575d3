-------------------------- MODULE MCDiscordGateway --------------------------
(* DiscordGateway with short sessions: READY, one server, one message.     *)
EXTENDS DiscordGateway, TLC

OneGuild == {2}
NoGuild == {}
Ids == Permutations(Session)

-----------------------------------------------------------------------------
(* Statements of the program's comments that the code does not keep.       *)

\* explain(): a login is held because the account "has already logged in"
\* as often as the budget allows in the last hour.
HeldForLogins ==
    pc = "held" => \A i \in 1..Len(history) : history[i]

\* connect_anyway: pressing it "cannot leave a pass waiting for some later
\* hold".
NoPassWaiting == permit => pc = "held"

\* The heartbeat gives a connection up only when nothing answers it: an ack
\* "landing between ticks is exactly what keeps this connection from ever
\* being declared zombied".
GivesUp == ~beat.stale /\ beat'.stale
ZombieIsSilent == [][GivesUp => beat.wire # "ack"]_vars

\* removeAccount: "a removed account must not leave its servers and friends
\* in a file".
RemovedLeavesNoFile == ~account => disk = NoFiles

=============================================================================

--------------------------- MODULE MCIrcLifecycle ---------------------------
(* IrcLifecycle on small sets of handlers, loops and attempts.             *)
EXTENDS IrcLifecycle, FiniteSets

-----------------------------------------------------------------------------
(* Statements of the program's comments that the code does not keep.       *)

\* connect.rs:53: "Guarantee at most one live connection attempt per account."
OneAttempt ==
    Quiet => Cardinality({a \in Attempt : est[a] # "dead" /\ a \notin cancelled}) <= 1

\* "it stops when the account is switched off": with requests answered and
\* the account off, no loop is left that will connect it again.
NoUnaskedRetry ==
    Quiet /\ ~wants => \A l \in Loop : at[l] = "sleeping" => aborted[l]

OffIsOff ==
    Quiet /\ ~wants /\ connState = "connected"
        => (\E l \in Loop : Live(l)) \/ (\E a \in Attempt : est[a] # "dead")

\* connect_generation: "cleanup only actually applies if its generation is
\* still the current one".
CleanupIsCurrent ==
    [][\A l \in Loop : FinishStamp(l) => gen[l] = curGen]_vars

\* "must still leave the account in a resolved (not stuck-connecting) state".
ConnectingHasLoop ==
    Quiet /\ connState = "connecting" => \E l \in Loop : Live(l)

\* run(): "The route goes with the connection".
RouteGoesWithConnection ==
    transport => \E a \in Attempt : est[a] = "open"

\* removeAccount: nothing of a removed account lingers in listBuffers.
RemovedLeavesNoBuffer == Quiet /\ ~account => ~buffer

=============================================================================

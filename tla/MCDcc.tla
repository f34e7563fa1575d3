------------------------------- MODULE MCDcc -------------------------------
(* Instances of Dcc for TLC, and statements of its source the code does    *)
(* not keep.                                                               *)
EXTENDS Dcc, TLC

CONSTANTS f1, f2

Two == f1 :> 2
TwoAndTwo == f1 :> 2 @@ f2 :> 2
Three == f1 :> 3

\* The statements of irc/dcc.rs below are not kept; no run lists them.

\* "Separating them is how a list ends up disagreeing with itself over a
\* restart" (announce, dcc.rs:1694-1696): a transfer at rest is in the table as
\* it is in the list.  The end of a connection declines without a row.
ListIsWrittenDown ==
    \A t \in Transfer : ~Taken(t) /\ t \notin declining => row[t] = state[t]

\* "Small enough that cancelling is felt immediately" (CHUNK, dcc.rs:644-646):
\* under OwnFairSpec, a sender that is silent holds a cancelled transfer.
CancelIsFelt ==
    \A t \in Transfer : (stop[t] /\ state[t] = "receiving") ~> state[t] # "receiving"

\* "The listener is dropped either way" (serve_file, dcc.rs:1128-1129): an
\* outgoing offer that stands is one somebody can take.  One added after the
\* connection went stays offered without a port.
OfferCanBeTaken ==
    \A t \in Transfer : state[t] = "offered" /\ kind[t] = "outgoing" => Taken(t)

\* "Turns an offer down" (cancel, dcc.rs:1665): a finished transfer stays so.
\* A cancel that read the offer before it was accepted declines it afterwards.
DoneStaysDone ==
    [][\A t \in Transfer : state[t] = "done" => state'[t] \in {"done", "none"}]_vars
=============================================================================

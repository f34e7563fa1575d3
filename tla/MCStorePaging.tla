--------------------------- MODULE MCStorePaging ---------------------------
(* Bounds for TLC are in the .cfg files; nothing is overridden.            *)
EXTENDS StorePaging

-----------------------------------------------------------------------------
(* A statement of the program's comments that the code does not keep.      *)

\* messages_between: passing the last timestamp of one page as the after of
\* the next does not drop a message.  What was there when the reader began,
\* and is still there at the end, was read.
NothingDropped == walk = "done" => range \cap rows \subseteq got

=============================================================================

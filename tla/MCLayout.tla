------------------------------ MODULE MCLayout ------------------------------
(* An instance of Layout for TLC, and statements of its source the code    *)
(* does not keep.                                                          *)
EXTENDS Layout

\* The statements below are not kept where a constant of Layout lets the case
\* happen; no run lists them.
\*
\* "Removes the restored ones it never confirmed" (runtime.rs:1406): it is
\* ListedIsShown that fails, with MayRefile (a confirmed room the service took
\* out of its space is still filed there for the daemon, and goes with it) or
\* with MayReturn and MaxChange = 2 (listed after the task took it).
\*
\* "Writes the layout whenever it has changed" (main.rs:391-392):
\* SavedCatchesUp, with MayOvertake (a layout that changed for the copy only)
\* or with MayFail.

\* "Waits for quiet rather than a fixed time, because how long a backend takes
\* to list everything varies", "and stops if the account drops again"
\* (runtime.rs:1409-1416): OnlyGoneIsTaken and ListedIsShown, with MayHurry (the
\* quiet is that of an earlier connection; the service has listed nothing yet).

\* "So the next start can show it at once" (main.rs:392): not for an account
\* has_account does not look for, although it says "on any service"
\* (accounts.rs:719-721); with Known = FALSE.
LayoutIsPutBack ==
    [][starts' # starts => live' = saved' /\ rail' = savedRail']_layoutVars
=============================================================================

---------------------------- MODULE MCBoardStore ----------------------------
(***************************************************************************)
(* Two goroutines and the ticker on one board.                             *)
(***************************************************************************)
EXTENDS BoardStore, TLC

CONSTANTS t1, t2, ticker

\* Every operation of the store; a new user is as "archive", without its flush.
AllCalls == {"board", "chat", "archive", "force", "restore", "export", "unload", "drop", "stop"}

\* What can leave a record dirty, and what can get in the ticker's way.
Dirtying == {"board", "archive", "force", "restore", "unload"}

\* What can meet an eviction.
Evicting == {"board", "unload"}

Symmetry == Permutations({t1, t2})
=============================================================================

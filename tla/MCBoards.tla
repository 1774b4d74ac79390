------------------------------ MODULE MCBoards ------------------------------
(* Instances of the board model for TLC.                                   *)
EXTENDS Boards, TLC

CONSTANTS todo, done, again, open, closed, b1

(* Columns of one board.                                                   *)
OneBoard == todo :> b1 @@ done :> b1 @@ again :> b1

(* Two columns for the same status.                                        *)
Rivals == todo :> open @@ done :> closed @@ again :> open

Symmetric == Permutations(Requests) \union Permutations({todo, again})
=============================================================================

----------------------------- MODULE MCListener -------------------------------
(* A range, a neighbor in it, a range of any local address that overlaps it,  *)
(* and one next to that: a session that moves up reaches the next range.      *)
EXTENDS Listener
MCSockets == <<1, 2>>
MCNeighbors ==
    <<[start |-> 4, size |-> 4, local |-> 1], [start |-> 5, size |-> 1, local |-> 1],
      [start |-> 6, size |-> 2, local |-> NoNextHop], [start |-> 8, size |-> 2, local |-> 2]>>
===============================================================================

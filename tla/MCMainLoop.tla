------------------------------ MODULE MCMainLoop ------------------------------
(* A KEEPALIVE (a header alone), an UPDATE that is discarded and another       *)
(* KEEPALIVE, with a header of two octets, and a hold time of three seconds or *)
(* none.                                                                       *)
EXTENDS MainLoop, TLC
MCEnd == 0 :> 0 @@ 1 :> 2 @@ 2 :> 5 @@ 3 :> 7
==============================================================================

---------------------------- MODULE MCUpstreamRR -----------------------------
(* Small instances of UpstreamRR for TLC. *)
EXTENDS UpstreamRR, TLC

CONSTANTS a, b, c

(* Two servers, a server and a backup server, a server of its own. *)
Shapes == {[primary |-> <<a, b>>, backup |-> <<>>],
           [primary |-> <<b>>, backup |-> <<c>>],
           [primary |-> <<b>>, backup |-> <<>>]}

(* server a weight=2 max_fails=0; server b; server c backup; *)
Weights == (a :> 2 @@ b :> 1 @@ c :> 1)
Limits == (a :> 0 @@ b :> 1 @@ c :> 1)
=============================================================================

--------------------------- MODULE MCAddressClaim ---------------------------
(* Up to three nodes that prefer the same address; the one with the        *)
(* weakest NAME is not arbitrary address capable.  Node 1's partner is 2.  *)
EXTENDS AddressClaim

MCPreferred == [n \in Nodes |-> 1]

MCFilter == [n \in Nodes |-> IF n = 1 THEN {2} ELSE {}]

Calm(nodes) == [nodes |-> nodes, partner |-> {}, fail |-> 0, power |-> 0,
                talk |-> 0, command |-> 0]

(* Three nodes start together; or two, and besides a node is restarted or  *)
(* both lose power, and an application talks; a driver refuses a frame; an *)
(* application talks and a tool commands an address; node 1 looks for its  *)
(* partner.                                                                *)
MCScenarios ==
    {Calm({1, 2, 3}),
     [Calm({1, 2}) EXCEPT !.power = 2, !.talk = 1],
     [Calm({1, 2}) EXCEPT !.fail = 1],
     [Calm({1, 2}) EXCEPT !.talk = 1, !.command = 1],
     [Calm({1, 2}) EXCEPT !.talk = 1, !.partner = {1}]}

(* Three nodes, and a driver that refuses one frame.                       *)
RefusedFrame == {[Calm({1, 2, 3}) EXCEPT !.fail = 1]}
=============================================================================

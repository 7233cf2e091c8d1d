--------------------------- MODULE MCConnections ---------------------------
(* Two agents of one name that come and go; a caller and an agent; an agent   *)
(* with a remote method that Klippy calls; one bridge; a server that stops.                     *)
EXTENDS Connections

CONSTANTS w1, w2, u1, b1

MCPlans ==
  {[conns |-> {w1, w2}, bridges |-> {}, messages |-> 3, kinds |-> {"identify", "register"},
    leaves |-> {w1, w2}, stops |-> FALSE],
   [conns |-> {w1, u1}, bridges |-> {}, messages |-> 3, kinds |-> {"identify", "call", "response"},
    leaves |-> {u1}, stops |-> FALSE],
   [conns |-> {w1, w2}, bridges |-> {}, messages |-> 3, kinds |-> {"identify", "call", "response"},
    leaves |-> {w2}, stops |-> FALSE],
   [conns |-> {w2}, bridges |-> {}, messages |-> 4, kinds |-> {"identify", "register", "method", "event"},
    leaves |-> {w2}, stops |-> FALSE],
   [conns |-> {w1, u1}, bridges |-> {b1}, messages |-> 1, kinds |-> {"identify"},
    leaves |-> {}, stops |-> TRUE],
   [conns |-> {w1}, bridges |-> {b1}, messages |-> 3, kinds |-> {}, leaves |-> {b1}, stops |-> TRUE]}
=============================================================================

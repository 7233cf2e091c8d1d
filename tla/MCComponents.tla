---------------------------- MODULE MCComponents ----------------------------
(* Two spools, topics, files and prints; a git repository whose service a      *)
(* release restarts, too; a power device of each kind.                          *)
EXTENDS Components

CONSTANTS q1, q2

MCBudget ==
  [spoolman |-> [asks |-> 1, changes |-> 4, failures |-> 1, all |-> 5],
   power |-> [asks |-> 1, changes |-> 2, failures |-> 1, all |-> 3],
   mqtt |-> [asks |-> 2, changes |-> 1, failures |-> 1, all |-> 4],
   updates |-> [asks |-> 2, changes |-> 1, failures |-> 1, all |-> 3],
   files |-> [asks |-> 1, changes |-> 1, failures |-> 0, all |-> 2],
   timelapse |-> [asks |-> 3, changes |-> 4, failures |-> 1, all |-> 6],
   firmware |-> [asks |-> 3, changes |-> 3, failures |-> 1, all |-> 7],
   projector |-> [asks |-> 1, changes |-> 3, failures |-> 1, all |-> 5],
   server |-> [asks |-> 1, changes |-> 2, failures |-> 1, all |-> 4],
   installation |-> [asks |-> 2, changes |-> 2, failures |-> 1, all |-> 5],
   announcements |-> [asks |-> 2, changes |-> 2, failures |-> 1, all |-> 4],
   simplyprint |-> [asks |-> 2, changes |-> 2, failures |-> 1, all |-> 5],
   folders |-> [asks |-> 0, changes |-> 3, failures |-> 0, all |-> 3],
   switches |-> [asks |-> 1, changes |-> 1, failures |-> 1, all |-> 3],
   fields |-> [asks |-> 2, changes |-> 2, failures |-> 1, all |-> 4],
   repository |-> [asks |-> 2, changes |-> 1, failures |-> 1, all |-> 4],
   services |-> [asks |-> 1, changes |-> 1, failures |-> 1, all |-> 3],
   paneldue |-> [asks |-> 2, changes |-> 1, failures |-> 1, all |-> 3],
   configfile |-> [asks |-> 2, changes |-> 0, failures |-> 1, all |-> 3],
   filerequests |-> [asks |-> 2, changes |-> 1, failures |-> 1, all |-> 3],
   http |-> [asks |-> 2, changes |-> 1, failures |-> 1, all |-> 3],
   packages |-> [asks |-> 1, changes |-> 1, failures |-> 1, all |-> 3],
   wled |-> [asks |-> 2, changes |-> 0, failures |-> 1, all |-> 3],
   buttons |-> [asks |-> 0, changes |-> 3, failures |-> 1, all |-> 4],
   webcams |-> [asks |-> 2, changes |-> 1, failures |-> 1, all |-> 4],
   sessions |-> [asks |-> 3, changes |-> 1, failures |-> 1, all |-> 4]]

Gpio == [kind |-> "gpio", locked |-> TRUE, offShutdown |-> "delayed", timer |-> TRUE,
         restart |-> TRUE, restrict |-> TRUE, service |-> FALSE, initial |-> None]
Rf == [kind |-> "rf", locked |-> FALSE, offShutdown |-> "no", timer |-> TRUE,
       restart |-> FALSE, restrict |-> TRUE, service |-> FALSE, initial |-> "on"]
Http == [kind |-> "http", locked |-> TRUE, offShutdown |-> "now", timer |-> FALSE,
         restart |-> TRUE, restrict |-> FALSE, service |-> TRUE, initial |-> "on"]
Klipper == [kind |-> "klipper", locked |-> FALSE, offShutdown |-> "no", timer |-> TRUE,
            restart |-> FALSE, restrict |-> FALSE, service |-> TRUE, initial |-> None]
MCDevices == {Gpio, Rf, Http, Klipper}

MCOrder == <<"client", "klipper">>
MCManaged == [a \in {"client", "klipper"} |-> {"klipper"}]
=============================================================================

-------------------------- MODULE KlippyLifecycle --------------------------
(***************************************************************************)
(* What the components of Moonraker are told about Klippy: of every        *)
(* connection that it was identified, started and became ready, in that    *)
(* order and each at most once, and that it was lost before they hear of   *)
(* the next one.  KlippyConnection implements this specification.          *)
(***************************************************************************)
VARIABLE phase   \* what listeners were last told of the current connection

Phases == {"off", "identified", "started", "ready"}

Init == phase = "off"

Identified == phase = "off" /\ phase' = "identified"
Started == phase = "identified" /\ phase' = "started"
Ready == phase = "started" /\ phase' = "ready"
Disconnected == phase' = "off"

Next == Identified \/ Started \/ Ready \/ Disconnected

Spec == Init /\ [][Next]_phase
=============================================================================

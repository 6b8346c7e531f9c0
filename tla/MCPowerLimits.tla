--------------------------- MODULE MCPowerLimits ---------------------------
(***************************************************************************)
(* Instances of PowerLimits for TLC: one slot, so that a second session    *)
(* already meets the base limit, and levels 0 to 1.                        *)
(***************************************************************************)
EXTENDS PowerLimits

CONSTANTS cp1

OneChargePoint == [c \in Connectors |-> cp1]
OneSlot == <<330>>
TwoSlots == <<330, 195>>
Reports == {-1, 1}
=============================================================================

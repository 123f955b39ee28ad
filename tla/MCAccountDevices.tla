-------------------------- MODULE MCAccountDevices --------------------------
(* A small instance of AccountDevices for TLC: two slots, one account that *)
(* is known by its folder only, and room for two devices.                  *)
EXTENDS AccountProperties, TLC

CONSTANTS slotA, slotB, other

TwoSlots == <<slotA, slotB>>
OneHash == [x \in Accounts |-> 0]
NoRosters == {{}}
=============================================================================

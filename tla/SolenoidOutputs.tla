--------------------------- MODULE SolenoidOutputs ---------------------------
(***************************************************************************)
(* The eighteen solenoids of the planter, the four MCP23017 ports that     *)
(* drive them and the tables that say which solenoids each operator        *)
(* command energises (fold_sequence.cpp, plant_control.cpp,                *)
(* mcp23017_output_safety.h).  Constant operators only: a row of a table   *)
(* is the set of solenoids it energises, a port value is the set of its    *)
(* pins that are driven high, each pin named by its solenoid.              *)
(***************************************************************************)
EXTENDS Integers, FiniteSets

CONSTANT RELAY_ACTIVE_LOW       \* mcp23017_output_safety.h: trigger polarity

ASSUME PolarityAssumption == RELAY_ACTIVE_LOW \in BOOLEAN

Solenoids == 1..18

(* Ports in the order in which every routine of the code writes them:      *)
(* MCP23017 #1 port A, #1 port B, #2 port A, #2 port B.                    *)
Ports == 1..4

BoardOf(p) == IF p <= 2 THEN 0 ELSE 1

(* The pins of a port that drive a solenoid; port 4 (#2 B) drives none.    *)
Pins(p) == IF p = 1 THEN 1..8
           ELSE IF p = 2 THEN 9..16
           ELSE IF p = 3 THEN 17..18
           ELSE {}

Groups == {"Unfold", "Fold"}

Steps == 1..6

(* Step 1 first; the code numbers the rows from 0.                         *)
FOLD_STATES == <<
    {1, 3, 7, 10, 11, 12, 14, 16, 17, 18},
    {1, 3, 5, 7, 9, 10, 12, 14, 16, 17, 18},
    {1, 3, 7, 12, 16, 17, 18},
    {1, 3, 5, 7, 10, 12, 14, 16, 17, 18},
    {1, 3, 5, 7, 10, 12, 14, 16, 17, 18},
    {1, 3, 7, 10, 12, 14, 16, 17, 18} >>

UNFOLD_STATES == <<
    {1, 3, 5, 6, 7, 8, 9, 12, 16, 17, 18},
    {1, 3, 5, 7, 9, 10, 12, 14, 16, 17, 18},
    {1, 3, 7, 10, 11, 12, 14, 16, 17, 18},
    {1, 3, 7, 10, 12, 14, 16, 17, 18},
    {1, 3, 5, 7, 12, 16, 17, 18},
    {1, 3, 5, 7, 9, 10, 12, 14, 16, 17, 18} >>

(* The solenoids of the action whose 0-based step is s.                    *)
ActionRow(g, s) == IF g = "Fold" THEN FOLD_STATES[s + 1]
                                 ELSE UNFOLD_STATES[s + 1]

PlantModes == {"IDLE", "LIMITED_LIFT", "FULL_LIFT", "LOWERED"}

PLANT_LIFT_STATES == {1, 2, 3, 4, 7, 12, 16, 17, 18}

PlantRow(m) == IF m \in {"LIMITED_LIFT", "FULL_LIFT"}
               THEN PLANT_LIFT_STATES ELSE {}

(* The level byte for a set of solenoids of port p to be energised, and,   *)
(* as it is its own inverse, the solenoids a level byte energises.         *)
relay_output_byte(p, bits) ==
    IF RELAY_ACTIVE_LOW THEN Pins(p) \ bits ELSE bits \cap Pins(p)
=============================================================================

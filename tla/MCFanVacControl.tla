--------------------------- MODULE MCFanVacControl ---------------------------
(* An instance of FanVacControl for TLC.  The gains are the code's; limits *)
(* and the fan's step are scaled so that a few presses reach both ends of  *)
(* its range, the vacuum's target is fixed, and the readings are at rest,  *)
(* near the 80 % threshold and absurd.                                     *)
EXTENDS FanVacControl

Both(f, v) == [d \in Drives |-> IF d = "fan" THEN f ELSE v]

MCMin     == Both(1000, 200)
MCMax     == Both(2500, 300)
MCStep    == Both(900, 0)
MCDefault == Both(1500, 250)
MCKp      == Both(10, 16)       \* 0.5 and 0.8, in twentieths
MCKi      == Both(2, 4)         \* 0.1 and 0.2
MCKd      == Both(1, 1)         \* 0.05
MCReadings == Both({0, 2400, 65535}, {100, 400})
=============================================================================

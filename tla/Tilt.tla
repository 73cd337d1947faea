-------------------------------- MODULE Tilt --------------------------------
(***************************************************************************)
(* How the sensor thread reads a tilt off the accelerometer: classify() of *)
(* orientation_sensor.cpp.  Screen takes its results as they come          *)
(* (SensorTilt); GeometryProofs says what they are, for every reading.     *)
(***************************************************************************)
EXTENDS Integers

kDominanceThreshold == 6000
Abs(n) == IF n < 0 THEN -n ELSE n

(* Flat on the table: the last orientation is kept.                        *)
Flat(x, y, z) == Abs(z) > Abs(x) /\ Abs(z) > Abs(y)

Classify(x, y, z) ==
    IF Flat(x, y, z) THEN "Unknown"
    ELSE IF Abs(y) > Abs(x)
         THEN IF Abs(y) < kDominanceThreshold THEN "Unknown"
              ELSE IF y > 0 THEN "PortraitUp" ELSE "PortraitDown"
         ELSE IF Abs(x) < kDominanceThreshold THEN "Unknown"
              ELSE IF x > 0 THEN "LandscapeLeft" ELSE "LandscapeRight"
=============================================================================

---------------------------- MODULE MCApplication ----------------------------
(* The program for TLC: a window of two, and four columns of the display.     *)
(* The means of 1 and 31 are 0, 1, 15, 16 and 31: no digit, one and two, and  *)
(* both sides of 16, where the dots change rows.  (The means of the program's *)
(* own window, of twenty temperatures from 15 to 29, begin with 0 and go up   *)
(* to 29.)                                                                   *)
EXTENDS Application

TwoTemperatures == {1, 31}
LeastTemperature == {15}
=============================================================================

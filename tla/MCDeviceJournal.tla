-------------------------- MODULE MCDeviceJournal --------------------------
(* DeviceJournal for TLC: an operation id that is asked for with two       *)
(* different commands.                                                     *)
EXTENDS DeviceJournal

CONSTANTS o1, i1, i2

MCRequests == {<<o1, i1>>, <<o1, i2>>}
=============================================================================

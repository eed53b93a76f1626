---------------------------- MODULE MCAttendance ----------------------------
(* AttendanceRegistry for TLC, with corrections that may move the end of an *)
(* encounter back.                                                          *)
EXTENDS AttendanceRegistry

OneCouple == [e \in Encounters |-> "couple"]
AnyTimes == [Encounters -> [Revisions -> 1..3]]
=============================================================================

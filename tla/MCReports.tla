------------------------------ MODULE MCReports ------------------------------
(***************************************************************************)
(* Instances of Reports for TLC, on those of Attendance.                   *)
(***************************************************************************)
EXTENDS Reports, MCAttendance
=============================================================================

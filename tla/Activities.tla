----------------------------- MODULE Activities -----------------------------
(***************************************************************************)
(* What the program does besides the confirmed actions and the searches of *)
(* its server: the commands for setup, enrolment and discovery             *)
(* (internal/cli, RunWithRuntime), the search for a meeting time, and the  *)
(* changes to the OWA calendar.  These share nothing in the program but    *)
(* its dispatch, so one of them runs; what others do to the same files,    *)
(* calendars and accounts meanwhile is part of each.                       *)
(***************************************************************************)
EXTENDS SetupApply, DeviceCode, Discovery, FindTime, CalendarEvents

VARIABLE activity

Activity == {"setup", "auth graph-device-code", "owa", "calendar.find_time",
             "calendar"}

activityVars == << activity, setupVars, enrolVars, discoverVars, findVars,
                   calendarVars >>

TypeOK ==
  /\ activity \in Activity
  /\ SetupTypeOK /\ EnrolTypeOK /\ DiscoverTypeOK /\ FindTypeOK /\ CalendarTypeOK

Init ==
  /\ activity \in Activity
  /\ SetupInit /\ EnrolInit /\ DiscoverInit /\ FindInit /\ CalendarInit

RunSetup ==
  /\ activity = "setup" /\ SetupNext
  /\ UNCHANGED << activity, enrolVars, discoverVars, findVars, calendarVars >>

RunEnrolment ==
  /\ activity = "auth graph-device-code" /\ EnrolNext
  /\ UNCHANGED << activity, setupVars, discoverVars, findVars, calendarVars >>

RunDiscovery ==
  /\ activity = "owa" /\ DiscoverNext
  /\ UNCHANGED << activity, setupVars, enrolVars, findVars, calendarVars >>

RunFindTime ==
  /\ activity = "calendar.find_time" /\ FindNext
  /\ UNCHANGED << activity, setupVars, enrolVars, discoverVars, calendarVars >>

ChangeCalendar ==
  /\ activity = "calendar" /\ CalendarNext
  /\ UNCHANGED << activity, setupVars, enrolVars, discoverVars, findVars >>

Next == RunSetup \/ RunEnrolment \/ RunDiscovery \/ RunFindTime \/ ChangeCalendar

Spec == Init /\ [][Next]_activityVars

Fairness ==
  /\ SetupFairness /\ EnrolFairness /\ DiscoverFairness /\ FindFairness
  /\ CalendarFairness

FairSpec == Spec /\ Fairness
-----------------------------------------------------------------------------
(* Whatever was started ends, unless the process waits for a server that   *)
(* neither answers nor lets the connection time out.                       *)
ActivityEnds == SetupEnds /\ EnrolmentEnds /\ DiscoveryEnds /\ FindTimeEnds /\ CallsEnd
=============================================================================

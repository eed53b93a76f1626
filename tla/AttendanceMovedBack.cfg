\* Two visits of a couple, one of which is corrected to have ended earlier.
SPECIFICATION AttendanceSpec
CONSTANTS
  Parties = {"couple"}
  Encounters = {1, 2}
  Revisions = {0, 1}
  PartyOf <- OneCouple
  ClosingTimes <- AnyTimes
  Projects = {p1}
  Receivers = {r1}
  NoCouple = NoCouple
  NoProject = NoProject
INVARIANTS
  LastIsNewest

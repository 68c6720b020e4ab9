SPECIFICATION Spec
CONSTANTS
  Layers = {"A", "B"}
  Links <- BothWays
  Grades = {"g", "h"}
INVARIANTS
  ViewsAgree
  RoutesAreCurrent
  LinkTableAgrees
CHECK_DEADLOCK FALSE

CONSTANTS
  MaxLogins = 2
  MaxRestores = 2
  MaxResumes = 0
SPECIFICATION Spec
INVARIANTS
  ShellWithoutScript
CHECK_DEADLOCK FALSE

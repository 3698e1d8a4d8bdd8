CONSTANTS
  Sources <- MCSources
  WantedModes <- MCModes
  MaxDepth = 4
  MaxErrors = 3
SPECIFICATION MCSpec
INVARIANTS
  LayoutBalanced VerdictIsRight RecoveryReported NestingMirrorsGoals
  TokensFitLines TokensFitText
PROPERTIES Termination
CHECK_DEADLOCK FALSE

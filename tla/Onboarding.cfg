SPECIFICATION Spec
CHECK_DEADLOCK FALSE
SYMMETRY Symmetry
CONSTANTS
  first = first
  second = second
  Inspectors = {first, second}
  Text <- Texts
  Environment <- Expansion
  References <- Variables
  Requests <- CommandLines
  Applications <- Deployed
  Files <- Layouts
  OddFiles <- Odd
  MaxChanges = 1
INVARIANTS
  ConfirmedTargetsStay
  SoundFilesLoad
  AcceptedFilesBuild
  SuggestionsHold

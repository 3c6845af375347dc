\* The same instance against what the header says of the read.
SPECIFICATION HSpec
CONSTANTS
  Statuses <- MCStatuses
  SelectWrites <- MCSelections
INVARIANT SelectionHolds

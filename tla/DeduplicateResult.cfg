SPECIFICATION Spec
CONSTANTS
  Words = {0, 1, 2}
  Pads = {0, 2}
  Editions = {1, 2}
  Lengths = {0, 1}
  Hash <- Sha
  MaxItems = 3
INVARIANTS
  TypeOK
  ResultIsReference
  ResultOrdered
  SecondPassIdle
CHECK_DEADLOCK FALSE

SPECIFICATION LiveSpec
CONSTANTS
  Files <- MCFiles
  Addresses <- MCAddresses
  Paths <- MCPaths
  MaxEdits = 2
  MaxOutside = 1
  MaxPolls = 1
INVARIANTS
  EditsTouchNothingElse
  WhatASaveFoundSurvives
  NoOldSettingsAreServed
PROPERTIES
  ThisStartIsShown
  ApplyEnds
CHECK_DEADLOCK FALSE

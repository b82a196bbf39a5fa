SPECIFICATION ReadingSpec
CONSTANTS
  Attachments <- MCAttachments
  MaxInput = 8
  MaxText = 10
  TagSize = 2
  Labels <- MCLabels
  SequenceLength = 5
INVARIANTS
  EntitiesAreMaximalRuns
  WhatFitsIsRead
  WorkIsBounded
CHECK_DEADLOCK FALSE

SPECIFICATION FairSpec
CONSTANTS
  Entries <- MCEntries
  Junk <- MCJunk
  MaxEntries = 3
  Cuts <- MCCuts
INVARIANTS
  MembersApart
  MembersAreExact
PROPERTY Terminates
\* A reader returns: its last state has no step.
CHECK_DEADLOCK FALSE

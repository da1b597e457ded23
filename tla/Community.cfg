CONSTANTS
  Host = host
  Guests = {g1}
  Starts = {c1, c2}
  NoOne = none
  MaxInvitations = 2
  MaxDebates = 2
  MaxFaults = 1
SPECIFICATION LiveSpec
INVARIANTS OnePending ActiveIsUnderway
PROPERTIES FollowsInvitations InvitationsAreDecided

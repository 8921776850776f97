CONSTANTS
  alice = alice
  bob = bob
  carol = carol
  dave = dave
  Users <- FourUsers
  Account <- Accounts
  PrefsFiles <- Files
  Faults <- AllFaults
SPECIFICATION FairSpec
INVARIANTS
  OnlySelectedUsers
  AliveIsWatched
PROPERTIES
  OneAtATime
  SignalReachesAll
  NoOrphans
CHECK_DEADLOCK FALSE

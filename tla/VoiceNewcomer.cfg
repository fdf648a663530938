SPECIFICATION Spec
CONSTANTS
  ann = ann
  bob = bob
  cem = cem
  Users = {ann, bob, cem}
  NumSockets = 3
  Owner <- OwnerThree
  PushToTalk = {}
  Toggling = {}
  Unsteady = {}
  Gathering = {}
INVARIANT NewcomerOffersToAll
CHECK_DEADLOCK FALSE

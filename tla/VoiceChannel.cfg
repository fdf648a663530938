SPECIFICATION Spec
CONSTANTS
  ann = ann
  bob = bob
  cem = cem
  Users = {ann, bob}
  NumSockets = 3
  Owner <- OwnerReconnect
  PushToTalk = {2}
  Toggling = {1}
  Unsteady = {3}
  Gathering = {2}
INVARIANTS RoomHoldsLiveSockets MeshIsComplete 
CHECK_DEADLOCK FALSE

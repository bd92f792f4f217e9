SPECIFICATION AgendaSpec
CONSTANTS
  Workers = {w1, w2}
  Users = {organizer}
  organizer = organizer
  Tokens = {k1, k2}
  Events = {e1}
  Sessions = {s1}
  Times = {1, 2}
  OwnerOf <- MCOwnerOf
  NoUser = NoUser
  NoToken = NoToken
  Same = Same
  NoRow = NoRow
  NoEdit = NoEdit
SYMMETRY Symmetry
INVARIANTS
  AgendaTypeOK
  OneCreator
  RotationRetires
PROPERTIES
  BlacklistedGainsNothing
  OnlyStaleRevives
  OnlyPartialDisorders
  DeletedGainsNothing
CHECK_DEADLOCK FALSE

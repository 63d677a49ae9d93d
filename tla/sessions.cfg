CONSTANTS
  a1 = a1
  a1_and_more = a1_and_more
  r2 = r2
  Sockets = {s1, s2}
  Workers = {w1, w2}
  Receivers = {x1}
  Ids = {a1, a1_and_more}
  Account <- MCAccount
  NickName <- MCNickName
  Rooms = {a1, r2}
  LongNames = {a1_and_more, r2}
  Garbled = Garbled
  Empty = Empty
ACTION_CONSTRAINTS
  OverlapsOnce
  LongNamesApart
SYMMETRY Symmetry
SPECIFICATION Spec
INVARIANTS
  TypeOK
  NoDuplicateLogin
  NoOrphanId
  RoomsMatchSessions
  
  ConnectedSocketsAreLive
  LookupsFind
  NoEmptyRoomLingers
PROPERTIES
  RoomChangeViaLobby
  IsLoginService

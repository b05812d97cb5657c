\* A connection of each of two users, three messages into buffers of two.
SPECIFICATION Spec
CONSTANTS
    c1 = c1  c2 = c2  u1 = u1  u2 = u2
    Clients = {c1, c2}
    Users = {u1, u2}
    UserOf <- OneTab
    Messages = {m1, m2, m3}
    SendCap = 2
    MaxRooms = 2
INVARIANTS
    ChannelsSound
    RoomsReclaimed
PROPERTIES
    ConnectionsEnd
CHECK_DEADLOCK FALSE

SPECIFICATION EstablishedSpec
CONSTANTS
    p1 = p1  w1 = w1  k1 = k1  k2 = k2  c1 = c1  grp = grp
    None = None
    Names = {c1}
    Sessions = {p1, w1}
    Pusher = {p1}
    Workers = {k1, k2}
    Broker = broker
    Owner <- MCOwner
    Prefix <- MCPrefix
    Requests <- MCBroadcast
    MaxInst = 2
    MaxOps = 1
PROPERTIES CallsReturn RegistrySettles
CHECK_DEADLOCK FALSE

SPECIFICATION Spec
CONSTANTS
    raw = raw  ann = ann  bob = bob  w1 = w1  w2 = w2
    Sessions = {raw, ann, bob}
    Workers = {w1, w2}
    NoUser = NoUser
    NoSession = NoSession
    Worker <- MCWorker
    User <- MCUser
PROPERTY SelfMessage
\* The exception may end the server.
CHECK_DEADLOCK FALSE

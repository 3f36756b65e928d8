SPECIFICATION FairSpec
CONSTANTS
    NoThread = NoThread
    f1 = f1
    f2 = f2
    Threads = {t1, t2}
    Files = {f1, f2}
    Missing = {f1}
    LongFile = 2
    FullPackets <- MCFullPackets
    PacketValues = 3
    MaxPackets = 4
INVARIANTS
    TypeOK
    ReplyIsRequested
    BufferFromOneResource
PROPERTIES
    ServiceSpec
    LockReleased

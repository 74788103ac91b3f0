SPECIFICATION FairSpec
CONSTANTS
    Nodes = {a, b}
    K8s = {b}
    Interval = 2
    Slack = 2
    MaxPause = 1
    MaxDelay = 1
    MaxNews = 2
INVARIANT TypeOK
PROPERTIES KeepsLivePeers DropsDeadPeers OnePingConnects
CHECK_DEADLOCK FALSE

SPECIFICATION FairSpec
CONSTANTS
    Nodes = {a, b}
    K8s = {}
    Interval = 2
    Slack = 2
    MaxPause = 1
    MaxDelay = 1
    MaxNews = 2

PROPERTY ConfiguredPeersConnect
CHECK_DEADLOCK FALSE

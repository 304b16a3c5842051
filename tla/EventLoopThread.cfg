SPECIFICATION FairThreadSpec
CONSTANTS
    owner = owner
    o1 = o1
    o2 = o2
    loop = loop
    sock = sock
    Threads = {owner, o1, o2}
    Loop = loop
    Owner = owner
    IoSources = {sock}
    MaxPosts = 2
INVARIANTS TypeOK ExactlyOnceInOrder NoLostWakeup QuitNotLost OwnerSeesThread
PROPERTIES PostedRuns ImplementsExecutor StartReturns JoinReturns
CHECK_DEADLOCK FALSE

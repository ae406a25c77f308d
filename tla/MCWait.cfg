SPECIFICATION FairSpec
CONSTANTS
    ag1 = ag1
    ag2 = ag2
    ag3 = ag3
    Agent <- MCAgent
    Waiter <- MCWaiter
    Notifier <- MCNotifier
    Mortal = {ag1, ag3}
    Addr = {1}
    Counts = {1}
    MaxWaits = 2
    MaxNotifies = 1
    None = None
CHECK_DEADLOCK FALSE
INVARIANTS
    TypeOK
    OneWinner
    AnswersAgree
    AwaitHasMail
    SweptAfterPark
    LostOnlyToTheDead
PROPERTIES
    TimedWaitReturns

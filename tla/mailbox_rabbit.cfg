\* One message and its reply, a failure of any kind and a crash of the relay.
SPECIFICATION FairSpec
CONSTANTS
    Boxes = {"human", "worker"}
    QueueOf <- MCQueueOf
    HumanBox = "human"
    WorkerBox = "worker"
    Given = {1}
    Generated = {11, 12}
    NumThreads = 3
    MaxFaults = 1
    MaxCrashes = 1
INVARIANTS
    TypeOK
    HandedOnce
    AcceptedIsKept
    AnsweredOnce
    LossIsBounded
PROPERTIES
    EventuallyConcluded

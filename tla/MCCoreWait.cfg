CONSTANTS
    a = a  b = b
    Inst = {a, b}
    Core = {c1, c2}
    ParallelCoreNum <- TwoAndOne
    Sliced = {a}
    SliceMax = 1
    Slicing = {1}
    JobMax = 3
    Failing = {2}
    Faults = {"early", "ioctl"}
SPECIFICATION FairSpec
INVARIANTS OwnCore CoresAccounted FramesAccounted AwaitedIsOldest TrueAnswers
PROPERTIES NoFrameIsKilled CallsReturn

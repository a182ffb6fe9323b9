SPECIFICATION FairReportSpec
CONSTANTS
    Call = {e1}
    MemoryLimit = 2
    MaxRejects = 2
    MaxLostAcks = 1
    MaxCrashes = 1
    Letter = {"a", "b"}
    Written <- MCWritten
    Expected <- MCExpected
INVARIANTS
    ReportTypeOK FinishedIsRemoved OutputIsWhole TimedOutIsKilled
     LimitIsTle
PROPERTY CallsReturn
CHECK_DEADLOCK FALSE

SPECIFICATION FairSpec
CONSTANTS
    s1 = s1
    s2 = s2
    s3 = s3
    q1 = q1
    q2 = q2
    q3 = q3
    q4 = q4
    None = None
    Session <- MCSession
    Conn <- MCConn
INVARIANTS
    OneGoodConnection
PROPERTIES
    ImplementsReuse
    CallReturns

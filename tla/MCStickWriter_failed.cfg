SPECIFICATION Spec
CONSTANTS
    s1 = s1
    s2 = s2
    n1 = n1
    NoStick = NoStick
    NoFile = NoFile
    Absent = Absent
    Foreign = Foreign
    MaxJobs = 2
    Sticks <- MCSticks
    Names <- MCNames
INVARIANT FailureMeansNothingWritten

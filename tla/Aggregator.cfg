SPECIFICATION FairSpec
CONSTANTS
    d1 = d1
    d2 = d2
    p1 = p1
    p2 = p2
    p3 = p3
    Points <- MCPoints
    Devices <- MCDevices
    DeviceOf <- MCDeviceOf
    W = 2
    S = 2
    StartTicks = {4, 7}
    MaxLag = 1
    ReadingCap = 2
    BatchCap = 1
    MaxReadings = 3
    MaxNow = 12
INVARIANTS
    TypeOK
    EachReadingOnce
    WindowsInOrder
PROPERTIES
    OnSchedule
    ImplementsTumblingWindow
    BatchesArrive
    ReturnsWhenClosed

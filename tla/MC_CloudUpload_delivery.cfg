SPECIFICATION UploadSpec
CONSTANTS
    u1 = u1
    p1 = p1  p2 = p2
    c1 = c1  c2 = c2
    Uploads <- OneUpload
    Puts <- TwoPuts
    Consumers <- TwoConsumers
    MaxDeliveries = 4
    Faults <- AllFaults
    None = None
PROPERTIES PromiseKept AnsweredEnds
CHECK_DEADLOCK FALSE

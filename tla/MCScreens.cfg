SPECIFICATION ScreensSpec
CONSTANTS
    x1 = x1
    x2 = x2
    Objs = {x1, x2}
    MaxNet = 2
    None = None
    Catalog <- AllScreens
    MaxPresses = 2
    MaxTroubles = 1
INVARIANTS ScreensTypeOK OfferedIsAccepted  
PROPERTIES ControlsComeBack 
CHECK_DEADLOCK FALSE

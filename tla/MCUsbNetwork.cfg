CONSTANTS
    Pbuf = {b1, b2, b3, b4}
    None = None
SPECIFICATION UsbSpec
INVARIANTS
    UsbTypeOK
    FramesAreOwned
    ReceiverAlive
PROPERTIES
    FramesAreServed

CONSTANTS
    Tile <- Row3
    Todo <- Row3Todo
    LinkWidth = 2
    EpWidth = 1
    EpBuf = 1
    DevCap = 1
    NoFlit = NoFlit
SPECIFICATION Spec
PROPERTIES
    Delivery
    AllArrive
CHECK_DEADLOCK FALSE

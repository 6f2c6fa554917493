SPECIFICATION TransferSpec
CONSTANTS
    SEQUENCE_NUMBER_MAX = 4
    RECEIVE_WINDOW_MAX = 2
    SINK_SPACE = 2
    CLIENT_WINDOW = 2
    PAYLOADS = 5
    START_NUMBERS = {3}
    LINK_SPACE = 2
    MAX_LOSSES = 2
    MAX_RESTARTS = 2
INVARIANTS TypeOK DeliveredInOrder NoFalseAck
PROPERTY TransferCompletes
CHECK_DEADLOCK FALSE

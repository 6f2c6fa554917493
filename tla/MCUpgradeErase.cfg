SPECIFICATION Spec
CONSTANTS
    Files = {2, 3}
    Sections = 2
    MAX_QUEUE = 2
    SESSIONS = 2
INVARIANTS
    EraseFromBootBank

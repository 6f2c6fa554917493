SPECIFICATION Spec
CONSTANTS
    SM = "sm"
    Prompt = {"audio_curation"}
    Ui = {"leds"}
    Order <- MCOrder
    MAX_QUEUE = 2
INVARIANT SoporificWhenAskedToSleep
CHECK_DEADLOCK FALSE

SPECIFICATION Spec
CONSTANTS
    SM = "sm"
    Prompt = {"audio_curation"}
    Ui = {"leds"}
    Order <- MCOrder
    MAX_QUEUE = 2
INVARIANTS TypeOK PendingOnlyWhileNotified NobodyCutOff SleepNotMissed IdleTimeoutWhenIdle
PROPERTIES ImplementsHandshake LowPowerEndsDown
CHECK_DEADLOCK FALSE

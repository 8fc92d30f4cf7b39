SPECIFICATION Spec
CONSTANTS
    ABSENT_PROVIDERS <- MCProviders
    Configs <- MCConfigs
    Sources = {"sw"}
    Readings <- MCReadings
    Texts = {"gone", "CONFIRMED", "long"}
    Bodies <- MCBodies
INVARIANTS
    EnvelopeIsValid
    NotModifiedIsHonest
    AcceptedIsPerformedOnce
    BeforeIsAccepted
CHECK_DEADLOCK FALSE

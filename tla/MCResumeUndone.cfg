CONSTANTS
    Modes <- FleetRestart
    Actions = {"retry", "resume"}
SPECIFICATION Spec
PROPERTY ResumeStays

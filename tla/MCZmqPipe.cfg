SPECIFICATION Spec
CONSTANTS
    Ends <- MCEnds
    Delays <- MCDelays
    MaxTerminates <- MCTerminates
    MaxMessages <- MCMessages
    hwm <- MCHwm
    max_wm_delta = 1
INVARIANTS ProtocolKept HwmKept NothingLost
PROPERTIES TerminationEnds WriterGoesOn

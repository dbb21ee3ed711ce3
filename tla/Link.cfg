SPECIFICATION LinkSpec
CONSTANTS
    LostAfter = 2
    Grace = 3
    HelloEvery = 2
    SeqWrap = 4
    None = None
    LossWindow = 3
    MaxEpoch = 2
    MaxTrouble = 2
CHECK_DEADLOCK FALSE
INVARIANT RoleOfThisEpoch
INVARIANT NoLossNoBlame
PROPERTY Relinks

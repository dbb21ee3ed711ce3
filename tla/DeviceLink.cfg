SPECIFICATION Spec
CONSTANTS
    Dev = {d1, d2}
    Role = {lead}
    None = None
    MaxClosing = 2
    MaxDown = 2
    Accidents = {"linkLoss", "rebind", "unbuilt"}
INVARIANT FreshConnectionKept
INVARIANT LitDevicesReachable
INVARIANT ToldIsHeard
SYMMETRY Alike

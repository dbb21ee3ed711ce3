SPECIFICATION SurfacesSpec
CONSTANTS
    Devs = {d1, d2}
    Fixtures = {f1}
    NoDev = NoDev
    PaintFor = 2
    FlashFor = 1
    StepLater = 1
    MaxCues = 2
PROPERTY MutesAgree
 

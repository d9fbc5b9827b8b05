SPECIFICATION KbdSpec
CONSTANTS
    Keys <- MCKeys
    MaxHeld = 3
    ControllerCap = 1
INVARIANTS
    KbdTypeOK
    ModifiersFollowKeys
PROPERTIES
    CharsFollowKeys
    RebootsOnCtrlAltDelete

SPECIFICATION DesktopSpec
CONSTANTS
    s1 = s1  s2 = s2  a1 = a1  a2 = a2  a3 = a3  old = old
    alice = alice  bob = bob  j1 = j1
    Slots <- TwoSlots
    Assets <- FourAssets
    Legacy <- OneLegacy
    Accounts <- TwoAccounts
    Jobs <- OneJob
    Gui = Gui
    None = None
    MaxBytes = 2
    MaxStarted = 3
    MaxCrashes = 1
    MaxVersion = 2
SYMMETRY Symmetry
INVARIANTS AudioIsGuarded StorageIsBounded
 
CHECK_DEADLOCK FALSE

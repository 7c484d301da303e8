CONSTANTS
    Radix <- MCRadix
    UsizeMax <- MCUsizeMax
    Inline <- MCInline
    Kind <- MCKind
    Tails <- MCTails
    HeaderSize <- MCHeaderSize
    Slot <- MCSlot
    Heads <- MCHeads
    Bodies <- MCBodies
    MaxBody = 6
SPECIFICATION ReaderSpec
INVARIANTS
    ReplayStaysInBounds
    WalksAgree
    AcceptedBytesAreCanonical
    TrimmedAccountIsAccepted
    NativeIsTheView

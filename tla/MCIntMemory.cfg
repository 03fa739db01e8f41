SPECIFICATION Spec
CONSTANTS
    PageSize = 2
    MaxPages = 3
    Byte = {0, 1}
    Zero = 0
    Buffer = {b1, b2, b3}
    NoBuffer = NoBuffer
    Image <- MCImage
    Payload <- MCPayload
    Address = {1, 5}
    Length = {0, 1, 3}
    HeapStart = 4
    HeapLimit = 5
SYMMETRY BufferSymmetry
INVARIANTS TypeOK BuffersDistinct HotPageCoherent
PROPERTIES ImplementsGuestMemory ProtectedPagesUnchanged

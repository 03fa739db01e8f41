SPECIFICATION Spec
CONSTANTS
    PageSize = 2
    MaxPages = 3
    Byte = {0, 1}
    Zero = 0
    Shift = 1
    Image <- MCImage
    Payload <- MCPayload
    Address = {0, 1, 2, 3, 5}
    Length = {0, 1, 3}
    HeapStart = 4
CHECK_DEADLOCK FALSE
INVARIANTS KernelFollowsBits ApprovedAccesses
PROPERTIES UnwritableKept

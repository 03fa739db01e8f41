SPECIFICATION Spec
CONSTANTS
    PageSize = 2
    MaxPages = 3
    Byte = {0, 1}
    Zero = 0
    Shift = 1
    Image <- MCImage
    Payload <- MCPayload
    Address = {1}
    Length = {0, 1}
    HeapStart = 4
CHECK_DEADLOCK FALSE
INVARIANT HeapBreakKept

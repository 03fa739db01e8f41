SPECIFICATION Spec
CONSTANTS
    PageSize = 2
    MaxPages = 4
    Byte = {0, 1}
    Zero = 0
    NoPage = NoPage
    Image <- MCImage
    Payload <- MCPayload
    Address = {0, 3, 7}
    Length = {0, 1, 2}
    HeapStart = 2
    HeapLimit = 3
PROPERTIES ImplementsGuestMemory

---------------------------- MODULE AddressSpace ----------------------------
(***************************************************************************)
(* The paged guest address space every engine shares: bytes, pages, and    *)
(* which pages and which bytes a range touches.  The code fixes PageSize   *)
(* to 2^12 and MaxPages to 2^20; here they are parameters.                 *)
(***************************************************************************)
EXTENDS Integers, Sequences, FiniteSets

CONSTANTS PageSize, \* bytes in a page
          MaxPages, \* pages in the address space
          Byte,     \* the values a byte can hold
          Zero      \* the value of a byte nobody has written

ASSUME PageSizeAssumption == PageSize \in Nat \ {0}
ASSUME MaxPagesAssumption == MaxPages \in Nat \ {0}
ASSUME ByteAssumption == Zero \in Byte

Page == 0 .. MaxPages - 1
Offset == 0 .. PageSize - 1
AddressLimit == MaxPages * PageSize

\* A page's 4096 bytes, and a page of zeros.
Content == [Offset -> Byte]
ZeroPage == [o \in Offset |-> Zero]

\* address & _ADDR_MASK: guest addresses wrap at the end of the space.
Wrap(address) == address % AddressLimit

page_index(address) == address \div PageSize

\* The pages spanned by a range of n > 0 bytes.  The range is not wrapped: it
\* may run past the last page of the space.
PagesOf(address, n) ==
    page_index(address) .. page_index(address + n - 1)

\* get_pages: an empty range still spans one page.
get_pages(start, n) ==
    PagesOf(start, IF n = 0 THEN 1 ELSE n)

\* The bytes of page p that the range of n bytes at address covers.
Covered(address, n, p, o) ==
    p * PageSize + o \in address .. address + n - 1

\* Page p's content once data has been stored at address.
Stored(old, p, address, data) ==
    [o \in Offset |-> IF Covered(address, Len(data), p, o)
                        THEN data[p * PageSize + o - address + 1]
                        ELSE old[o]]

\* The n bytes found at address in memory cells \in [Page -> Content].
Loaded(cells, address, n) ==
    [i \in 1 .. n |-> cells[page_index(address + i - 1)][(address + i - 1) % PageSize]]

\* The lowest page of a range that is not in allowed; the address a page-wise
\* scan of the range reports for it; and the bytes scanned before it.
Denied(address, n, allowed) == PagesOf(address, n) \ allowed
FirstDenied(address, n, allowed) ==
    CHOOSE p \in Denied(address, n, allowed) :
        \A q \in Denied(address, n, allowed) : p <= q
FaultAddress(address, n, allowed) ==
    IF page_index(address) \notin allowed
      THEN address
      ELSE FirstDenied(address, n, allowed) * PageSize
=============================================================================

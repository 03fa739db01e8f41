------------------------------ MODULE CyMemory ------------------------------
(***************************************************************************)
(* CyMemory, the compiled interpreter's guest memory                       *)
(* (tsrkit_pvm/cpvm/cy_memory.pyx): a dict of malloced pages and two bit   *)
(* sets.  There is no hot page, and a range is checked as a whole before a *)
(* byte of it moves.  Addresses, lengths and page numbers are C words of   *)
(* 32 bits: the sum of an address and a length wraps, and with it the last *)
(* page of a range and the number of its pages.                            *)
(***************************************************************************)
EXTENDS AddressSpace

CONSTANTS NoPage, \* "not in the dict"
          Image, Address, Length, Payload, HeapStart, HeapLimit \* as in IntMemory

\* A page number is less than the word that holds it.  A range is shorter than the
\* space by almost two pages (the signed length of read stops at half the space),
\* so that its wrapped last page is not the one before its first.  The break is a C
\* int, and stays below half the space.
ASSUME CyPageAssumption == PageSize > 1 /\ NoPage \notin Content
ASSUME CyInputAssumption ==
    /\ Address \subseteq 0 .. AddressLimit - 1
    /\ Length \subseteq 0 .. AddressLimit - 2 * PageSize + 1
    /\ Payload \subseteq Seq(Byte) /\ \A data \in Payload : Len(data) \in Length
    /\ HeapStart \in 0 .. HeapLimit /\ HeapLimit \in 0 .. AddressLimit \div 2 - 1
ASSUME CyImageAssumption ==
    \A image \in Image :
        /\ DOMAIN image.data \subseteq Page
        /\ image.data \in [DOMAIN image.data -> Content]
        /\ image.read \subseteq Page /\ image.write \subseteq Page

VARIABLES pages,    \* _pages: the content of every page in the dict
          readable, \* _r_bitset, as the set of pages whose bit is 1
          writable, \* _w_bitset, likewise
          heap_break,
          outcome   \* what the last call returned or raised

perms == <<readable, writable>>
vars == <<pages, perms, heap_break, outcome>>

\* A page that is not in the dict reads as zeros.
Cells == [p \in Page |-> IF pages[p] = NoPage THEN ZeroPage ELSE pages[p]]

Memory == INSTANCE GuestMemory WITH cells <- Cells

Init ==
    \E image \in Image :
        /\ pages = [p \in Page |-> IF p \in DOMAIN image.data THEN image.data[p] ELSE NoPage]
        /\ readable = image.read
        /\ writable = image.write
        /\ heap_break = HeapStart
        /\ outcome = Memory!Done

\* _get_page_range and the loops over it: all sums are of 32 bits.
Visited(start, n) ==
    LET first == page_index(start)
        num_pages == Wrap(page_index(Wrap(start + n - 1)) - first + 1)
    IN  {Wrap(first + i) : i \in 0 .. num_pages - 1}

\* Mutant of _has_access: every mode asks for any permission.
_has_accessEither(mode) == readable \union writable

\* The pages _has_access_c accepts: a write bit is enough to read, and every
\* mode but WRITE asks for that.
_has_access(mode) == IF mode = "WRITE" THEN writable ELSE readable \union writable

\* The whole range is checked; the fault names its start.
read(address, n) ==
    /\ outcome' = CASE n = 0 -> Memory!Data(<<>>)
                    [] n > 0 /\ Visited(address, n) \subseteq _has_access("READ") ->
                         Memory!Data(Loaded(Cells, address, n))
                    [] OTHER -> Memory!Fault(address)
    /\ UNCHANGED <<pages, perms, heap_break>>

\* A range that may be written moves as a whole, through pages that come into
\* the dict zeroed when they were not in it; any other moves not at all.
write(address, data) ==
    LET range == Visited(address, Len(data))
    IN  /\ \/ data = <<>> /\ outcome' = Memory!Done /\ UNCHANGED pages
           \/ /\ data # <<>> /\ range \subseteq _has_access("WRITE")
              /\ outcome' = Memory!Done
              /\ pages' = [p \in Page |-> IF p \in range THEN Stored(Cells[p], p, address, data)
                                                       ELSE pages[p]]
           \/ /\ data # <<>> /\ ~ range \subseteq _has_access("WRITE")
              /\ outcome' = Memory!Fault(address)
              /\ UNCHANGED pages
        /\ UNCHANGED <<perms, heap_break>>

\* _set_access_range_c: exclusive bits for the pages inside the space.
SetAccess(start, n, access) ==
    LET pgs == Visited(start, n) \intersect Page
    IN  /\ readable' = IF access = "READ" THEN readable \union pgs ELSE readable \ pgs
        /\ writable' = IF access = "WRITE" THEN writable \union pgs ELSE writable \ pgs

alter_accessibility(start, n, access) ==
    /\ SetAccess(start, n, access)
    /\ outcome' = Memory!Done
    /\ UNCHANGED <<pages, heap_break>>

zero_memory_range(start_page, num_pages) ==
    /\ pages' = [p \in Page |-> IF p \in start_page .. start_page + num_pages - 1
                                  THEN ZeroPage ELSE pages[p]]
    /\ outcome' = Memory!Done
    /\ UNCHANGED <<perms, heap_break>>

\* An empty range is accessible; any other one if all its pages are.
is_accessible(address, n, access) ==
    /\ outcome' = Memory!Answer(n = 0 \/ Visited(address, n) \subseteq _has_access(access))
    /\ UNCHANGED <<pages, perms, heap_break>>

\* The instruction's result is the break before the call.
sbrk(req) ==
    /\ heap_break + req <= HeapLimit
    /\ SetAccess(heap_break, req, "WRITE")
    /\ heap_break' = heap_break + req
    /\ outcome' = Memory!Break(heap_break)
    /\ UNCHANGED pages

Next ==
    \/ \E a \in Address, n \in Length : read(a, n)
    \/ \E a \in Address, data \in Payload : write(a, data)
    \/ \E a \in Address, n \in Length, access \in Memory!Access :
            alter_accessibility(a, n, access) \/ is_accessible(a, n, access)
    \/ \E p \in Page, n \in Length : p + n <= MaxPages /\ zero_memory_range(p, n)
    \/ \E req \in Length : sbrk(req)

Spec == Init /\ [][Next]_vars

-----------------------------------------------------------------------------
\* Type invariant of CyMemory's fields.
TypeOK ==
    /\ pages \in [Page -> Content \union {NoPage}]
    /\ readable \in SUBSET Page
    /\ writable \in SUBSET Page
    /\ heap_break \in 0 .. AddressLimit - 1

\* CyMemory implements the flat guest memory, with its words of 32 bits: an
\* access that runs past the end of the space faults although the last page it
\* computes has wrapped to the start of the space.
ImplementsGuestMemory == Memory!Spec
=============================================================================

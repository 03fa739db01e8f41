---------------------------- MODULE GuestMemory -----------------------------
(***************************************************************************)
(* What a guest memory promises to the engine and to the host above it,    *)
(* with no page table, no page cache and no bit set: a content per page,   *)
(* a set of readable and a set of writable pages, a heap break, and the    *)
(* outcome of the last call.  The memory classes of the engines are shown  *)
(* to implement this module; where two of them differ (the reported fault  *)
(* address, what a faulting write leaves behind, sbrk's result, the span   *)
(* of an empty range) the promise is what they have in common.             *)
(***************************************************************************)
EXTENDS AddressSpace

CONSTANTS Address,  \* the addresses calls are made with
          Length,   \* the lengths calls are made with
          Payload,  \* the byte strings that are written
          HeapStart, \* the break the memory is built with
          HeapLimit \* bound: sbrk is not taken beyond this break

VARIABLES cells,      \* content of every page
          readable,   \* pages whose read bit is set
          writable,   \* pages whose write bit is set
          heap_break, \* first address after the heap
          outcome     \* what the last call returned or raised

vars == <<cells, readable, writable, heap_break, outcome>>

Access == {"READ", "WRITE", "NULL"}

Done == [status |-> "ok"]
Data(data) == [status |-> "ok", data |-> data]
Answer(answer) == [status |-> "ok", answer |-> answer]
Break(break) == [status |-> "ok", break |-> break]
Fault(address) == [status |-> "page_fault", at |-> address]

\* The pages an access of a kind may touch.
Allowed(access) ==
    CASE access = "READ"  -> readable \union writable
      [] access = "WRITE" -> writable
      [] access = "NULL"  -> Page

Init ==
    /\ cells \in [Page -> Content]
    /\ readable \in SUBSET Page
    /\ writable \in SUBSET Page
    /\ heap_break = HeapStart
    /\ outcome = Done

\* A read needs either permission on every page of its range; an empty one
\* needs none.
Read(address, n) ==
    /\ UNCHANGED <<readable, writable, heap_break>>
    /\ \/ n = 0 /\ outcome' = Data(<<>>)
       \/ /\ n > 0
          /\ Denied(address, n, Allowed("READ")) = {}
          /\ outcome' = Data(Loaded(cells, address, n))
       \/ /\ n > 0
          /\ Denied(address, n, Allowed("READ")) # {}
          /\ \E at \in {address, FaultAddress(address, n, Allowed("READ"))} :
                outcome' = Fault(at)
    /\ UNCHANGED cells

\* A write needs the write permission on every page of its range.  One that
\* faults has stored the bytes below the address it reports and no others.
Write(address, data) ==
    /\ UNCHANGED <<readable, writable, heap_break>>
    /\ \/ data = <<>> /\ outcome' = Done /\ UNCHANGED cells
       \/ /\ data # <<>>
          /\ Denied(address, Len(data), writable) = {}
          /\ outcome' = Done
          /\ cells' = [p \in Page |-> Stored(cells[p], p, address, data)]
       \/ /\ data # <<>>
          /\ Denied(address, Len(data), writable) # {}
          /\ \E at \in {address, FaultAddress(address, Len(data), writable)} :
                /\ outcome' = Fault(at)
                /\ cells' = [p \in Page |->
                                Stored(cells[p], p, address, SubSeq(data, 1, at - address))]

\* The access bits of a set of pages, exclusive: WRITE clears the read bit.
Grant(pages, access) ==
    /\ readable' = IF access = "READ" THEN readable \union (pages \intersect Page)
                                      ELSE readable \ pages
    /\ writable' = IF access = "WRITE" THEN writable \union (pages \intersect Page)
                                       ELSE writable \ pages

\* The pages a change of accessibility reaches.  An empty range may reach one;
\* a range whose last address is outside the space, as that of an empty range at
\* address 0 is, may wrap around the end of it.
Spans(start, n) ==
    LET last == page_index(Wrap(start + n - 1))
    IN  {get_pages(start, n)}
        \union (IF n = 0 THEN {{}} ELSE {})
        \union (IF start + n - 1 \in 0 .. AddressLimit - 1 THEN {}
                ELSE {(page_index(start) .. MaxPages - 1) \union (0 .. last)})

AlterAccessibility(start, n, access) ==
    /\ outcome' = Done
    /\ UNCHANGED heap_break
    /\ \E pages \in Spans(start, n) : Grant(pages, access)
    /\ UNCHANGED cells

\* Zeroing changes contents only, and asks for no permission.
ZeroMemoryRange(start, n) ==
    /\ outcome' = Done
    /\ UNCHANGED <<readable, writable, heap_break>>
    /\ cells' = [p \in Page |-> IF p \in start .. start + n - 1 THEN ZeroPage
                                                                ELSE cells[p]]

\* The answer is the permission a read or a write of the range would find, for
\* a range that stays inside the address space.
IsAccessible(address, n, access) ==
    /\ UNCHANGED <<readable, writable, heap_break>>
    /\ \E answer \in BOOLEAN :
          /\ outcome' = Answer(answer)
          /\ address + n <= AddressLimit /\ access # "NULL" =>
                answer = (n = 0 \/ Denied(address, n, Allowed(access)) = {})
    /\ UNCHANGED cells

\* The sbrk instruction: the requested bytes above the break become writable.
Sbrk(req) ==
    /\ heap_break + req <= HeapLimit
    /\ heap_break' = heap_break + req
    /\ \E break \in {heap_break, heap_break + req} : outcome' = Break(break)
    /\ \E pages \in Spans(heap_break, req) : Grant(pages, "WRITE")
    /\ UNCHANGED cells

Next ==
    \/ \E a \in Address, n \in Length : Read(Wrap(a), n)
    \/ \E a \in Address, data \in Payload : Write(Wrap(a), data)
    \/ \E a \in Address, n \in Length, access \in Access :
            AlterAccessibility(a, n, access) \/ IsAccessible(a, n, access)
    \/ \E p \in Page, n \in Length : p + n <= MaxPages /\ ZeroMemoryRange(p, n)
    \/ \E req \in Length : Sbrk(req)

Spec == Init /\ [][Next]_vars
=============================================================================

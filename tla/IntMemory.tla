----------------------------- MODULE IntMemory ------------------------------
(***************************************************************************)
(* INT_Memory, the interpreter's sparse guest memory                       *)
(* (tsrkit_pvm/interpreter/memory.py): a dict of page buffers, two bit     *)
(* arrays of permissions, and the hot page, a cached reference to the      *)
(* buffer touched last that lets a read or a write skip both lookups.      *)
(*                                                                         *)
(* A page's bytearray is an object with an identity: the dict and the hot  *)
(* page each hold a reference to it, and only by agreeing on the reference *)
(* do they agree on the bytes.                                             *)
(***************************************************************************)
EXTENDS AddressSpace, Functions

CONSTANTS Buffer,   \* identities of page buffers
          NoBuffer, \* "not in the dict"
          Image,    \* constructor arguments: [data, read, write] records
          Address, Length, Payload, HeapStart, HeapLimit \* as in GuestMemory

ASSUME BufferAssumption == NoBuffer \notin Buffer
ASSUME ImageAssumption ==
    \A image \in Image :
        /\ DOMAIN image.data \subseteq Page
        /\ image.data \in [DOMAIN image.data -> Content]
        /\ image.read \subseteq Page /\ image.write \subseteq Page

ASSUME InputAssumption ==
    /\ Address \subseteq Nat /\ Length \subseteq Nat /\ Payload \subseteq Seq(Byte)
    /\ HeapStart \in Nat /\ HeapLimit \in Nat

VARIABLES buffer,     \* the bytes of every buffer
          pages,      \* _pages: the buffer of every page, if it has one
          readable,   \* _r_pages, as the set of pages whose bit is 1
          writable,   \* _w_pages, likewise
          hot,        \* _hot_page_num, _hot_page_data, _hot_page_writable
          heap_break,
          outcome     \* what the last call returned or raised

perms == <<readable, writable>>
vars == <<buffer, pages, perms, hot, heap_break, outcome>>

NoHotPage == [num |-> -1, data |-> NoBuffer, writable |-> FALSE]

\* The contents the dict stands for: a page without a buffer reads as zeros.
Cells == [p \in Page |-> IF pages[p] = NoBuffer THEN ZeroPage ELSE buffer[pages[p]]]

\* The calling convention and the outcomes are those of the promise.
Memory == INSTANCE GuestMemory WITH cells <- Cells

Free == Buffer \ {pages[p] : p \in Page}

Init ==
    \E image \in Image : \E place \in Injection(DOMAIN image.data, Buffer) :
        /\ pages = [p \in Page |-> IF p \in DOMAIN place THEN place[p] ELSE NoBuffer]
        /\ buffer = [b \in Buffer |->
                        IF \E p \in DOMAIN place : place[p] = b
                          THEN image.data[CHOOSE p \in DOMAIN place : place[p] = b]
                          ELSE ZeroPage]
        /\ readable = image.read
        /\ writable = image.write
        /\ hot = NoHotPage
        /\ heap_break = HeapStart
        /\ outcome = Memory!Done

-----------------------------------------------------------------------------
OnePage(address, n) == page_index(address) = page_index(address + n - 1)

HotHit(address, n) ==
    /\ page_index(address) = hot.num
    /\ hot.data # NoBuffer
    /\ OnePage(address, n)

\* Fast path: neither the permission bits nor the dict are consulted.
ReadHot(address, n) ==
    /\ HotHit(address, n)
    /\ outcome' = Memory!Data(
                     [i \in 1 .. n |-> buffer[hot.data][(address + i - 1) % PageSize]])
    /\ UNCHANGED <<buffer, pages, perms, hot, heap_break>>

\* The page read becomes the hot page, unless it has no buffer.
ReadPage(address, n) ==
    LET pg == page_index(address)
    IN  /\ ~ HotHit(address, n)
        /\ OnePage(address, n)
        /\ \/ /\ pg \notin readable \union writable
              /\ outcome' = Memory!Fault(address)
              /\ UNCHANGED hot
           \/ /\ pg \in readable \union writable
              /\ outcome' = Memory!Data(Loaded(Cells, address, n))
              /\ hot' = IF pages[pg] = NoBuffer
                          THEN hot
                          ELSE [num |-> pg, data |-> pages[pg],
                                writable |-> pg \in writable]
        /\ UNCHANGED <<buffer, pages, perms, heap_break>>

_read_multipage(address, n) ==
    LET allowed == readable \union writable
    IN  /\ ~ OnePage(address, n)
        /\ outcome' = IF Denied(address, n, allowed) = {}
                        THEN Memory!Data(Loaded(Cells, address, n))
                        ELSE Memory!Fault(FaultAddress(address, n, allowed))
        /\ UNCHANGED <<buffer, pages, perms, hot, heap_break>>

-----------------------------------------------------------------------------
\* Mutant of StoreInto: a buffer created for one page is stored again for the
\* next page that lacks one.
StoreIntoReused(pgs, address, data) ==
    \E place \in [{p \in pgs : pages[p] = NoBuffer} -> Free] :
        /\ pages' = [p \in Page |-> IF p \in DOMAIN place THEN place[p] ELSE pages[p]]
        /\ buffer' = [b \in Buffer |->
                        IF \E p \in pgs : pages'[p] = b
                          THEN Stored(buffer[b], CHOOSE p \in pgs : pages'[p] = b,
                                      address, data)
                          ELSE buffer[b]]

\* Every page of pgs gets a buffer, those that lack one a fresh one; then data
\* is stored at address through the buffers of pgs.
StoreInto(pgs, address, data) ==
    \E place \in Injection({p \in pgs : pages[p] = NoBuffer}, Free) :
        /\ pages' = [p \in Page |-> IF p \in DOMAIN place THEN place[p] ELSE pages[p]]
        /\ buffer' = [b \in Buffer |->
                        IF \E p \in pgs : pages'[p] = b
                          THEN Stored(IF b \in Free THEN ZeroPage ELSE buffer[b],
                                      CHOOSE p \in pgs : pages'[p] = b, address, data)
                          ELSE buffer[b]]

\* Mutant of WriteHot: the writable flag of the hot page is not looked at.
WriteHotUnchecked(address, data) ==
    /\ HotHit(address, Len(data))
    /\ buffer' = [buffer EXCEPT ![hot.data] = Stored(@, hot.num, address, data)]
    /\ outcome' = Memory!Done
    /\ UNCHANGED <<pages, perms, hot, heap_break>>

WriteHot(address, data) ==
    /\ HotHit(address, Len(data))
    /\ hot.writable
    /\ buffer' = [buffer EXCEPT ![hot.data] = Stored(@, hot.num, address, data)]
    /\ outcome' = Memory!Done
    /\ UNCHANGED <<pages, perms, hot, heap_break>>

WritePage(address, data) ==
    LET pg == page_index(address)
    IN  /\ ~ (HotHit(address, Len(data)) /\ hot.writable)
        /\ OnePage(address, Len(data))
        /\ \/ /\ pg \notin writable
              /\ outcome' = Memory!Fault(address)
              /\ UNCHANGED <<buffer, pages, hot>>
           \/ /\ pg \in writable
              /\ StoreInto({pg}, address, data)
              /\ hot' = [num |-> pg, data |-> pages'[pg], writable |-> TRUE]
              /\ outcome' = Memory!Done
        /\ UNCHANGED <<perms, heap_break>>

\* Mutant of _write_multipage: the loop's cursor is not advanced, so that the
\* start of the whole range is reported.
WriteMultipageFaultsAtStart(address, data) ==
    LET n == Len(data)
        denied == Denied(address, n, writable)
        at == FaultAddress(address, n, writable)
    IN  /\ ~ OnePage(address, n)
        /\ \/ /\ denied = {}
              /\ StoreInto(PagesOf(address, n), address, data)
              /\ outcome' = Memory!Done
           \/ /\ denied # {}
              /\ StoreInto({p \in PagesOf(address, n) : \A q \in denied : p < q},
                           address, SubSeq(data, 1, at - address))
              /\ outcome' = Memory!Fault(address)
        /\ UNCHANGED <<perms, hot, heap_break>>

\* The loop stores page after page and raises at the first page it may not
\* write: the pages before it keep what was stored.
_write_multipage(address, data) ==
    LET n == Len(data)
        denied == Denied(address, n, writable)
        at == FaultAddress(address, n, writable)
    IN  /\ ~ OnePage(address, n)
        /\ \/ /\ denied = {}
              /\ StoreInto(PagesOf(address, n), address, data)
              /\ outcome' = Memory!Done
           \/ /\ denied # {}
              /\ StoreInto({p \in PagesOf(address, n) : \A q \in denied : p < q},
                           address, SubSeq(data, 1, at - address))
              /\ outcome' = Memory!Fault(at)
        /\ UNCHANGED <<perms, hot, heap_break>>

-----------------------------------------------------------------------------
\* Mutants of SetAccess: the hot page survives the change; pages beyond the
\* space are not skipped.
SetAccessKeepsHot(start, n, access) ==
    LET pgs == get_pages(start, n) \intersect Page
    IN  /\ readable' = IF access = "READ" THEN readable \union pgs ELSE readable \ pgs
        /\ writable' = IF access = "WRITE" THEN writable \union pgs ELSE writable \ pgs
        /\ UNCHANGED hot
SetAccessBeyond(start, n, access) ==
    LET pgs == get_pages(start, n)
    IN  /\ readable' = IF access = "READ" THEN readable \union pgs ELSE readable \ pgs
        /\ writable' = IF access = "WRITE" THEN writable \union pgs ELSE writable \ pgs
        /\ hot' = IF hot.num \in pgs THEN NoHotPage ELSE hot

\* The bits of every page of the range, then the hot page if it is in range.
SetAccess(start, n, access) ==
    LET pgs == get_pages(start, n) \intersect Page
    IN  /\ readable' = IF access = "READ" THEN readable \union pgs ELSE readable \ pgs
        /\ writable' = IF access = "WRITE" THEN writable \union pgs ELSE writable \ pgs
        /\ hot' = IF hot.num \in pgs THEN NoHotPage ELSE hot

alter_accessibility(start, n, access) ==
    /\ SetAccess(start, n, access)
    /\ outcome' = Memory!Done
    /\ UNCHANGED <<buffer, pages, heap_break>>

\* Pages without a buffer get one; the buffers that exist are cleared in place.
zero_memory_range(start_page, num_pages) ==
    /\ IF num_pages = 0
         THEN UNCHANGED <<buffer, pages>>
         ELSE LET range == start_page .. start_page + num_pages - 1
              IN  StoreInto(range, start_page * PageSize,
                            [i \in 1 .. num_pages * PageSize |-> Zero])
    /\ outcome' = Memory!Done
    /\ UNCHANGED <<perms, hot, heap_break>>

\* Pages beyond the space are left out of the conjunction.
is_accessible(address, n, access) ==
    LET pgs == get_pages(address, n) \intersect Page
    IN  /\ outcome' = Memory!Answer(n = 0 \/ pgs \subseteq Memory!Allowed(access))
        /\ UNCHANGED <<buffer, pages, perms, hot, heap_break>>

sbrk(req) ==
    /\ heap_break + req <= HeapLimit
    /\ SetAccess(heap_break, req, "WRITE")
    /\ heap_break' = heap_break + req
    /\ outcome' = Memory!Break(heap_break')
    /\ UNCHANGED <<buffer, pages>>

\* Empty accesses return before anything is looked at.
EmptyRead == outcome' = Memory!Data(<<>>) /\ UNCHANGED <<buffer, pages, perms, hot, heap_break>>
EmptyWrite == outcome' = Memory!Done /\ UNCHANGED <<buffer, pages, perms, hot, heap_break>>

read(address, n) ==
    IF n = 0 THEN EmptyRead ELSE
    ReadHot(address, n) \/ ReadPage(address, n) \/ _read_multipage(address, n)

write(address, data) ==
    IF data = <<>> THEN EmptyWrite ELSE
    WriteHot(address, data) \/ WritePage(address, data) \/ _write_multipage(address, data)

Next ==
    \/ \E a \in Address, n \in Length : read(Wrap(a), n)
    \/ \E a \in Address, data \in Payload : write(Wrap(a), data)
    \/ \E a \in Address, n \in Length, access \in Memory!Access :
            alter_accessibility(a, n, access) \/ is_accessible(a, n, access)
    \/ \E p \in Page, n \in Length : p + n <= MaxPages /\ zero_memory_range(p, n)
    \/ \E req \in Length : sbrk(req)

Spec == Init /\ [][Next]_vars

-----------------------------------------------------------------------------
\* Type invariant of INT_Memory's fields.
TypeOK ==
    /\ buffer \in [Buffer -> Content]
    /\ pages \in [Page -> Buffer \union {NoBuffer}]
    /\ readable \in SUBSET Page
    /\ writable \in SUBSET Page
    /\ hot \in [num : Page \union {-1}, data : Buffer \union {NoBuffer},
                writable : BOOLEAN]
    /\ heap_break \in Nat

\* Two pages never share a bytearray, and one no page holds is all zeros.
BuffersDistinct ==
    /\ \A p, q \in Page : pages[p] = pages[q] /\ pages[p] # NoBuffer => p = q
    /\ \A b \in Free : buffer[b] = ZeroPage

\* The hot page never serves an access the page table and the permission bits
\* would refuse or answer differently: the reference it caches is the dict's,
\* and the permissions it stands for are still granted.
HotPageCoherent ==
    hot.data # NoBuffer =>
        /\ hot.num \in Page
        /\ pages[hot.num] = hot.data
        /\ hot.num \in readable \union writable
        /\ hot.writable => hot.num \in writable

\* The inductive invariant behind the properties below.
Inv == TypeOK /\ BuffersDistinct /\ HotPageCoherent

\* A step changes the bytes of a page only if the page was writable, or if it
\* leaves the page zeroed (the host's zero_memory_range).
ProtectedPagesUnchanged ==
    [][\A p \in Page : Cells'[p] # Cells[p] => p \in writable \/ Cells'[p] = ZeroPage]_vars

\* INT_Memory, its page dict and its hot page implement the flat guest memory.
ImplementsGuestMemory == Memory!Spec
=============================================================================

----------------------------- MODULE RecMemory ------------------------------
(***************************************************************************)
(* REC_Memory (tsrkit_pvm/recompiler/memory.py), the guest memory of the   *)
(* recompiled code: one mapping that holds the VM context and, right after *)
(* it, the guest's bytes.  Permissions are kept twice: in bit arrays, which*)
(* only the host looks at, and by the kernel, page by page of the mapping. *)
(* The context's size is no multiple of a page, so a page of the kernel    *)
(* holds the last Shift bytes of one guest page and the first bytes of the *)
(* next; kernel page p is the one guest page p starts in, and page 0 also  *)
(* holds the end of the context.                                           *)
(*                                                                         *)
(* Guest code and host take turns: execute stores the context and runs the *)
(* code, which loads and stores without asking anybody; a denied access is *)
(* a signal that ends the run, and when it is the host's, the process.     *)
(***************************************************************************)
EXTENDS AddressSpace

CONSTANTS Shift, \* vm_size % PageSize
          Image, Address, Length, Payload, HeapStart \* as in IntMemory

\* The context is 140 bytes and 8 per jump-table entry: 4 modulo 8.
ASSUME ShiftAssumption == Shift \in 1 .. PageSize - 1
ASSUME RecInputAssumption ==
    /\ Address \subseteq 0 .. AddressLimit - 1 /\ Length \subseteq Nat
    /\ Payload \subseteq Seq(Byte)
    /\ HeapStart \in 0 .. AddressLimit - 1
ASSUME RecImageAssumption ==
    \A image \in Image :
        /\ DOMAIN image.data \subseteq Page
        /\ image.data \in [DOMAIN image.data -> Content]
        /\ image.read \subseteq Page /\ image.write \subseteq Page

VARIABLES cells,      \* the guest's bytes in the mapping
          readable,   \* _r_pages, as the set of pages whose bit is 1
          writable,   \* _w_pages, likewise
          prot,       \* the kernel's protection of kernel pages 0 .. MaxPages
          heap_start, \* of the VM context
          highest,    \* the highest break sbrk has answered to the guest
          running,    \* whether the guest code runs
          outcome,    \* of the last call or access
          given       \* history: the pages whose bits were ever set

perms == <<readable, writable, prot, given>>
heap == <<heap_start, highest>>
vars == <<cells, perms, heap, running, outcome>>

Kernel == 0 .. MaxPages
Prot == {"RW", "R", "NONE"}
Access == {"READ", "WRITE", "NULL"}

Answer(a) == [status |-> "ok", answer |-> a]
Data(data) == [status |-> "ok", data |-> data]
Done == [status |-> "ok"]
Raised == [status |-> "raised"]
PageFault(kind, address) == [status |-> "page_fault", kind |-> kind, at |-> address]
Killed(kind, address) == [status |-> "killed", kind |-> kind, at |-> address]

\* The kernel page that holds a guest byte, and those of a range.
KernelPage(address) == page_index(address + Shift)
KernelPages(address, n) == KernelPage(address) .. KernelPage(address + n - 1)

\* What the bits of page p stand for.
ProtOf(p) == IF p \in writable THEN "RW" ELSE IF p \in readable THEN "R" ELSE "NONE"
Target(access) == CASE access = "WRITE" -> "RW" [] access = "READ" -> "R" [] OTHER -> "NONE"

\* The pages of a range whose protection forbids an access, and the address the
\* kernel reports.
Refused(address, n, kind) ==
    {k \in KernelPages(address, n) : prot[k] \notin IF kind = "load" THEN {"RW", "R"} ELSE {"RW"}}
FaultsAt(address, refused) ==
    LET k == CHOOSE k \in refused : \A other \in refused : k <= other
    IN  IF k = KernelPage(address) THEN address ELSE k * PageSize - Shift

\* from_pc protects the pages it is given, the written ones last; all others keep
\* the protection the mapping is made with, as all do in from_initial.
Init ==
    \E image \in Image :
        /\ cells = [p \in Page |-> IF p \in DOMAIN image.data THEN image.data[p] ELSE ZeroPage]
        /\ readable = image.read
        /\ writable = image.write
        /\ prot = [k \in Kernel |-> IF k \in readable \ writable THEN "R" ELSE "RW"]
        /\ heap_start = HeapStart
        /\ highest = HeapStart
        /\ running = FALSE
        /\ outcome = Done
        /\ given = image.read \union image.write

-----------------------------------------------------------------------------
\* The host's calls, while the guest does not run.

\* Mutant of Protected: the bits are set before they are compared, so that no
\* page seems to change.
ProtectedLate(start, n, access) == prot

\* Mutant of Protected: pages are widened, but never revoked.
ProtectedNotRevoked(start, n, access) ==
    LET changed == {p \in get_pages(start, n) \intersect Page : ProtOf(p) # Target(access)}
    IN  [k \in Kernel |-> IF k \in changed /\ access # "NULL" THEN Target(access) ELSE prot[k]]

\* The kernel is asked only for the pages inside the space whose bits stood for
\* another protection.
Protected(start, n, access) ==
    LET changed == {p \in get_pages(start, n) \intersect Page : ProtOf(p) # Target(access)}
    IN  [k \in Kernel |-> IF k \in changed THEN Target(access) ELSE prot[k]]

SetBits(start, n, access) ==
    LET pgs == get_pages(start, n) \intersect Page
    IN  /\ readable' = IF access = "READ" THEN readable \union pgs ELSE readable \ pgs
        /\ writable' = IF access = "WRITE" THEN writable \union pgs ELSE writable \ pgs
        /\ given' = given \union readable' \union writable'

alter_accessibility(start, n, access) ==
    /\ ~ running
    /\ SetBits(start, n, access)
    /\ prot' = Protected(start, n, access)
    /\ outcome' = Done
    /\ UNCHANGED <<cells, heap, running>>

\* The bits answer, those of pages inside the space; nobody asks the kernel.
Accessible(address, n, access) ==
    n = 0 \/ get_pages(address, n) \intersect Page \subseteq
                CASE access = "WRITE" -> writable
                  [] access = "READ"  -> readable \union writable
                  [] OTHER            -> Page

is_accessible(address, n, access) ==
    /\ ~ running
    /\ outcome' = Answer(Accessible(address, n, access))
    /\ UNCHANGED <<cells, perms, heap, running>>

\* What is left of a range inside the space: a slice of the mapping is cut there.
Clipped(address, n) == IF address + n > AddressLimit THEN AddressLimit - address ELSE n

\* The host reads the mapping with its own loads, and dies of a denied one.
read(address, n) ==
    LET refused == Refused(address, Clipped(address, n), "load")
    IN  /\ ~ running
        /\ outcome' = CASE n = 0 -> Data(<<>>)
                        [] n > 0 /\ refused = {} -> Data(Loaded(cells, address, Clipped(address, n)))
                        [] OTHER -> Killed("load", FaultsAt(address, refused))
        /\ UNCHANGED <<cells, perms, heap, running>>

\* A slice that is cut has not the length of the data: nothing is stored.
write(address, data) ==
    LET n == Len(data)
        refused == Refused(address, n, "store")
    IN  /\ ~ running
        /\ \/ n = 0 /\ outcome' = Done /\ UNCHANGED cells
           \/ n > Clipped(address, n) /\ outcome' = Raised /\ UNCHANGED cells
           \/ /\ n = Clipped(address, n) /\ n > 0 /\ refused = {}
              /\ outcome' = Done
              /\ cells' = [p \in Page |-> Stored(cells[p], p, address, data)]
           \/ /\ n = Clipped(address, n) /\ n > 0 /\ refused # {}
              /\ outcome' = Killed("store", FaultsAt(address, refused))
              /\ UNCHANGED cells
        /\ UNCHANGED <<perms, heap, running>>

\* The slice is taken at a machine address, far past the mapping: it is empty,
\* and the zeros have not its length.
zero_memory_range(start_page, num_pages) ==
    /\ ~ running
    /\ outcome' = IF num_pages = 0 THEN Done ELSE Raised
    /\ UNCHANGED <<cells, perms, heap, running>>

-----------------------------------------------------------------------------
\* Recompiler.execute up to the call of the code.  The context is made with the
\* break of the memory object, which no sbrk changes.  VMContext.store writes it
\* through the page it shares with guest page 0; its own call of mprotect has no
\* effect, since ctypes cuts the address to an int and drops the protection.
execute ==
    /\ ~ running
    /\ \/ /\ prot[0] = "RW"
          /\ heap_start' = HeapStart
          /\ running' = TRUE
          /\ outcome' = Done
       \/ /\ prot[0] # "RW"
          /\ outcome' = Killed("context", 0)
          /\ UNCHANGED <<heap_start, running>>
    /\ UNCHANGED <<cells, perms, highest>>

\* A load or store of the guest, of a range inside the space.
load(address, n) ==
    LET refused == Refused(address, n, "load")
    IN  /\ running
        /\ n > 0 /\ address + n <= AddressLimit
        /\ \/ refused = {} /\ outcome' = Data(Loaded(cells, address, n)) /\ UNCHANGED running
           \/ refused # {} /\ outcome' = PageFault("load", FaultsAt(address, refused)) /\ running' = FALSE
        /\ UNCHANGED <<cells, perms, heap>>

guest_store(address, data) ==
    LET n == Len(data)
        refused == Refused(address, n, "store")
    IN  /\ running
        /\ n > 0 /\ address + n <= AddressLimit
        /\ \/ /\ refused = {}
              /\ cells' = [p \in Page |-> Stored(cells[p], p, address, data)]
              /\ outcome' = Done
              /\ UNCHANGED running
           \/ /\ refused # {}
              /\ outcome' = PageFault("store", FaultsAt(address, refused))
              /\ running' = FALSE
              /\ UNCHANGED cells
        /\ UNCHANGED <<perms, heap>>

\* The code leaves for the host, which serves sbrk itself and runs it again: the
\* requested bytes become writable and the context is stored with the new break,
\* cut to 32 bits; the guest is answered the sum that is not.
sbrk(req) ==
    /\ running
    /\ SetBits(heap_start, req, "WRITE")
    /\ prot' = Protected(heap_start, req, "WRITE")
    /\ heap_start' = Wrap(heap_start + req)
    /\ highest' = IF heap_start + req > highest THEN heap_start + req ELSE highest
    /\ outcome' = Answer(heap_start + req)
    /\ UNCHANGED <<cells, running>>

\* Any other way out of the code.
exit ==
    /\ running
    /\ running' = FALSE
    /\ outcome' = Done
    /\ UNCHANGED <<cells, perms, heap>>

Host ==
    \/ \E a \in Address, n \in Length, access \in Access :
            alter_accessibility(a, n, access) \/ is_accessible(a, n, access)
    \/ \E a \in Address, n \in Length : read(a, n)
    \/ \E a \in Address, data \in Payload : write(a, data)
    \/ \E p \in Page, n \in Length : p + n <= MaxPages /\ zero_memory_range(p, n)
    \/ execute

Guest ==
    \/ \E a \in Address, n \in Length : load(a, n)
    \/ \E a \in Address, data \in Payload : guest_store(a, data)
    \/ \E req \in Length : sbrk(req)
    \/ exit

\* A signal of the host's own access ends the process.
Next == outcome.status # "killed" /\ (Host \/ Guest)

Spec == Init /\ [][Next]_vars

-----------------------------------------------------------------------------
TypeOK ==
    /\ cells \in [Page -> Content]
    /\ readable \in SUBSET Page
    /\ writable \in SUBSET Page
    /\ prot \in [Kernel -> Prot]
    /\ heap_start \in 0 .. AddressLimit - 1
    /\ highest \in Nat
    /\ running \in BOOLEAN
    /\ given \in SUBSET Page /\ readable \union writable \subseteq given

\* The kernel protects every page a bit of which was ever set as its bits say now,
\* a page whose bits were taken away again included: nobody gets at it any more.
\* Only a page that never had a bit keeps the protection of the mapping and lets
\* the guest do everything.  While the guest runs it can write the context, which
\* its gas is in.
KernelFollowsBits ==
    /\ \A p \in Page : prot[p] = IF p \in given THEN ProtOf(p) ELSE "RW"
    /\ running => prot[0] = "RW"

\* An access that is_accessible approves can be refused only because its last
\* byte is one of the last Shift bytes of a page: they are protected as the page
\* after it.  A host that asks first is killed there only.
ApprovedAccesses ==
    \A a \in Address, n \in Length :
        n > 0 /\ a + n <= AddressLimit =>
            /\ Accessible(a, n, "READ") => Refused(a, n, "load") \subseteq {page_index(a + n - 1) + 1}
            /\ Accessible(a, n, "WRITE") => Refused(a, n, "store") \subseteq {page_index(a + n - 1) + 1}

\* The guest does not change a byte that lies in a kernel page that is read-only or
\* was revoked: the first bytes of such a page, the last ones of the page before it.
UnwritableKept ==
    [][running => \A p \in Page, o \in Offset :
          cells'[p][o] # cells[p][o] =>
              KernelPage(p * PageSize + o) \notin given \ writable]_vars

\* recompiler/assembler/tables/ii_reg.py says of sbrk that the heap break grows by
\* the bytes asked for: a running guest has the highest break it was answered, up
\* to the end of the space.
HeapBreakKept == running /\ highest < AddressLimit => heap_start = highest
=============================================================================

--------------------------- MODULE RecMemoryProofs --------------------------
(***************************************************************************)
(* Proofs about RecMemory for every page size, address space, shift of the *)
(* mapping and set of inputs: the kernel's protections follow the bits,    *)
(* what an approved access may still run into, and what the guest cannot   *)
(* write.                                                                  *)
(***************************************************************************)
EXTENDS RecMemory, TLAPS

-----------------------------------------------------------------------------
(* The paged address space *)

LEMMA PageStart ==
    ASSUME NEW p \in Int
    PROVE  p * PageSize \in Int
BY PageSizeAssumption

LEMMA PageMonotone ==
    ASSUME NEW p \in Int, NEW q \in Int, p <= q
    PROVE  p * PageSize <= q * PageSize
BY PageSizeAssumption

LEMMA PageSum ==
    ASSUME NEW p \in Int, NEW q \in Int
    PROVE  (p + q) * PageSize = p * PageSize + q * PageSize
BY PageSizeAssumption

LEMMA PageNext ==
    ASSUME NEW p \in Int
    PROVE  (p + 1) * PageSize = p * PageSize + PageSize
BY PageSizeAssumption

\* An address lies in the page its index names.
LEMMA PageIndex ==
    ASSUME NEW a \in Int
    PROVE  /\ page_index(a) \in Int
           /\ page_index(a) * PageSize <= a
           /\ a < page_index(a) * PageSize + PageSize
<1>1. /\ a \div PageSize \in Int /\ (a \div PageSize) * PageSize <= a
      /\ a < (a \div PageSize + 1) * PageSize
  BY PageSizeAssumption
<1> QED BY <1>1, PageNext DEF page_index

LEMMA ZeroPageType == ZeroPage \in Content
BY ByteAssumption DEF ZeroPage, Content

\* Storing bytes in a page yields a page.
LEMMA StoredType ==
    ASSUME NEW old \in Content, NEW p \in Int, NEW address \in Int, NEW data \in Seq(Byte)
    PROVE  Stored(old, p, address, data) \in Content
<1>1. ASSUME NEW o \in Offset, Covered(address, Len(data), p, o)
      PROVE  data[p * PageSize + o - address + 1] \in Byte
  <2> DEFINE x == p * PageSize
  <2>1. x \in Int /\ o \in Int
    BY PageStart, PageSizeAssumption DEF Offset
  <2>2. x + o >= address /\ x + o <= address + Len(data) - 1
    BY <1>1, <2>1 DEF Covered
  <2> HIDE DEF x
  <2>3. x + o - address + 1 \in 1 .. Len(data)
    BY <2>1, <2>2
  <2>4. data[x + o - address + 1] \in Byte
    BY <2>3
  <2> QED BY <2>4 DEF x
<1>2. QED BY <1>1 DEF Stored, Content

LEMMA PageInt == Page \subseteq Nat /\ Offset \subseteq Nat
BY DEF Page, Offset

LEMMA PageIndexMonotone ==
    ASSUME NEW a \in Int, NEW b \in Int, a <= b
    PROVE  page_index(a) <= page_index(b)
<1> DEFINE j == page_index(a)
           k == page_index(b)
<1>1. /\ j \in Int /\ k \in Int /\ j * PageSize <= a /\ b < k * PageSize + PageSize
      /\ j * PageSize \in Int /\ k * PageSize \in Int /\ PageSize \in Int
  BY PageIndex, PageStart, PageSizeAssumption
<1> HIDE DEF j, k
<1>2. ASSUME k + 1 <= j PROVE FALSE
  <2>0. k + 1 \in Int
    BY <1>1
  <2>1. (k + 1) * PageSize <= j * PageSize
    BY <2>0, <1>1, <1>2, PageMonotone
  <2> QED BY <2>1, <1>1, PageNext
<1>3. j <= k
  BY <1>1, <1>2
<1> QED BY <1>3 DEF j, k

\* A range that ends inside the space spans pages of the space.
LEMMA RangeInSpace ==
    ASSUME NEW a \in Nat, NEW n \in Nat \ {0}, a + n <= AddressLimit
    PROVE  PagesOf(a, n) \subseteq Page
<1> DEFINE k == page_index(a)
           last == page_index(a + n - 1)
<1>1. /\ k \in Int /\ last \in Int
      /\ a < k * PageSize + PageSize /\ last * PageSize <= a + n - 1
      /\ k * PageSize \in Int /\ last * PageSize \in Int /\ PageSize \in Int
      /\ AddressLimit = MaxPages * PageSize /\ MaxPages \in Int /\ MaxPages * PageSize \in Int
  BY PageIndex, PageStart, PageSizeAssumption, MaxPagesAssumption DEF AddressLimit
<1> HIDE DEF k, last
<1>2. ASSUME k <= -1 PROVE FALSE
  <2>1. (k + 1) * PageSize <= 0 * PageSize
    BY <1>1, <1>2, PageMonotone
  <2> QED BY <2>1, <1>1, PageNext, PageSizeAssumption
<1>3. ASSUME MaxPages <= last PROVE FALSE
  <2>1. MaxPages * PageSize <= last * PageSize
    BY <1>1, <1>3, PageMonotone
  <2> QED BY <2>1, <1>1
<1>4. 0 <= k /\ last <= MaxPages - 1
  BY <1>1, <1>2, <1>3
<1> QED BY <1>1, <1>4 DEF PagesOf, Page, k, last

-----------------------------------------------------------------------------
\* The inductive invariant.
Inv == TypeOK /\ KernelFollowsBits

LEMMA Limit ==
    /\ MaxPages \in Nat /\ MaxPages >= 1 /\ PageSize \in Nat /\ PageSize >= 1
    /\ AddressLimit \in Nat /\ AddressLimit >= 1
    /\ Shift \in Nat /\ Shift >= 1 /\ Shift < PageSize
    /\ Page \subseteq Kernel /\ 0 \in Page
<1>1. MaxPages \in Nat /\ MaxPages >= 1 /\ PageSize \in Nat /\ PageSize >= 1
  BY PageSizeAssumption, MaxPagesAssumption
<1>2. AddressLimit \in Nat /\ AddressLimit >= 1
  BY <1>1 DEF AddressLimit
<1>3. Shift \in Nat /\ Shift >= 1 /\ Shift < PageSize
  BY <1>1, ShiftAssumption
<1>4. Page \subseteq Kernel /\ 0 \in Page
  BY <1>1 DEF Page, Kernel
<1> QED BY <1>1, <1>2, <1>3, <1>4

LEMMA WrapType == ASSUME NEW a \in Nat PROVE Wrap(a) \in 0 .. AddressLimit - 1
<1> DEFINE l == AddressLimit
<1>1. l \in Nat \ {0}
  BY Limit
<1> HIDE DEF l
<1>2. a % l \in 0 .. l - 1
  BY <1>1
<1> QED BY <1>2 DEF Wrap, l

-----------------------------------------------------------------------------
\* Bits and protections.

LEMMA InitInv == Init => Inv
<1> SUFFICES ASSUME Init PROVE Inv
  OBVIOUS
<1>1. PICK image \in Image :
        /\ cells = [p \in Page |-> IF p \in DOMAIN image.data THEN image.data[p] ELSE ZeroPage]
        /\ readable = image.read /\ writable = image.write
        /\ prot = [k \in Kernel |-> IF k \in readable \ writable THEN "R" ELSE "RW"]
        /\ running = FALSE
        /\ given = image.read \union image.write
  BY DEF Init
<1>2. cells \in [Page -> Content]
  BY <1>1, RecImageAssumption, ZeroPageType
<1>3. readable \in SUBSET Page /\ writable \in SUBSET Page
  BY <1>1, RecImageAssumption
<1>4. prot \in [Kernel -> Prot] /\ running \in BOOLEAN
  BY <1>1 DEF Prot
<1>5. heap_start \in 0 .. AddressLimit - 1 /\ highest \in Nat
  BY RecInputAssumption, Limit DEF Init
<1>6. KernelFollowsBits
  BY <1>1, <1>3, Limit DEF KernelFollowsBits, ProtOf
<1>7. given \in SUBSET Page /\ readable \union writable \subseteq given
  BY <1>1, <1>3
<1> QED BY <1>2, <1>3, <1>4, <1>5, <1>6, <1>7 DEF Inv, TypeOK

\* Setting the bits of a range and asking the kernel for what they now stand for.
LEMMA AccessStep ==
    ASSUME Inv, NEW start, NEW n, NEW access \in Access, SetBits(start, n, access),
           prot' = Protected(start, n, access),
           UNCHANGED running, running => access = "WRITE"
    PROVE  /\ readable' \in SUBSET Page /\ writable' \in SUBSET Page
           /\ given' \in SUBSET Page /\ readable' \union writable' \subseteq given'
           /\ prot' \in [Kernel -> Prot]
           /\ KernelFollowsBits'
<1> DEFINE pgs == get_pages(start, n) \intersect Page
           changed == {p \in pgs : ProtOf(p) # Target(access)}
<1>1. /\ readable' = IF access = "READ" THEN readable \union pgs ELSE readable \ pgs
      /\ writable' = IF access = "WRITE" THEN writable \union pgs ELSE writable \ pgs
      /\ prot' = [k \in Kernel |-> IF k \in changed THEN Target(access) ELSE prot[k]]
      /\ given' = given \union readable' \union writable'
      /\ pgs \subseteq Page
  BY DEF SetBits, Protected
<1> HIDE DEF pgs
<1>2. readable' \in SUBSET Page /\ writable' \in SUBSET Page
  BY <1>1 DEF Inv, TypeOK
<1>3. given' \in SUBSET Page /\ readable' \union writable' \subseteq given'
  BY <1>1, <1>2 DEF Inv, TypeOK
<1>4. Target(access) \in Prot
  BY DEF Target, Prot
<1>5. prot' \in [Kernel -> Prot]
  BY <1>1, <1>4 DEF Inv, TypeOK
\* A page whose bits stand for what is asked is left as it is, and all others of
\* the range are protected so.
<1>6. ASSUME NEW p \in Page
      PROVE  prot'[p] = IF p \in changed THEN Target(access) ELSE prot[p]
  <2>1. p \in Kernel
    BY <1>6, Limit
  <2> HIDE DEF changed
  <2> QED BY <1>1, <2>1
<1>7. ASSUME NEW p \in Page
      PROVE  prot'[p] = IF p \in given' THEN ProtOf(p)' ELSE "RW"
  <2>1. prot[p] = IF p \in given THEN ProtOf(p) ELSE "RW"
    BY DEF Inv, KernelFollowsBits
  <2>2. CASE p \in changed
    <3>1. p \in pgs /\ ProtOf(p) # Target(access)
      BY <2>2
    <3>2. ProtOf(p)' = Target(access)
      BY <1>1, <3>1 DEF ProtOf, Target, Access
    <3>3. p \in given'
      <4>1. access # "NULL" => p \in readable' \union writable'
        BY <1>1, <3>1 DEF Access
      <4>2. access = "NULL" => p \in readable \union writable
        BY <3>1 DEF ProtOf, Target
      <4> QED BY <1>1, <4>1, <4>2 DEF Inv, TypeOK
    <3>4. prot'[p] = Target(access)
      BY <1>6, <2>2
    <3> QED BY <3>2, <3>3, <3>4
  <2>3. CASE p \notin changed
    <3>1. prot'[p] = prot[p]
      BY <1>6, <2>3
    <3>2. ProtOf(p)' = ProtOf(p)
      <4>1. CASE p \in pgs
        <5>1. ProtOf(p) = Target(access)
          BY <2>3, <4>1
        <5>2. ProtOf(p)' = Target(access)
          BY <1>1, <4>1 DEF ProtOf, Target, Access
        <5> QED BY <5>1, <5>2, Zenon
      <4>2. CASE p \notin pgs
        BY <1>1, <4>2 DEF ProtOf
      <4> QED BY <4>1, <4>2
    <3>3. p \in given' <=> p \in given
      <4>1. ASSUME p \in readable' \union writable' PROVE p \in readable \union writable
        <5>1. ProtOf(p)' # "NONE"
          BY <4>1 DEF ProtOf
        <5>2. ProtOf(p) # "NONE"
          BY <3>2, <5>1, Zenon
        <5> QED BY <5>2 DEF ProtOf
      <4> QED BY <1>1, <4>1 DEF Inv, TypeOK
    <3> QED BY <2>1, <3>1, <3>2, <3>3, Zenon
  <2> QED BY <2>2, <2>3
<1> HIDE DEF changed
<1>8. \A p \in Page : prot'[p] = IF p \in given' THEN ProtOf(p)' ELSE "RW"
  BY <1>7
<1>9. running' => prot'[0] = "RW"
  <2> SUFFICES ASSUME running PROVE prot'[0] = "RW"
    OBVIOUS
  <2>1. prot[0] = "RW" /\ 0 \in Kernel /\ Target(access) = "RW"
    BY Limit DEF Inv, KernelFollowsBits, Target
  <2> QED BY <1>1, <2>1
<1> QED BY <1>2, <1>3, <1>5, <1>8, <1>9 DEF KernelFollowsBits

LEMMA StoredCells ==
    ASSUME TypeOK, NEW address \in Address, NEW data \in Payload,
           cells' = [p \in Page |-> Stored(cells[p], p, address, data)]
    PROVE  cells' \in [Page -> Content]
<1>1. address \in Int /\ data \in Seq(Byte)
  BY RecInputAssumption, Limit
<1> QED BY <1>1, StoredType, PageInt DEF TypeOK

LEMMA NextInv == Inv /\ [Next]_vars => Inv'
<1> SUFFICES ASSUME Inv, [Next]_vars PROVE Inv'
  OBVIOUS
<1>1. ASSUME UNCHANGED <<readable, writable, prot, given>>,
             running' \in BOOLEAN, running' => prot[0] = "RW",
             cells' \in [Page -> Content],
             heap_start' \in 0 .. AddressLimit - 1, highest' \in Nat
      PROVE  Inv'
  <2>1. TypeOK'
    BY <1>1 DEF Inv, TypeOK
  <2>2. \A p \in Page : ProtOf(p)' = ProtOf(p)
    BY <1>1 DEF ProtOf
  <2>3. KernelFollowsBits'
    BY <1>1, <2>2 DEF Inv, KernelFollowsBits
  <2> QED BY <2>1, <2>3 DEF Inv
<1>2. /\ running \in BOOLEAN /\ (running => prot[0] = "RW")
      /\ cells \in [Page -> Content]
      /\ heap_start \in 0 .. AddressLimit - 1 /\ highest \in Nat
  BY DEF Inv, TypeOK, KernelFollowsBits
<1>3. ASSUME UNCHANGED <<cells, perms, heap, running>> PROVE Inv'
  BY <1>1, <1>2, <1>3 DEF perms, heap
<1>4. ASSUME NEW a \in Address, NEW n \in Length, NEW access \in Access,
             alter_accessibility(a, n, access) \/ is_accessible(a, n, access)
      PROVE  Inv'
  <2>1. CASE alter_accessibility(a, n, access)
    <3>1. /\ SetBits(a, n, access) /\ prot' = Protected(a, n, access)
          /\ ~ running /\ UNCHANGED running /\ UNCHANGED <<cells, heap_start, highest>>
      BY <2>1 DEF alter_accessibility, heap
    <3>2. /\ readable' \in SUBSET Page /\ writable' \in SUBSET Page
          /\ given' \in SUBSET Page /\ readable' \union writable' \subseteq given'
          /\ prot' \in [Kernel -> Prot] /\ KernelFollowsBits'
      BY <3>1, AccessStep
    <3> QED BY <1>2, <3>1, <3>2 DEF Inv, TypeOK
  <2>2. CASE is_accessible(a, n, access)
    BY <1>3, <2>2 DEF is_accessible
  <2> QED BY <1>4, <2>1, <2>2
<1>5. ASSUME NEW a \in Address, NEW n \in Length, read(a, n) PROVE Inv'
  BY <1>3, <1>5 DEF read
<1>6. ASSUME NEW a \in Address, NEW data \in Payload, write(a, data) PROVE Inv'
  <2>1. UNCHANGED <<readable, writable, prot, given, heap_start, highest, running>>
    BY <1>6 DEF write, perms, heap
  <2>2. cells' \in [Page -> Content]
    <3>1. CASE UNCHANGED cells
      BY <1>2, <3>1
    <3>2. CASE cells' = [p \in Page |-> Stored(cells[p], p, a, data)]
      BY <3>2, StoredCells DEF Inv
    <3> QED BY <1>6, <3>1, <3>2 DEF write
  <2> QED BY <1>1, <1>2, <2>1, <2>2
<1>7. ASSUME NEW p \in Page, NEW n \in Length, zero_memory_range(p, n) PROVE Inv'
  BY <1>3, <1>7 DEF zero_memory_range
<1>8. CASE execute
  <2>1. UNCHANGED <<cells, readable, writable, prot, given, highest>>
    BY <1>8 DEF execute, perms
  <2>2. /\ running' \in BOOLEAN /\ (running' => prot[0] = "RW")
        /\ heap_start' \in 0 .. AddressLimit - 1
    <3>1. HeapStart \in 0 .. AddressLimit - 1
      BY RecInputAssumption
    <3>2. \/ prot[0] = "RW" /\ heap_start' = HeapStart /\ running' = TRUE
          \/ heap_start' = heap_start /\ running' = running
      BY <1>8 DEF execute
    <3>3. heap_start' \in 0 .. AddressLimit - 1
      BY <1>2, <3>1, <3>2, Zenon
    <3>4. running' \in BOOLEAN /\ (running' => prot[0] = "RW")
      <4>1. CASE prot[0] = "RW" /\ running' = TRUE
        BY <4>1
      <4>2. CASE running' = running
        BY <1>2, <4>2
      <4> QED BY <3>2, <4>1, <4>2
    <3> QED BY <3>3, <3>4
  <2> QED BY <1>1, <1>2, <2>1, <2>2
<1>9. ASSUME NEW a \in Address, NEW n \in Length, load(a, n) PROVE Inv'
  <2>1. /\ UNCHANGED <<cells, readable, writable, prot, given, heap_start, highest>>
        /\ running' \in BOOLEAN /\ (running' => prot[0] = "RW")
    BY <1>2, <1>9 DEF load, perms, heap
  <2> QED BY <1>1, <1>2, <2>1
<1>10. ASSUME NEW a \in Address, NEW data \in Payload, guest_store(a, data) PROVE Inv'
  <2>1. /\ UNCHANGED <<readable, writable, prot, given, heap_start, highest>>
        /\ running' \in BOOLEAN /\ (running' => prot[0] = "RW")
    BY <1>2, <1>10 DEF guest_store, perms, heap
  <2>2. cells' \in [Page -> Content]
    <3>1. CASE UNCHANGED cells
      BY <1>2, <3>1
    <3>2. CASE cells' = [p \in Page |-> Stored(cells[p], p, a, data)]
      BY <3>2, StoredCells DEF Inv
    <3> QED BY <1>10, <3>1, <3>2 DEF guest_store
  <2> QED BY <1>1, <1>2, <2>1, <2>2
<1>11. ASSUME NEW req \in Length, sbrk(req) PROVE Inv'
  <2>1. /\ SetBits(heap_start, req, "WRITE") /\ prot' = Protected(heap_start, req, "WRITE")
        /\ UNCHANGED running /\ UNCHANGED cells
    BY <1>11 DEF sbrk
  <2>2. /\ readable' \in SUBSET Page /\ writable' \in SUBSET Page
        /\ given' \in SUBSET Page /\ readable' \union writable' \subseteq given'
        /\ prot' \in [Kernel -> Prot] /\ KernelFollowsBits'
    BY <2>1, AccessStep DEF Access
  <2>3. heap_start' \in 0 .. AddressLimit - 1 /\ highest' \in Nat
    <3>1. heap_start + req \in Nat
      BY <1>2, RecInputAssumption, Limit
    <3>2. heap_start' = Wrap(heap_start + req) /\ highest' \in {heap_start + req, highest}
      BY <1>11 DEF sbrk
    <3> QED BY <1>2, <3>1, <3>2, WrapType
  <2> QED BY <1>2, <2>1, <2>2, <2>3 DEF Inv, TypeOK
<1>12. CASE exit
  BY <1>1, <1>2, <1>12 DEF exit, perms, heap
<1>13. CASE UNCHANGED vars
  BY <1>3, <1>13 DEF vars
<1> QED BY <1>4, <1>5, <1>6, <1>7, <1>8, <1>9, <1>10, <1>11, <1>12, <1>13 DEF Next, Host, Guest

\* The fields of the mapping and of the context keep their types.
THEOREM InvariantHolds == Spec => []Inv
BY InitInv, NextInv, PTL DEF Spec

\* The kernel's protection of a page that ever had a bit is the one its bits stand
\* for, none when they were taken away; one that never had a bit keeps the mapping's.
\* Guest code never runs with its context protected.
THEOREM KernelFollows == Spec => []KernelFollowsBits
<1>1. Inv => KernelFollowsBits
  BY DEF Inv
<1> QED BY InvariantHolds, <1>1, PTL

-----------------------------------------------------------------------------
\* Approved accesses.

\* The pages of the kernel a range lies in: pages of the range, and at most the one
\* after it.
LEMMA KernelRange ==
    ASSUME NEW a \in Nat, NEW n \in Nat \ {0}
    PROVE  KernelPages(a, n) \subseteq PagesOf(a, n) \union {page_index(a + n - 1) + 1}
<1> DEFINE first == page_index(a)
           last == page_index(a + n - 1)
           kfirst == page_index(a + Shift)
           klast == page_index(a + n - 1 + Shift)
<1>1. /\ a \in Int /\ a + n - 1 \in Int /\ a + Shift \in Int /\ a + n - 1 + Shift \in Int
      /\ a <= a + Shift
  BY Limit
<1>2. first \in Int /\ last \in Int /\ kfirst \in Int /\ klast \in Int /\ first <= kfirst
  BY <1>1, PageIndex, PageIndexMonotone
<1>3. klast <= last + 1
  <2> DEFINE k == klast * PageSize
             l == last * PageSize
  <2>1. /\ k \in Int /\ l \in Int /\ k <= a + n - 1 + Shift /\ a + n - 1 < l + PageSize
        /\ (last + 2) * PageSize = l + 2 * PageSize
    <3>1. k \in Int /\ l \in Int
      BY <1>2, PageStart
    <3>2. k <= a + n - 1 + Shift /\ a + n - 1 < l + PageSize
      BY <1>1, PageIndex
    <3>3. (last + 2) * PageSize = l + 2 * PageSize
      BY <1>2, PageSum
    <3> QED BY <3>1, <3>2, <3>3
  <2>2. ASSUME last + 2 <= klast PROVE FALSE
    <3>1. (last + 2) * PageSize <= klast * PageSize
      BY <1>2, <2>2, PageMonotone
    <3> HIDE DEF last, klast
    <3> QED BY <2>1, <3>1, Limit
  <2> HIDE DEF last, klast
  <2> QED BY <1>2, <2>2
<1> HIDE DEF first, last, kfirst, klast
<1>4. kfirst .. klast \subseteq (first .. last) \union {last + 1}
  BY <1>2, <1>3
<1> QED BY <1>4 DEF KernelPages, KernelPage, PagesOf, first, last, kfirst, klast

LEMMA ApprovedHold == Inv => ApprovedAccesses
<1> SUFFICES ASSUME Inv, NEW a \in Address, NEW n \in Length, n > 0, a + n <= AddressLimit
             PROVE  /\ Accessible(a, n, "READ") =>
                          Refused(a, n, "load") \subseteq {page_index(a + n - 1) + 1}
                    /\ Accessible(a, n, "WRITE") =>
                          Refused(a, n, "store") \subseteq {page_index(a + n - 1) + 1}
  BY DEF ApprovedAccesses
<1>1. a \in Nat /\ n \in Nat \ {0}
  BY RecInputAssumption, Limit
<1>2. PagesOf(a, n) \subseteq Page /\ get_pages(a, n) = PagesOf(a, n)
  BY <1>1, RangeInSpace DEF get_pages
<1>3. KernelPages(a, n) \subseteq PagesOf(a, n) \union {page_index(a + n - 1) + 1}
  BY <1>1, KernelRange
<1>4. ASSUME Accessible(a, n, "READ"), NEW k \in Refused(a, n, "load")
      PROVE  k = page_index(a + n - 1) + 1
  <2>1. k \in KernelPages(a, n) /\ prot[k] \notin {"RW", "R"}
    BY <1>4 DEF Refused
  <2>2. PagesOf(a, n) \subseteq readable \union writable
    BY <1>1, <1>2, <1>4 DEF Accessible
  <2>3. k \notin PagesOf(a, n)
    BY <1>2, <2>1, <2>2 DEF Inv, KernelFollowsBits, ProtOf
  <2> QED BY <1>3, <2>1, <2>3
<1>5. ASSUME Accessible(a, n, "WRITE"), NEW k \in Refused(a, n, "store")
      PROVE  k = page_index(a + n - 1) + 1
  <2>1. k \in KernelPages(a, n) /\ prot[k] # "RW"
    BY <1>5 DEF Refused
  <2>2. PagesOf(a, n) \subseteq writable
    BY <1>1, <1>2, <1>5 DEF Accessible
  <2>3. k \notin PagesOf(a, n)
    BY <1>2, <2>1, <2>2 DEF Inv, KernelFollowsBits, ProtOf
  <2> QED BY <1>3, <2>1, <2>3
<1> QED BY <1>4, <1>5

\* An access is_accessible approves is refused, if at all, for its last bytes alone,
\* which the kernel protects as the page after them.
THEOREM ApprovedAccessesHold == Spec => []ApprovedAccesses
BY InvariantHolds, ApprovedHold, PTL

-----------------------------------------------------------------------------
\* Bytes the guest may not write.

LEMMA GuestKeeps ==
    ASSUME Inv, [Next]_vars, running, NEW p \in Page, NEW o \in Offset, cells'[p][o] # cells[p][o]
    PROVE  KernelPage(p * PageSize + o) \notin given \ writable
<1>1. cells' # cells
  OBVIOUS
<1>2. ~ UNCHANGED cells
  BY <1>1
<1>3. PICK a \in Address, data \in Payload : guest_store(a, data)
  BY <1>2 DEF vars, Next, Host, Guest, alter_accessibility, is_accessible, read, write,
              zero_memory_range, execute, load, sbrk, exit
<1> DEFINE b == p * PageSize + o
           n == Len(data)
<1>4. Refused(a, n, "store") = {} /\ cells' = [q \in Page |-> Stored(cells[q], q, a, data)]
  BY <1>2, <1>3 DEF guest_store
<1>5. a \in Int /\ n \in Nat /\ b \in Int
  <2>1. a \in Int /\ data \in Seq(Byte)
    BY RecInputAssumption, Limit
  <2>2. p * PageSize \in Int /\ o \in Int
    BY PageInt, PageStart
  <2> DEFINE x == p * PageSize
  <2>3. x + o \in Int
    <3> HIDE DEF x
    <3> QED BY <2>2 DEF x
  <2> QED BY <2>1, <2>3
<1>6. Covered(a, n, p, o)
  <2>1. cells'[p][o] = IF Covered(a, n, p, o) THEN data[p * PageSize + o - a + 1] ELSE cells[p][o]
    BY <1>4 DEF Stored
  <2> QED BY <2>1
<1>7. b \in a .. a + n - 1
  BY <1>6 DEF Covered
<1> HIDE DEF b, n
<1>8. KernelPage(b) \in KernelPages(a, n)
  <2>1. /\ a + Shift \in Int /\ b + Shift \in Int /\ a + n - 1 + Shift \in Int
        /\ a + Shift <= b + Shift /\ b + Shift <= a + n - 1 + Shift
    BY <1>5, <1>7, Limit
  <2>2. /\ page_index(a + Shift) <= page_index(b + Shift)
        /\ page_index(b + Shift) <= page_index(a + n - 1 + Shift)
        /\ page_index(a + Shift) \in Int /\ page_index(b + Shift) \in Int
        /\ page_index(a + n - 1 + Shift) \in Int
    BY <2>1, PageIndex, PageIndexMonotone
  <2> QED BY <2>2 DEF KernelPages, KernelPage
<1>9. prot[KernelPage(b)] = "RW"
  BY <1>4, <1>8 DEF Refused
<1>10. KernelPage(b) \notin given \ writable
  BY <1>9 DEF Inv, TypeOK, KernelFollowsBits, ProtOf
<1> QED BY <1>10 DEF b

\* No step of a running guest changes a byte of a kernel page that is read-only or
\* was revoked.
THEOREM UnwritableIsKept == Spec => UnwritableKept
<1>1. Inv /\ [Next]_vars
        => [running => \A p \in Page, o \in Offset :
               cells'[p][o] # cells[p][o] =>
                   KernelPage(p * PageSize + o) \notin given \ writable]_vars
  BY GuestKeeps
<1> QED BY InvariantHolds, <1>1, PTL DEF Spec, UnwritableKept
=============================================================================

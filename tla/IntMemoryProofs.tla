-------------------------- MODULE IntMemoryProofs ---------------------------
(***************************************************************************)
(* Proofs about IntMemory for every page size, address space, set of bytes *)
(* and set of inputs: its type invariant, the coherence of the hot page,   *)
(* and the protection of pages.                                            *)
(***************************************************************************)
EXTENDS IntMemory, WellFoundedInduction, SequenceTheorems, TLAPS

-----------------------------------------------------------------------------
(* The paged address space *)

LEMMA PageStart ==
    ASSUME NEW p \in Int
    PROVE  p * PageSize \in Int
BY PageSizeAssumption

LEMMA PageMonotone ==
    ASSUME NEW p \in Int, NEW q \in Int, p <= q
    PROVE  p * PageSize <= q * PageSize
BY PageSizeAssumption

LEMMA PageSum ==
    ASSUME NEW p \in Int, NEW q \in Int
    PROVE  (p + q) * PageSize = p * PageSize + q * PageSize
BY PageSizeAssumption

LEMMA PageNext ==
    ASSUME NEW p \in Int
    PROVE  (p + 1) * PageSize = p * PageSize + PageSize
BY PageSizeAssumption

\* An address lies in the page its index names.
LEMMA PageIndex ==
    ASSUME NEW a \in Int
    PROVE  /\ page_index(a) \in Int
           /\ page_index(a) * PageSize <= a
           /\ a < page_index(a) * PageSize + PageSize
<1>1. /\ a \div PageSize \in Int /\ (a \div PageSize) * PageSize <= a
      /\ a < (a \div PageSize + 1) * PageSize
  BY PageSizeAssumption
<1> QED BY <1>1, PageNext DEF page_index

\* The address space wraps into itself.
LEMMA WrapInt ==
    ASSUME NEW a \in Nat
    PROVE  Wrap(a) \in Nat
<1>1. AddressLimit \in Nat \ {0}
  BY PageSizeAssumption, MaxPagesAssumption DEF AddressLimit
<1>2. QED BY <1>1 DEF Wrap

LEMMA NatMinimum ==
    ASSUME NEW S \in SUBSET Nat, S # {}
    PROVE  \E x \in S : \A y \in S : x <= y
<1>1. PICK x \in S : \A y \in S : ~ (<<y, x>> \in OpToRel(<, Nat))
  BY NatLessThanWellFounded, WFMin, Zenon
<1>2. \A y \in Nat : y < x => <<y, x>> \in OpToRel(<, Nat)
  BY DEF OpToRel
<1>3. ASSUME NEW y \in S PROVE x <= y
  <2>1. ~ (y < x)
    BY <1>1, <1>2, Zenon
  <2> QED BY <2>1
<1> QED BY <1>3

LEMMA ZeroPageType == ZeroPage \in Content
BY ByteAssumption DEF ZeroPage, Content

\* Storing bytes in a page yields a page.
LEMMA StoredType ==
    ASSUME NEW old \in Content, NEW p \in Int, NEW address \in Int, NEW data \in Seq(Byte)
    PROVE  Stored(old, p, address, data) \in Content
<1>1. ASSUME NEW o \in Offset, Covered(address, Len(data), p, o)
      PROVE  data[p * PageSize + o - address + 1] \in Byte
  <2> DEFINE x == p * PageSize
  <2>1. x \in Int /\ o \in Int
    BY PageStart, PageSizeAssumption DEF Offset
  <2>2. x + o >= address /\ x + o <= address + Len(data) - 1
    BY <1>1, <2>1 DEF Covered
  <2> HIDE DEF x
  <2>3. x + o - address + 1 \in 1 .. Len(data)
    BY <2>1, <2>2
  <2>4. data[x + o - address + 1] \in Byte
    BY <2>3
  <2> QED BY <2>4 DEF x
<1>2. QED BY <1>1 DEF Stored, Content

\* A page none of whose bytes a range covers keeps its content.
LEMMA StoredUncovered ==
    ASSUME NEW old \in Content, NEW p, NEW address, NEW data,
           \A o \in Offset : ~ Covered(address, Len(data), p, o)
    PROVE  Stored(old, p, address, data) = old
BY DEF Stored, Content

LEMMA EmptyStored ==
    ASSUME NEW old \in Content, NEW p, NEW address \in Int
    PROVE  Stored(old, p, address, <<>>) = old
<1>1. \A o \in Offset : ~ Covered(address, Len(<<>>), p, o)
  BY DEF Covered
<1> QED BY <1>1, StoredUncovered

LEMMA PageInt == Page \subseteq Nat /\ Offset \subseteq Nat
BY DEF Page, Offset

\* A page below or above the range of an access is not covered by it.
LEMMA Uncovered ==
    ASSUME NEW p \in Int, NEW address \in Int, NEW n \in Int,
           \/ p < page_index(address)
           \/ p * PageSize >= address + n
    PROVE  \A o \in Offset : ~ Covered(address, n, p, o)
<1> SUFFICES ASSUME NEW o \in Offset, Covered(address, n, p, o) PROVE FALSE
  OBVIOUS
<1> DEFINE x == p * PageSize
<1>1. x \in Int /\ o \in Int /\ 0 <= o /\ o < PageSize /\ PageSize \in Int
  BY PageStart, PageSizeAssumption DEF Offset
<1>2. x + o >= address /\ x + o < address + n
  BY <1>1 DEF Covered
<1>3. CASE p * PageSize >= address + n
  BY <1>1, <1>2, <1>3
<1>4. CASE p < page_index(address)
  <2> DEFINE k == page_index(address)
  <2>1. k \in Int /\ k * PageSize <= address /\ k * PageSize \in Int
    BY PageIndex, PageStart
  <2>2. (p + 1) * PageSize <= k * PageSize
    BY <1>4, <2>1, PageMonotone
  <2>3. x + PageSize <= address
    BY <2>1, <2>2, <1>1, PageNext
  <2> QED BY <1>1, <1>2, <2>3
<1> QED BY <1>3, <1>4

\* A page outside the span of a range is not covered by it.
LEMMA OutsideSpan ==
    ASSUME NEW p \in Int, NEW address \in Int, NEW n \in Int, p \notin PagesOf(address, n)
    PROVE  \A o \in Offset : ~ Covered(address, n, p, o)
<1> DEFINE last == page_index(address + n - 1)
<1>1. /\ last \in Int /\ address + n - 1 < last * PageSize + PageSize
      /\ page_index(address) \in Int /\ last * PageSize \in Int
  BY PageIndex, PageStart
<1>2. p < page_index(address) \/ last < p
  BY <1>1 DEF PagesOf
<1>3. CASE last < p
  <2>1. (last + 1) * PageSize <= p * PageSize
    BY <1>1, <1>3, PageMonotone
  <2>2. p * PageSize >= address + n
    BY <2>1, <1>1, PageNext, PageStart, PageSizeAssumption
  <2> QED BY <2>2, Uncovered
<1> QED BY <1>2, <1>3, Uncovered

\* Storing zeros over whole pages zeroes them.
LEMMA ZeroedRange ==
    ASSUME NEW old \in Content, NEW start \in Int, NEW n \in Nat, NEW p \in start .. start + n - 1
    PROVE  Stored(old, p, start * PageSize, [i \in 1 .. n * PageSize |-> Zero]) = ZeroPage
<1> DEFINE zeros == [i \in 1 .. n * PageSize |-> Zero]
           x == p * PageSize
           s == start * PageSize
           m == n * PageSize
<1>1. x \in Int /\ s \in Int /\ m \in Nat /\ p \in Int /\ PageSize \in Int
  BY PageStart, PageSizeAssumption
<1>2. Len(zeros) = m
  BY <1>1
<1>3. s <= x /\ x + PageSize <= s + m
  <2>1. s <= x
    BY PageMonotone
  <2>2. (p + 1) * PageSize <= (start + n) * PageSize
    BY PageMonotone
  <2> QED BY <2>1, <2>2, <1>1, PageNext, PageSum
<1>4. ASSUME NEW o \in Offset
      PROVE  Covered(s, m, p, o) /\ zeros[x + o - s + 1] = Zero
  <2>1. o \in Int /\ 0 <= o /\ o < PageSize
    BY <1>1 DEF Offset
  <2> HIDE DEF x, s, m
  <2>2. x + o \in s .. s + m - 1 /\ x + o - s + 1 \in 1 .. m
    BY <2>1, <1>1, <1>3
  <2> QED BY <2>2 DEF Covered, x, s, m
<1>5. Stored(old, p, s, zeros) = ZeroPage
  <2> HIDE DEF zeros
  <2> QED BY <1>2, <1>4 DEF Stored, ZeroPage
<1> QED BY <1>5

\* A scan that meets a page it may not touch stops at the first one; the bytes
\* scanned before it are a proper prefix of the range.
LEMMA FaultPlace ==
    ASSUME NEW address \in Nat, NEW n \in Nat \ {0}, NEW allowed \in SUBSET Page,
           Denied(address, n, allowed) # {}
    PROVE  /\ FirstDenied(address, n, allowed) \in Denied(address, n, allowed)
           /\ \A q \in Denied(address, n, allowed) : FirstDenied(address, n, allowed) <= q
           /\ FaultAddress(address, n, allowed) \in address .. address + n - 1
           /\ page_index(address) \notin allowed => FirstDenied(address, n, allowed) = page_index(address)
<1> DEFINE D == Denied(address, n, allowed)
           f == FirstDenied(address, n, allowed)
           k == page_index(address)
           last == page_index(address + n - 1)
<1>1. k \in Int /\ last \in Int /\ k * PageSize <= address /\ address < k * PageSize + PageSize
      /\ last * PageSize <= address + n - 1 /\ k * PageSize \in Int /\ last * PageSize \in Int
      /\ PageSize \in Int
  BY PageIndex, PageStart, PageSizeAssumption
<1>2. k >= 0
  <2> SUFFICES ASSUME k <= -1 PROVE FALSE
    BY <1>1
  <2>1. (k + 1) * PageSize <= 0 * PageSize
    BY <1>1, PageMonotone
  <2> QED BY <2>1, <1>1, PageNext, PageSizeAssumption
<1>3. D \subseteq Nat /\ \A q \in D : k <= q /\ q <= last
  BY <1>1, <1>2 DEF Denied, PagesOf
<1>4. \E x \in D : \A y \in D : x <= y
  BY <1>3, NatMinimum
<1>5. f \in D /\ \A q \in D : f <= q
  BY <1>4 DEF FirstDenied
<1>6. k \notin allowed => f = k
  <2> SUFFICES ASSUME k \notin allowed PROVE f = k
    OBVIOUS
  <2>1. k <= last
    BY <1>3, <1>1, <1>5
  <2>2. k \in D
    BY <1>1, <2>1 DEF Denied, PagesOf
  <2> QED BY <2>2, <1>3, <1>5, <1>1
<1>7. FaultAddress(address, n, allowed) \in address .. address + n - 1
  <2>1. CASE k \notin allowed
    BY <2>1 DEF FaultAddress
  <2>2. CASE k \in allowed
    <3>1. f \in Int /\ k < f /\ f <= last
      <4>1. f # k
        BY <2>2, <1>5 DEF Denied
      <4> QED BY <4>1, <1>1, <1>3, <1>5
    <3> HIDE DEF f, k, last
    <3>2. f * PageSize <= last * PageSize /\ (k + 1) * PageSize <= f * PageSize
      BY <3>1, <1>1, PageMonotone
    <3>3. f * PageSize \in Int /\ address <= f * PageSize /\ f * PageSize <= address + n - 1
      BY <3>1, <3>2, <1>1, PageNext, PageStart
    <3> QED BY <2>2, <3>3 DEF FaultAddress, f, k
  <2> QED BY <2>1, <2>2
<1> QED BY <1>5, <1>6, <1>7

\* The pages a scan has passed when it stops are pages it may touch.
LEMMA BeforeDenied ==
    ASSUME NEW address, NEW n, NEW allowed \in SUBSET Page
    PROVE  {p \in PagesOf(address, n) : \A q \in Denied(address, n, allowed) : p < q}
               \subseteq allowed
<1> SUFFICES ASSUME NEW p \in PagesOf(address, n), p \notin allowed,
                    \A q \in Denied(address, n, allowed) : p < q
             PROVE  FALSE
  OBVIOUS
<1>1. p \in Denied(address, n, allowed) /\ p \in Int
  BY DEF Denied, PagesOf
<1> QED BY <1>1

\* The bytes a scan has passed when it stops, as a string of bytes.
LEMMA FaultPrefix ==
    ASSUME NEW address \in Nat, NEW data \in Seq(Byte), NEW allowed \in SUBSET Page,
           data # <<>>, Denied(address, Len(data), allowed) # {}
    PROVE  LET at == FaultAddress(address, Len(data), allowed)
               prefix == SubSeq(data, 1, at - address)
           IN  /\ at - address \in 0 .. Len(data) - 1
               /\ prefix \in Seq(Byte)
               /\ Len(prefix) = at - address
<1> DEFINE at == FaultAddress(address, Len(data), allowed)
<1>1. Len(data) \in Nat \ {0}
  BY EmptySeq
<1>2. at \in address .. address + Len(data) - 1
  BY <1>1, FaultPlace
<1> HIDE DEF at
<1>3. at - address \in 0 .. Len(data) - 1
  BY <1>1, <1>2
<1>4. \A i \in 1 .. at - address : data[i] \in Byte
  BY <1>1, <1>3
<1>5. /\ SubSeq(data, 1, at - address) \in Seq(Byte)
      /\ Len(SubSeq(data, 1, at - address)) = at - address
  <2>1. 1 \in Int /\ at - address \in Int
    BY <1>3
  <2>2. /\ SubSeq(data, 1, at - address) \in Seq(Byte)
        /\ Len(SubSeq(data, 1, at - address)) =
              IF 1 <= at - address THEN at - address - 1 + 1 ELSE 0
    BY <2>1, <1>4, SubSeqProperties
  <2> QED BY <2>2, <1>3
<1> QED BY <1>3, <1>5 DEF at

LEMMA PageIndexMonotone ==
    ASSUME NEW a \in Int, NEW b \in Int, a <= b
    PROVE  page_index(a) <= page_index(b)
<1> DEFINE j == page_index(a)
           k == page_index(b)
<1>1. /\ j \in Int /\ k \in Int /\ j * PageSize <= a /\ b < k * PageSize + PageSize
      /\ j * PageSize \in Int /\ k * PageSize \in Int /\ PageSize \in Int
  BY PageIndex, PageStart, PageSizeAssumption
<1> HIDE DEF j, k
<1>2. ASSUME k + 1 <= j PROVE FALSE
  <2>0. k + 1 \in Int
    BY <1>1
  <2>1. (k + 1) * PageSize <= j * PageSize
    BY <2>0, <1>1, <1>2, PageMonotone
  <2> QED BY <2>1, <1>1, PageNext
<1>3. j <= k
  BY <1>1, <1>2
<1> QED BY <1>3 DEF j, k

\* The bytes of a range that begins and ends in one page are bytes of it.
LEMMA OnePageIndex ==
    ASSUME NEW a \in Int, NEW n \in Nat \ {0}, page_index(a) = page_index(a + n - 1)
    PROVE  /\ PagesOf(a, n) = {page_index(a)}
           /\ \A i \in 1 .. n : page_index(a + i - 1) = page_index(a)
<1>1. PagesOf(a, n) = {page_index(a)}
  <2>1. page_index(a) \in Int
    BY PageIndex
  <2> QED BY <2>1 DEF PagesOf
<1>2. ASSUME NEW i \in 1 .. n PROVE page_index(a + i - 1) = page_index(a)
  <2> DEFINE c == a + i - 1
             d == a + n - 1
  <2>1. c \in Int /\ d \in Int /\ a <= c /\ c <= d
    OBVIOUS
  <2> HIDE DEF c, d
  <2>2. page_index(a) <= page_index(c) /\ page_index(c) <= page_index(d)
    BY <2>1, PageIndexMonotone
  <2>3. page_index(a) \in Int /\ page_index(c) \in Int /\ page_index(a) = page_index(d)
    BY <2>1, PageIndex DEF d
  <2>4. page_index(c) = page_index(a)
    BY <2>2, <2>3
  <2> QED BY <2>4 DEF c
<1> QED BY <1>1, <1>2

\* A range that ends inside the space spans pages of the space.
LEMMA RangeInSpace ==
    ASSUME NEW a \in Nat, NEW n \in Nat \ {0}, a + n <= AddressLimit
    PROVE  PagesOf(a, n) \subseteq Page
<1> DEFINE k == page_index(a)
           last == page_index(a + n - 1)
<1>1. /\ k \in Int /\ last \in Int
      /\ a < k * PageSize + PageSize /\ last * PageSize <= a + n - 1
      /\ k * PageSize \in Int /\ last * PageSize \in Int /\ PageSize \in Int
      /\ AddressLimit = MaxPages * PageSize /\ MaxPages \in Int /\ MaxPages * PageSize \in Int
  BY PageIndex, PageStart, PageSizeAssumption, MaxPagesAssumption DEF AddressLimit
<1> HIDE DEF k, last
<1>2. ASSUME k <= -1 PROVE FALSE
  <2>1. (k + 1) * PageSize <= 0 * PageSize
    BY <1>1, <1>2, PageMonotone
  <2> QED BY <2>1, <1>1, PageNext, PageSizeAssumption
<1>3. ASSUME MaxPages <= last PROVE FALSE
  <2>1. MaxPages * PageSize <= last * PageSize
    BY <1>1, <1>3, PageMonotone
  <2> QED BY <2>1, <1>1
<1>4. 0 <= k /\ last <= MaxPages - 1
  BY <1>1, <1>2, <1>3
<1> QED BY <1>1, <1>4 DEF PagesOf, Page, k, last

\* The bytes a scan has passed when it stops lie in the pages it has passed.
LEMMA FaultUncovered ==
    ASSUME NEW address \in Nat, NEW n \in Nat \ {0}, NEW allowed \in SUBSET Page,
           Denied(address, n, allowed) # {},
           NEW p \in Page,
           ~ (/\ p \in PagesOf(address, n)
              /\ \A q \in Denied(address, n, allowed) : p < q)
    PROVE  \A o \in Offset :
              ~ Covered(address, FaultAddress(address, n, allowed) - address, p, o)
<1> DEFINE D == Denied(address, n, allowed)
           f == FirstDenied(address, n, allowed)
           k == page_index(address)
           last == page_index(address + n - 1)
           at == FaultAddress(address, n, allowed)
<1>1. /\ f \in D /\ at \in address .. address + n - 1 /\ \A q \in D : f <= q
      /\ k \notin allowed => f = k
  BY FaultPlace
<1>2. /\ k \in Int /\ last \in Int /\ p \in Int /\ D \subseteq k .. last
  BY PageIndex, PageInt DEF Denied, PagesOf
<1>3. at \in Int /\ at - address \in Int
  BY <1>1
<1>4. CASE k \notin allowed
  <2>1. at = address
    BY <1>4 DEF FaultAddress
  <2> QED BY <2>1 DEF Covered
<1>5. CASE p < k
  BY <1>2, <1>3, <1>5, Uncovered
<1>6. CASE k \in allowed /\ f <= p
  <2>1. at = f * PageSize /\ f \in Int
    BY <1>1, <1>2, <1>6 DEF FaultAddress
  <2>2. f * PageSize <= p * PageSize
    BY <1>2, <1>6, <2>1, PageMonotone
  <2>3. p * PageSize >= address + (at - address)
    BY <2>1, <2>2, <1>3, <1>2, PageStart
  <2> DEFINE m == at - address
  <2>4. /\ m \in Int /\ p \in Int /\ address \in Int
        /\ p < page_index(address) \/ p * PageSize >= address + m
    BY <1>2, <1>3, <2>3
  <2> HIDE DEF m
  <2>5. \A o \in Offset : ~ Covered(address, m, p, o)
    BY <2>4, Uncovered
  <2> QED BY <2>5 DEF m
<1>7. p < k \/ f <= p
  <2>1. CASE p \notin PagesOf(address, n)
    <3>1. p < k \/ last < p
      BY <2>1, <1>2 DEF PagesOf
    <3> QED BY <3>1, <1>1, <1>2
  <2>2. CASE \E q \in D : ~ (p < q)
    BY <2>2, <1>1, <1>2
  <2> QED BY <2>1, <2>2
<1> QED BY <1>4, <1>5, <1>6, <1>7

-----------------------------------------------------------------------------
\* The page table.

LEMMA CellsType ==
    ASSUME TypeOK
    PROVE  Cells \in [Page -> Content]
BY ZeroPageType DEF TypeOK, Cells

\* Storing through the page table changes the bytes of the pages stored to, as
\* a flat memory would, and keeps the reference of every page that had one.
LEMMA StoreIntoEffect ==
    ASSUME TypeOK, BuffersDistinct,
           NEW pgs \in SUBSET Page, NEW address \in Int, NEW data \in Seq(Byte),
           StoreInto(pgs, address, data)
    PROVE  /\ buffer' \in [Buffer -> Content]
           /\ pages' \in [Page -> Buffer \union {NoBuffer}]
           /\ BuffersDistinct'
           /\ \A p \in Page : pages[p] # NoBuffer => pages'[p] = pages[p]
           /\ \A p \in pgs : pages'[p] # NoBuffer
           /\ \A p \in Page : Cells'[p] = IF p \in pgs THEN Stored(Cells[p], p, address, data)
                                                       ELSE Cells[p]
<1> DEFINE need == {p \in pgs : pages[p] = NoBuffer}
           Base(b) == IF b \in Free THEN ZeroPage ELSE buffer[b]
<1>1. PICK place \in Injection(need, Free) :
          /\ pages' = [p \in Page |-> IF p \in DOMAIN place THEN place[p] ELSE pages[p]]
          /\ buffer' = [b \in Buffer |->
                          IF \E p \in pgs : pages'[p] = b
                            THEN Stored(Base(b), CHOOSE p \in pgs : pages'[p] = b, address, data)
                            ELSE buffer[b]]
  BY DEF StoreInto
<1>2. /\ place \in [need -> Free]
      /\ \A p, q \in need : place[p] = place[q] => p = q
  BY <1>1 DEF Injection, IsInjective
<1>3. Free \subseteq Buffer /\ \A p \in Page : pages[p] \notin Free
  BY DEF Free
<1>4. /\ \A p \in need : pages'[p] = place[p] /\ pages'[p] \in Free
      /\ \A p \in Page \ need : pages'[p] = pages[p]
  BY <1>1, <1>2
<1>5. pages' \in [Page -> Buffer \union {NoBuffer}]
  BY <1>1, <1>2, <1>3 DEF TypeOK
<1>6. \A p \in pgs : pages'[p] \in Buffer
  BY <1>3, <1>4 DEF TypeOK
<1>7. \A p, q \in Page : pages'[p] = pages'[q] /\ pages'[p] # NoBuffer => p = q
  <2> SUFFICES ASSUME NEW p \in Page, NEW q \in Page,
                      pages'[p] = pages'[q], pages'[p] # NoBuffer
               PROVE  p = q
    OBVIOUS
  <2>1. CASE p \in need /\ q \in need
    BY <2>1, <1>2, <1>4
  <2>2. CASE p \in need /\ q \notin need
    BY <2>2, <1>3, <1>4
  <2>3. CASE p \notin need /\ q \in need
    BY <2>3, <1>3, <1>4
  <2>4. CASE p \notin need /\ q \notin need
    BY <2>4, <1>4 DEF BuffersDistinct
  <2> QED BY <2>1, <2>2, <2>3, <2>4
<1>8. ASSUME NEW p \in pgs
      PROVE  (CHOOSE q \in pgs : pages'[q] = pages'[p]) = p
  <2>1. \A q \in pgs : pages'[q] = pages'[p] => q = p
    BY <1>6, <1>7, BufferAssumption
  <2> QED BY <2>1
<1>9. ASSUME NEW p \in pgs
      PROVE  buffer'[pages'[p]] = Stored(Cells[p], p, address, data)
  <2>1. buffer'[pages'[p]] = Stored(Base(pages'[p]), p, address, data)
    BY <1>1, <1>6, <1>8
  <2>2. Base(pages'[p]) = Cells[p]
    <3>1. CASE p \in need
      BY <3>1, <1>4 DEF Cells
    <3>2. CASE p \notin need
      BY <3>2, <1>3, <1>4 DEF Cells
    <3> QED BY <3>1, <3>2
  <2> QED BY <2>1, <2>2
<1>10. ASSUME NEW b \in Buffer, \A p \in pgs : pages'[p] # b
       PROVE  buffer'[b] = buffer[b]
  BY <1>1, <1>10
<1>11. buffer' \in [Buffer -> Content]
  <2> SUFFICES ASSUME NEW b \in Buffer PROVE buffer'[b] \in Content
    BY <1>1
  <2>1. CASE \E p \in pgs : pages'[p] = b
    <3>1. PICK p \in pgs : pages'[p] = b
      BY <2>1
    <3>2. Cells[p] \in Content /\ p \in Int
      BY CellsType DEF Page
    <3> QED BY <3>1, <3>2, <1>9, StoredType
  <2>2. CASE \A p \in pgs : pages'[p] # b
    BY <2>2, <1>10 DEF TypeOK
  <2> QED BY <2>1, <2>2
<1>12. \A b \in Free' : buffer'[b] = ZeroPage
  <2> SUFFICES ASSUME NEW b \in Free' PROVE buffer'[b] = ZeroPage
    OBVIOUS
  <2>1. b \in Buffer /\ \A p \in Page : pages'[p] # b
    BY DEF Free
  <2>2. \A p \in Page : pages[p] # b
    BY <2>1, <1>4, BufferAssumption
  <2>3. b \in Free
    BY <2>1, <2>2 DEF Free
  <2> QED BY <2>1, <2>3, <1>10 DEF BuffersDistinct
<1>13. BuffersDistinct'
  BY <1>7, <1>12 DEF BuffersDistinct
<1>14. ASSUME NEW p \in Page \ pgs PROVE Cells'[p] = Cells[p]
  <2>1. pages'[p] = pages[p]
    BY <1>4
  <2>2. CASE pages[p] = NoBuffer
    BY <2>1, <2>2 DEF Cells
  <2>3. CASE pages[p] # NoBuffer
    <3>1. pages[p] \in Buffer
      BY <2>3 DEF TypeOK
    <3>2. \A q \in pgs : pages'[q] # pages[p]
      BY <2>1, <2>3, <1>7
    <3> QED BY <2>1, <2>3, <3>1, <3>2, <1>10 DEF Cells
  <2> QED BY <2>2, <2>3
<1>15. ASSUME NEW p \in pgs PROVE Cells'[p] = Stored(Cells[p], p, address, data)
  BY <1>6, <1>9, BufferAssumption DEF Cells
<1>16. \A p \in Page : pages[p] # NoBuffer => pages'[p] = pages[p]
  BY <1>4
<1>17. \A p \in pgs : pages'[p] # NoBuffer
  BY <1>6, BufferAssumption
<1>18. \A p \in Page : Cells'[p] = IF p \in pgs THEN Stored(Cells[p], p, address, data)
                                               ELSE Cells[p]
  BY <1>14, <1>15
<1> QED
  BY <1>5, <1>11, <1>13, <1>16, <1>17, <1>18

-----------------------------------------------------------------------------
\* The inductive invariant.

LEMMA InitInv == Init => Inv
<1> SUFFICES ASSUME Init PROVE Inv
  OBVIOUS
<1>0. PICK image \in Image : \E place \in Injection(DOMAIN image.data, Buffer) :
        /\ pages = [p \in Page |-> IF p \in DOMAIN place THEN place[p] ELSE NoBuffer]
        /\ buffer = [b \in Buffer |->
                        IF \E p \in DOMAIN place : place[p] = b
                          THEN image.data[CHOOSE p \in DOMAIN place : place[p] = b]
                          ELSE ZeroPage]
        /\ readable = image.read
        /\ writable = image.write
        /\ hot = NoHotPage
        /\ heap_break = HeapStart
  BY DEF Init
<1>1. PICK place \in Injection(DOMAIN image.data, Buffer) :
        /\ pages = [p \in Page |-> IF p \in DOMAIN place THEN place[p] ELSE NoBuffer]
        /\ buffer = [b \in Buffer |->
                        IF \E p \in DOMAIN place : place[p] = b
                          THEN image.data[CHOOSE p \in DOMAIN place : place[p] = b]
                          ELSE ZeroPage]
        /\ readable = image.read
        /\ writable = image.write
        /\ hot = NoHotPage
        /\ heap_break = HeapStart
  BY <1>0
<1>2. /\ DOMAIN place = DOMAIN image.data /\ DOMAIN place \subseteq Page
      /\ \A p \in DOMAIN place : place[p] \in Buffer
      /\ \A p, q \in DOMAIN place : place[p] = place[q] => p = q
      /\ image.data \in [DOMAIN place -> Content]
      /\ image.read \subseteq Page /\ image.write \subseteq Page
  BY <1>1, ImageAssumption DEF Injection, IsInjective
<1>3. buffer \in [Buffer -> Content]
  BY <1>1, <1>2, ZeroPageType
<1>4. pages \in [Page -> Buffer \union {NoBuffer}]
  BY <1>1, <1>2
<1>5. hot = NoHotPage /\ hot \in [num : Page \union {-1}, data : Buffer \union {NoBuffer},
                                  writable : BOOLEAN]
  BY <1>1 DEF NoHotPage
<1>6. TypeOK
  BY <1>1, <1>2, <1>3, <1>4, <1>5, InputAssumption DEF TypeOK
<1>7. ASSUME NEW p \in Page, NEW q \in Page, pages[p] = pages[q], pages[p] # NoBuffer
      PROVE  p = q
  BY <1>1, <1>2, <1>7
<1>8. ASSUME NEW b \in Free PROVE buffer[b] = ZeroPage
  <2>1. b \in Buffer /\ \A p \in Page : pages[p] # b
    BY DEF Free
  <2>2. ~ \E p \in DOMAIN place : place[p] = b
    BY <1>1, <1>2, <2>1
  <2> QED BY <1>1, <2>1, <2>2
<1>9. BuffersDistinct
  BY <1>7, <1>8 DEF BuffersDistinct
<1>10. HotPageCoherent
  BY <1>5 DEF HotPageCoherent, NoHotPage
<1> QED BY <1>6, <1>9, <1>10 DEF Inv

\* What each kind of call does to the fields the invariant relates.
LEMMA ReadStep ==
    ASSUME Inv, NEW address \in Int, NEW n, read(address, n)
    PROVE  Inv' /\ UNCHANGED <<buffer, pages, perms, heap_break>>
<1> USE DEF Inv, perms
<1>1. CASE UNCHANGED <<buffer, pages, perms, hot, heap_break>>
  BY <1>1 DEF TypeOK, BuffersDistinct, HotPageCoherent, Free
<1>2. CASE ReadPage(address, n)
  <2> DEFINE pg == page_index(address)
  <2>1. UNCHANGED <<buffer, pages, readable, writable, heap_break>>
    BY <1>2 DEF ReadPage
  <2>2. CASE UNCHANGED hot
    BY <2>1, <2>2, <1>1
  <2>3. CASE /\ pg \in readable \union writable /\ pages[pg] # NoBuffer
             /\ hot' = [num |-> pg, data |-> pages[pg], writable |-> pg \in writable]
    <3>1. pg \in Page /\ pages[pg] \in Buffer
      BY <2>3 DEF TypeOK
    <3> DEFINE w == pg \in writable
    <3>3. w \in BOOLEAN /\ (w => pg \in writable)
      OBVIOUS
    <3>4. hot' = [num |-> pg, data |-> pages[pg], writable |-> w]
      BY <2>3
    <3> HIDE DEF pg, w
    <3>5. /\ hot' \in [num : Page \union {-1}, data : Buffer \union {NoBuffer},
                       writable : BOOLEAN]
          /\ hot'.num = pg /\ hot'.data = pages[pg] /\ hot'.writable = w
      BY <3>1, <3>3, <3>4
    <3>2. TypeOK' /\ HotPageCoherent'
      BY <2>1, <2>3, <3>1, <3>3, <3>5 DEF TypeOK, HotPageCoherent
    <3> QED BY <2>1, <3>2 DEF BuffersDistinct, Free
  <2> QED BY <1>2, <2>2, <2>3 DEF ReadPage
<1>3. read(address, n) =>
          ReadPage(address, n) \/ UNCHANGED <<buffer, pages, perms, hot, heap_break>>
  BY DEF read, EmptyRead, ReadHot, _read_multipage
<1> QED BY <1>1, <1>2, <1>3 DEF ReadPage

LEMMA StoreStep ==
    ASSUME Inv, NEW pgs \in SUBSET Page, NEW address \in Int, NEW data \in Seq(Byte),
           StoreInto(pgs, address, data), UNCHANGED <<perms, heap_break>>,
           \/ UNCHANGED hot
           \/ \E pg \in pgs : /\ pg \in writable
                              /\ hot' = [num |-> pg, data |-> pages'[pg], writable |-> TRUE]
    PROVE  Inv'
<1> USE DEF Inv, perms
<1>1. /\ buffer' \in [Buffer -> Content]
      /\ pages' \in [Page -> Buffer \union {NoBuffer}]
      /\ BuffersDistinct'
      /\ \A p \in Page : pages[p] # NoBuffer => pages'[p] = pages[p]
  BY StoreIntoEffect
<1>2. CASE UNCHANGED hot
  BY <1>1, <1>2 DEF TypeOK, HotPageCoherent
<1>3. ASSUME NEW pg \in pgs, pg \in writable,
             hot' = [num |-> pg, data |-> pages'[pg], writable |-> TRUE]
      PROVE  Inv'
  BY <1>1, <1>3 DEF TypeOK, HotPageCoherent
<1> QED BY <1>2, <1>3

\* A write through the hot page stores what a write through the dict would.
LEMMA WriteHotStep ==
    ASSUME Inv, NEW address \in Int, NEW data \in Seq(Byte), WriteHot(address, data)
    PROVE  /\ Inv'
           /\ hot.num \in writable
           /\ \A p \in Page : Cells'[p] = IF p = hot.num THEN Stored(Cells[p], p, address, data)
                                                        ELSE Cells[p]
<1> USE DEF Inv
<1>1. /\ hot.data # NoBuffer /\ hot.num \in Page /\ hot.num \in Int
      /\ hot.data \in Buffer /\ pages[hot.num] = hot.data
      /\ hot.num \in writable
  BY DEF WriteHot, HotHit, HotPageCoherent, TypeOK, Page
<1>2. /\ buffer' = [buffer EXCEPT ![hot.data] = Stored(buffer[hot.data], hot.num, address, data)]
      /\ UNCHANGED <<pages, readable, writable, hot, heap_break>>
  BY DEF WriteHot, perms
<1>3. Stored(buffer[hot.data], hot.num, address, data) \in Content
  BY <1>1, StoredType DEF TypeOK
<1>4. TypeOK'
  BY <1>2, <1>3 DEF TypeOK
<1>5. hot.data \notin Free
  BY <1>1 DEF Free
<1>6. BuffersDistinct' /\ HotPageCoherent'
  BY <1>2, <1>5 DEF BuffersDistinct, HotPageCoherent, Free, TypeOK
<1>7. ASSUME NEW p \in Page
      PROVE  Cells'[p] = IF p = hot.num THEN Stored(Cells[p], p, address, data) ELSE Cells[p]
  <2>1. CASE p = hot.num
    BY <2>1, <1>1, <1>2 DEF Cells, TypeOK
  <2>2. CASE p # hot.num
    <3>1. pages[p] # hot.data
      BY <2>2, <1>1 DEF BuffersDistinct
    <3>2. pages[p] = NoBuffer \/ buffer'[pages[p]] = buffer[pages[p]]
      BY <3>1, <1>2 DEF TypeOK
    <3> QED BY <2>2, <3>2, <1>2 DEF Cells
  <2> QED BY <2>1, <2>2
<1> QED BY <1>1, <1>4, <1>6, <1>7

\* Every other write stores through the dict, into pages it may write.
LEMMA WriteDictStep ==
    ASSUME Inv, NEW address \in Nat, NEW data \in Seq(Byte), data # <<>>,
           WritePage(address, data) \/ _write_multipage(address, data)
    PROVE  /\ Inv'
           /\ \/ UNCHANGED <<buffer, pages>>
              \/ \E pgs \in SUBSET writable, stored \in Seq(Byte) :
                    StoreInto(pgs, address, stored)
<1> USE DEF Inv
<1>1. writable \subseteq Page
  BY DEF TypeOK
<1>2. CASE WritePage(address, data)
  <2> DEFINE pg == page_index(address)
  <2>1. CASE pg \notin writable
    BY <1>2, <2>1 DEF WritePage, perms, TypeOK, BuffersDistinct, HotPageCoherent, Free
  <2>2. CASE pg \in writable
    <3>1. /\ StoreInto({pg}, address, data) /\ UNCHANGED <<perms, heap_break>>
          /\ hot' = [num |-> pg, data |-> pages'[pg], writable |-> TRUE]
      BY <1>2, <2>2 DEF WritePage
    <3>2. {pg} \in SUBSET writable /\ {pg} \in SUBSET Page
      BY <2>2, <1>1
    <3> DEFINE pgs == {pg}
    <3>3. \E q \in pgs : /\ q \in writable
                         /\ hot' = [num |-> q, data |-> pages'[q], writable |-> TRUE]
      BY <2>2, <3>1
    <3>4. pgs \in SUBSET Page /\ address \in Int /\ StoreInto(pgs, address, data)
      BY <3>1, <3>2
    <3> HIDE DEF pgs
    <3>5. Inv'
      BY <3>1, <3>3, <3>4, StoreStep
    <3> QED BY <3>1, <3>2, <3>5
  <2> QED BY <2>1, <2>2
<1>3. CASE _write_multipage(address, data)
  <2> DEFINE n == Len(data)
             at == FaultAddress(address, n, writable)
             before == {p \in PagesOf(address, n) : \A q \in Denied(address, n, writable) : p < q}
  <2>1. UNCHANGED <<perms, hot, heap_break>>
    BY <1>3 DEF _write_multipage
  <2>2. CASE Denied(address, n, writable) = {} /\ StoreInto(PagesOf(address, n), address, data)
    <3>1. PagesOf(address, n) \in SUBSET writable
      BY <2>2 DEF Denied
    <3>2. Inv'
      BY <1>1, <2>1, <2>2, <3>1, StoreStep
    <3> QED BY <2>2, <3>1, <3>2
  <2>3. CASE /\ Denied(address, n, writable) # {}
             /\ StoreInto(before, address, SubSeq(data, 1, at - address))
    <3>1. before \in SUBSET writable
      BY <1>1, BeforeDenied
    <3> DEFINE stored == SubSeq(data, 1, at - address)
    <3>2. stored \in Seq(Byte)
      BY <1>1, <2>3, FaultPrefix
    <3>3. before \in SUBSET Page /\ address \in Int /\ StoreInto(before, address, stored)
      BY <1>1, <2>3, <3>1
    <3> HIDE DEF before, stored
    <3>4. Inv'
      BY <2>1, <3>2, <3>3, StoreStep
    <3> QED BY <3>1, <3>2, <3>3, <3>4
  <2> QED BY <1>3, <2>2, <2>3 DEF _write_multipage
<1> QED BY <1>2, <1>3

\* Changing permissions keeps the contents and drops the hot page it reaches.
LEMMA AccessStep ==
    ASSUME Inv, NEW start \in Nat, NEW n \in Nat, NEW access,
           SetAccess(start, n, access), UNCHANGED <<buffer, pages>>, heap_break' \in Nat
    PROVE  Inv'
<1> DEFINE pgs == get_pages(start, n) \intersect Page
<1>1. /\ readable' \in SUBSET Page /\ writable' \in SUBSET Page
      /\ \A p \in Page \ pgs : /\ p \in readable => p \in readable'
                               /\ p \in writable => p \in writable'
      /\ hot' = IF hot.num \in pgs THEN NoHotPage ELSE hot
  BY DEF Inv, TypeOK, SetAccess
<1>2. NoHotPage \in [num : Page \union {-1}, data : Buffer \union {NoBuffer},
                     writable : BOOLEAN]
  BY DEF NoHotPage
<1> HIDE DEF pgs
<1>3. TypeOK'
  BY <1>1, <1>2 DEF Inv, TypeOK
<1>4. BuffersDistinct'
  BY DEF Inv, BuffersDistinct, Free
<1>5. HotPageCoherent'
  <2>1. CASE hot' = NoHotPage
    BY <2>1 DEF HotPageCoherent, NoHotPage
  <2>2. CASE hot' = hot /\ hot.num \notin pgs
    BY <2>2, <1>1 DEF Inv, HotPageCoherent
  <2> QED BY <1>1, <2>1, <2>2
<1> QED BY <1>3, <1>4, <1>5 DEF Inv

LEMMA ZeroStep ==
    ASSUME Inv, NEW start \in Page, NEW n \in Nat, start + n <= MaxPages,
           zero_memory_range(start, n)
    PROVE  /\ Inv'
           /\ UNCHANGED <<perms, heap_break>>
           /\ \A p \in Page : Cells'[p] = IF p \in start .. start + n - 1 THEN ZeroPage
                                                                        ELSE Cells[p]
<1> USE DEF Inv
<1>0. UNCHANGED <<perms, hot, heap_break>>
  BY DEF zero_memory_range
<1>1. CASE n = 0
  <2>1. UNCHANGED <<buffer, pages>>
    BY <1>1 DEF zero_memory_range
  <2>2. Inv'
    BY <1>0, <2>1 DEF TypeOK, BuffersDistinct, HotPageCoherent, Free, perms
  <2>3. \A p \in Page : p \notin start .. start + n - 1
    BY <1>1, PageInt
  <2> QED BY <1>0, <2>1, <2>2, <2>3 DEF Cells
<1>2. CASE n # 0
  <2> DEFINE range == start .. start + n - 1
             zeros == [i \in 1 .. n * PageSize |-> Zero]
             address == start * PageSize
  <2>1. StoreInto(range, address, zeros)
    BY <1>2 DEF zero_memory_range
  <2>2. range \in SUBSET Page /\ start \in Int
    BY MaxPagesAssumption DEF Page
  <2>3. zeros \in Seq(Byte) /\ address \in Int
    <3>1. n * PageSize \in Nat
      BY PageSizeAssumption
    <3> DEFINE m == n * PageSize
    <3>2. ASSUME m \in Nat PROVE [i \in 1 .. m |-> Zero] \in Seq(Byte)
      <4> HIDE DEF m
      <4> QED BY <3>2, ByteAssumption
    <3> QED BY <2>2, <3>1, <3>2, PageStart
  <2>4. \A p \in range : Cells[p] \in Content
    BY <2>2, CellsType
  <2>5. \A p \in range : Stored(Cells[p], p, address, zeros) = ZeroPage
    BY <2>2, <2>4, ZeroedRange
  <2> HIDE DEF range, zeros, address
  <2>6. Inv'
    BY <1>0, <2>1, <2>2, <2>3, StoreStep
  <2>7. \A p \in Page : Cells'[p] = IF p \in range THEN Stored(Cells[p], p, address, zeros)
                                                  ELSE Cells[p]
    BY <2>1, <2>2, <2>3, StoreIntoEffect
  <2> QED BY <1>0, <2>5, <2>6, <2>7 DEF range
<1> QED BY <1>1, <1>2

\* One step of the memory: the invariant, and which pages change.
LEMMA NextStep ==
    ASSUME Inv, Next
    PROVE  /\ Inv'
           /\ \A p \in Page : Cells'[p] # Cells[p] => p \in writable \/ Cells'[p] = ZeroPage
<1> DEFINE Protected == \A p \in Page :
                           Cells'[p] # Cells[p] => p \in writable \/ Cells'[p] = ZeroPage
<1>0. UNCHANGED <<buffer, pages>> => Protected
  BY DEF Cells
<1>1. ASSUME NEW a \in Address, NEW n \in Length, read(Wrap(a), n)
      PROVE  Inv' /\ Protected
  <2>1. Wrap(a) \in Int
    BY InputAssumption, WrapInt
  <2>2. Inv' /\ UNCHANGED <<buffer, pages>>
    BY <1>1, <2>1, ReadStep
  <2> QED BY <2>2, <1>0
<1>2. ASSUME NEW a \in Address, NEW data \in Payload, write(Wrap(a), data)
      PROVE  Inv' /\ Protected
  <2> DEFINE address == Wrap(a)
  <2>1. address \in Nat /\ address \in Int /\ data \in Seq(Byte)
    BY InputAssumption, WrapInt
  <2> HIDE DEF address
  <2>2. CASE EmptyWrite
    <3>1. UNCHANGED <<buffer, pages, perms, hot, heap_break>>
      BY <2>2 DEF EmptyWrite
    <3>2. Inv'
      BY <3>1 DEF Inv, TypeOK, BuffersDistinct, HotPageCoherent, Free, perms
    <3> QED BY <3>1, <3>2, <1>0
  <2>3. CASE WriteHot(address, data)
    BY <2>1, <2>3, WriteHotStep
  <2>4. CASE data # <<>> /\ (WritePage(address, data) \/ _write_multipage(address, data))
    <3>1. /\ Inv'
          /\ \/ UNCHANGED <<buffer, pages>>
             \/ \E pgs \in SUBSET writable, stored \in Seq(Byte) :
                    StoreInto(pgs, address, stored)
      BY <2>1, <2>4, WriteDictStep
    <3>2. ASSUME NEW pgs \in SUBSET writable, NEW stored \in Seq(Byte),
                 StoreInto(pgs, address, stored)
          PROVE  Protected
      <4>1. pgs \in SUBSET Page
        BY DEF Inv, TypeOK
      <4>2. \A p \in Page : Cells'[p] = IF p \in pgs THEN Stored(Cells[p], p, address, stored)
                                                    ELSE Cells[p]
        BY <4>1, <3>2, <2>1, StoreIntoEffect DEF Inv
      <4> QED BY <4>2
    <3> QED BY <3>1, <3>2, <1>0
  <2> QED BY <1>2, <2>2, <2>3, <2>4 DEF write, address
<1>3. ASSUME NEW a \in Address, NEW n \in Length, NEW access \in Memory!Access,
             alter_accessibility(a, n, access) \/ is_accessible(a, n, access)
      PROVE  Inv' /\ Protected
  <2>1. CASE alter_accessibility(a, n, access)
    <3>1. /\ SetAccess(a, n, access) /\ UNCHANGED <<buffer, pages>>
          /\ heap_break' \in Nat /\ a \in Nat /\ n \in Nat
      BY <2>1, InputAssumption DEF alter_accessibility, Inv, TypeOK
    <3> QED BY <3>1, <1>0, AccessStep
  <2>2. CASE is_accessible(a, n, access)
    <3>1. UNCHANGED <<buffer, pages, perms, hot, heap_break>>
      BY <2>2 DEF is_accessible
    <3>2. Inv'
      BY <3>1 DEF Inv, TypeOK, BuffersDistinct, HotPageCoherent, Free, perms
    <3> QED BY <3>1, <3>2, <1>0
  <2> QED BY <1>3, <2>1, <2>2
<1>4. ASSUME NEW p \in Page, NEW n \in Length, p + n <= MaxPages, zero_memory_range(p, n)
      PROVE  Inv' /\ Protected
  BY <1>4, InputAssumption, ZeroStep
<1>5. ASSUME NEW req \in Length, sbrk(req)
      PROVE  Inv' /\ Protected
  <2>1. /\ SetAccess(heap_break, req, "WRITE") /\ UNCHANGED <<buffer, pages>>
        /\ heap_break \in Nat /\ req \in Nat /\ heap_break' \in Nat
    BY <1>5, InputAssumption DEF sbrk, Inv, TypeOK
  <2> QED BY <2>1, <1>0, AccessStep
<1> QED BY <1>1, <1>2, <1>3, <1>4, <1>5 DEF Next

LEMMA StutterInv == Inv /\ UNCHANGED vars => Inv'
BY DEF Inv, TypeOK, BuffersDistinct, HotPageCoherent, Free, vars, perms

-----------------------------------------------------------------------------
\* The theorems.

\* INT_Memory's fields keep their types, pages never share a buffer, and the
\* hot page agrees with the page dict and the permission bits, for every size of
\* the memory and every sequence of calls.
THEOREM InvariantHolds == Spec => []Inv
<1>1. Inv /\ [Next]_vars => Inv'
  BY NextStep, StutterInv
<1> QED BY InitInv, <1>1, PTL DEF Spec

THEOREM TypeCorrect == Spec => []TypeOK
<1>1. Inv => TypeOK
  BY DEF Inv
<1> QED BY InvariantHolds, <1>1, PTL

\* No two pages of INT_Memory ever share one page buffer, whichever of the
\* single-page write, the multi-page write and zeroing created them.
THEOREM BuffersStayDistinct == Spec => []BuffersDistinct
<1>1. Inv => BuffersDistinct
  BY DEF Inv
<1> QED BY InvariantHolds, <1>1, PTL

\* The hot page never stands for a permission that was taken away, nor for a
\* buffer the page dict does not hold.
THEOREM HotPageIsCoherent == Spec => []HotPageCoherent
<1>1. Inv => HotPageCoherent
  BY DEF Inv
<1> QED BY InvariantHolds, <1>1, PTL

\* No call but the host's zeroing changes a byte of a page that is not writable.
THEOREM PagesAreProtected == Spec => ProtectedPagesUnchanged
<1>1. Inv /\ [Next]_vars
        => [\A p \in Page : Cells'[p] # Cells[p] => p \in writable \/ Cells'[p] = ZeroPage]_vars
  BY NextStep
<1> QED BY InvariantHolds, <1>1, PTL DEF Spec, ProtectedPagesUnchanged

-----------------------------------------------------------------------------
\* INT_Memory implements GuestMemory: step by step.

\* The promise's view of the address space is INT_Memory's.
LEMMA SameSpace ==
    /\ Memory!Page = Page /\ Memory!ZeroPage = ZeroPage /\ Memory!Content = Content
    /\ Memory!AddressLimit = AddressLimit
    /\ \A a : Memory!Wrap(a) = Wrap(a)
    /\ \A a, n : Memory!PagesOf(a, n) = PagesOf(a, n)
    /\ \A a, n : Memory!get_pages(a, n) = get_pages(a, n)
    /\ \A a, n, allowed : Memory!Denied(a, n, allowed) = Denied(a, n, allowed)
    /\ \A a, n, allowed : Memory!FaultAddress(a, n, allowed) = FaultAddress(a, n, allowed)
    /\ \A cells, a, n : Memory!Loaded(cells, a, n) = Loaded(cells, a, n)
    /\ \A old, p, a, data : Memory!Stored(old, p, a, data) = Stored(old, p, a, data)
<1>1. /\ Memory!Page = Page /\ Memory!ZeroPage = ZeroPage /\ Memory!Content = Content
      /\ Memory!AddressLimit = AddressLimit
  BY DEF Memory!Page, Page, Memory!ZeroPage, ZeroPage, Memory!Content, Content,
         Memory!Offset, Offset, Memory!AddressLimit, AddressLimit
<1>2. \A a : Memory!Wrap(a) = Wrap(a)
  BY DEF Memory!Wrap, Wrap, Memory!AddressLimit, AddressLimit
<1>3. \A a, n : Memory!PagesOf(a, n) = PagesOf(a, n)
  BY DEF Memory!PagesOf, PagesOf, Memory!page_index, page_index
<1>4. \A a, n : Memory!get_pages(a, n) = get_pages(a, n)
  BY <1>3 DEF Memory!get_pages, get_pages
<1>5. \A a, n, allowed : Memory!Denied(a, n, allowed) = Denied(a, n, allowed)
  BY <1>3 DEF Memory!Denied, Denied
<1>6. \A a, n, allowed : Memory!FaultAddress(a, n, allowed) = FaultAddress(a, n, allowed)
  BY DEF Memory!FaultAddress, FaultAddress, Memory!FirstDenied, FirstDenied,
         Memory!Denied, Denied, Memory!PagesOf, PagesOf, Memory!page_index, page_index
<1>7. \A cells, a, n : Memory!Loaded(cells, a, n) = Loaded(cells, a, n)
  BY DEF Memory!Loaded, Loaded, Memory!page_index, page_index
<1>8. \A old, p, a, data : Memory!Stored(old, p, a, data) = Stored(old, p, a, data)
  BY DEF Memory!Stored, Stored, Memory!Covered, Covered, Memory!Offset, Offset
<1> QED BY <1>1, <1>2, <1>3, <1>4, <1>5, <1>6, <1>7, <1>8

LEMMA UnchangedCells == UNCHANGED <<buffer, pages>> => Cells' = Cells
BY DEF Cells

\* Storing through the buffers of pgs is a flat store when no byte outside pgs
\* is covered.
LEMMA StoreIntoIsFlat ==
    ASSUME Inv, NEW pgs \in SUBSET Page, NEW address \in Int, NEW data \in Seq(Byte),
           StoreInto(pgs, address, data),
           \A p \in Page \ pgs : \A o \in Offset : ~ Covered(address, Len(data), p, o)
    PROVE  Cells' = [p \in Page |-> Stored(Cells[p], p, address, data)]
<1>1. Cells \in [Page -> Content]
  BY CellsType DEF Inv
<1>2. \A p \in Page : Cells'[p] = IF p \in pgs THEN Stored(Cells[p], p, address, data)
                                              ELSE Cells[p]
  BY StoreIntoEffect DEF Inv
<1>3. \A p \in Page : Cells'[p] = Stored(Cells[p], p, address, data)
  BY <1>1, <1>2, StoredUncovered
<1>4. Cells' = [p \in Page |-> Cells'[p]]
  BY DEF Cells
<1> QED BY <1>3, <1>4

\* The two ways to answer a read of at least one byte.
LEMMA ReadAnswers ==
    ASSUME NEW address \in Nat, NEW n \in Nat \ {0},
           UNCHANGED <<readable, writable, heap_break>>, Cells' = Cells,
           LET denied == Denied(address, n, readable \union writable)
           IN  \/ denied = {} /\ outcome' = Memory!Data(Loaded(Cells, address, n))
               \/ /\ denied # {}
                  /\ \E at \in {address, FaultAddress(address, n, readable \union writable)} :
                        outcome' = Memory!Fault(at)
    PROVE  Memory!Read(address, n)
<1>1. n > 0
  OBVIOUS
<1>2. Memory!Allowed("READ") = readable \union writable
  BY DEF Memory!Allowed
<1>3. /\ Memory!Denied(address, n, Memory!Allowed("READ"))
            = Denied(address, n, readable \union writable)
      /\ Memory!FaultAddress(address, n, Memory!Allowed("READ"))
            = FaultAddress(address, n, readable \union writable)
      /\ Memory!Loaded(Cells, address, n) = Loaded(Cells, address, n)
  BY <1>2, SameSpace
<1>4. CASE Denied(address, n, readable \union writable) = {}
  BY <1>1, <1>3, <1>4, Zenon DEF Memory!Read
<1>5. CASE Denied(address, n, readable \union writable) # {}
  BY <1>1, <1>3, <1>5, Zenon DEF Memory!Read
<1> QED BY <1>4, <1>5

LEMMA ReadImplements ==
    ASSUME Inv, NEW address \in Nat, NEW n \in Nat, read(address, n)
    PROVE  Memory!Read(address, n)
<1> DEFINE allowed == readable \union writable
<1>0. /\ Memory!Allowed("READ") = allowed
      /\ address \in Int /\ n # 0 => n \in Nat \ {0} /\ n > 0
  BY DEF Memory!Allowed
<1>1. UNCHANGED <<readable, writable, heap_break>> /\ Cells' = Cells
  BY ReadStep, UnchangedCells DEF perms
<1>2. CASE n = 0
  BY <1>1, <1>2 DEF read, EmptyRead, Memory!Read, Memory!Data
<1>3. CASE n # 0 /\ ReadHot(address, n)
  <2>1. /\ page_index(address) = hot.num /\ OnePage(address, n)
        /\ hot.num \in allowed /\ hot.num \in Page
        /\ pages[hot.num] = hot.data /\ hot.data # NoBuffer
    BY <1>3 DEF ReadHot, HotHit, Inv, HotPageCoherent
  <2>a. address \in Int /\ n \in Nat \ {0}
    BY <1>0, <1>3
  <2>b. page_index(address) = page_index(address + n - 1)
    BY <2>1 DEF OnePage
  <2>2. /\ PagesOf(address, n) = {hot.num}
        /\ \A i \in 1 .. n : page_index(address + i - 1) = hot.num
    <3>1. /\ PagesOf(address, n) = {page_index(address)}
          /\ \A i \in 1 .. n : page_index(address + i - 1) = page_index(address)
      BY <2>a, <2>b, OnePageIndex
    <3> QED BY <2>1, <3>1
  <2>3. Denied(address, n, allowed) = {}
    BY <2>1, <2>2 DEF Denied
  <2>4. Cells[hot.num] = buffer[hot.data]
    BY <2>1 DEF Cells
  <2>5. Loaded(Cells, address, n)
          = [i \in 1 .. n |-> buffer[hot.data][(address + i - 1) % PageSize]]
    BY <2>2, <2>4 DEF Loaded
  <2>6. outcome' = Memory!Data(Loaded(Cells, address, n))
    BY <1>3, <2>5 DEF ReadHot
  <2> QED BY <1>0, <1>1, <1>3, <2>3, <2>6, ReadAnswers
<1>4. CASE n # 0 /\ ReadPage(address, n)
  <2> DEFINE pg == page_index(address)
  <2>1. PagesOf(address, n) = {pg}
    BY <1>0, <1>4, OnePageIndex DEF ReadPage, OnePage
  <2>2. CASE pg \notin allowed
    <3>1. Denied(address, n, allowed) # {} /\ outcome' = Memory!Fault(address)
      BY <1>4, <2>1, <2>2 DEF ReadPage, Denied
    <3> QED BY <1>0, <1>1, <1>4, <3>1, ReadAnswers
  <2>3. CASE pg \in allowed
    <3>1. /\ Denied(address, n, allowed) = {}
          /\ outcome' = Memory!Data(Loaded(Cells, address, n))
      BY <1>4, <2>1, <2>3 DEF ReadPage, Denied
    <3> QED BY <1>0, <1>1, <1>4, <3>1, ReadAnswers
  <2> QED BY <2>2, <2>3
<1>5. CASE n # 0 /\ _read_multipage(address, n)
  BY <1>0, <1>1, <1>5, ReadAnswers DEF _read_multipage
<1> QED BY <1>2, <1>3, <1>4, <1>5 DEF read

LEMMA WriteImplements ==
    ASSUME Inv, NEW address \in Nat, NEW data \in Seq(Byte), write(address, data)
    PROVE  Memory!Write(address, data)
<1> DEFINE n == Len(data)
           denied == Denied(address, n, writable)
           at == FaultAddress(address, n, writable)
<1>0. writable \in SUBSET Page /\ Cells \in [Page -> Content] /\ address \in Int
  BY CellsType DEF Inv, TypeOK
<1>1. UNCHANGED <<readable, writable, heap_break>>
  BY DEF write, EmptyWrite, WriteHot, WritePage, _write_multipage, perms
<1>2. CASE data = <<>>
  BY <1>1, <1>2, UnchangedCells DEF write, EmptyWrite, Memory!Write
<1>3. data # <<>> => n \in Nat \ {0}
  BY EmptySeq
<1>4. CASE data # <<>> /\ WriteHot(address, data)
  <2>1. /\ hot.num \in writable
        /\ \A p \in Page : Cells'[p] = IF p = hot.num THEN Stored(Cells[p], p, address, data)
                                                     ELSE Cells[p]
    BY <1>0, <1>4, WriteHotStep
  <2>2. PagesOf(address, n) = {hot.num}
    BY <1>3, <1>4, OnePageIndex DEF WriteHot, HotHit, OnePage
  <2>3. \A p \in Page \ {hot.num} : \A o \in Offset : ~ Covered(address, n, p, o)
    BY <1>0, <1>3, <1>4, <2>2, OutsideSpan, PageInt
  <2>4. \A p \in Page : Cells'[p] = Stored(Cells[p], p, address, data)
    BY <1>0, <2>1, <2>3, StoredUncovered
  <2>5. Cells' = [p \in Page |-> Stored(Cells[p], p, address, data)]
    BY <2>4 DEF Cells
  <2>6. denied = {} /\ outcome' = Memory!Done
    BY <1>4, <2>1, <2>2 DEF Denied, WriteHot
  <2> QED BY <1>1, <1>4, <2>5, <2>6, SameSpace DEF Memory!Write
<1>5. ASSUME data # <<>>, denied = {}, StoreInto(PagesOf(address, n), address, data),
             outcome' = Memory!Done
      PROVE  Memory!Write(address, data)
  <2>1. PagesOf(address, n) \in SUBSET Page
    BY <1>0, <1>5 DEF Denied
  <2>2. \A p \in Page \ PagesOf(address, n) : \A o \in Offset : ~ Covered(address, n, p, o)
    BY <1>0, <1>3, <1>5, OutsideSpan, PageInt
  <2>3. Cells' = [p \in Page |-> Stored(Cells[p], p, address, data)]
    BY <1>0, <1>5, <2>1, <2>2, StoreIntoIsFlat
  <2> QED BY <1>1, <1>5, <2>3, SameSpace DEF Memory!Write
<1>6. CASE data # <<>> /\ WritePage(address, data)
  <2> DEFINE pg == page_index(address)
  <2>1. PagesOf(address, n) = {pg}
    BY <1>3, <1>6, OnePageIndex DEF WritePage, OnePage
  <2>2. CASE pg \notin writable
    <3>1. /\ denied # {} /\ outcome' = Memory!Fault(address)
          /\ UNCHANGED <<buffer, pages>>
      BY <1>6, <2>1, <2>2 DEF WritePage, Denied
    <3>2. SubSeq(data, 1, address - address) = <<>>
      BY SubSeqEmpty
    <3>3. \A p \in Page : Stored(Cells[p], p, address, <<>>) = Cells[p]
      BY <1>0, EmptyStored, PageInt
    <3>4. Cells' = [p \in Page |-> Stored(Cells[p], p, address,
                                         SubSeq(data, 1, address - address))]
      BY <3>1, <3>2, <3>3, UnchangedCells DEF Cells
    <3> QED BY <1>1, <1>6, <3>1, <3>4, SameSpace DEF Memory!Write
  <2>3. CASE pg \in writable
    <3>1. denied = {}
      BY <2>1, <2>3 DEF Denied
    <3>2. StoreInto(PagesOf(address, n), address, data) /\ outcome' = Memory!Done
      BY <1>6, <2>1, <2>3 DEF WritePage
    <3> QED BY <1>5, <1>6, <3>1, <3>2
  <2> QED BY <2>2, <2>3
<1>7. CASE data # <<>> /\ _write_multipage(address, data)
  <2> DEFINE before == {p \in PagesOf(address, n) : \A q \in denied : p < q}
             prefix == SubSeq(data, 1, at - address)
  <2>1. CASE denied = {}
    BY <1>5, <1>7, <2>1 DEF _write_multipage
  <2>2. CASE denied # {}
    <3>1. StoreInto(before, address, prefix) /\ outcome' = Memory!Fault(at)
      BY <1>7, <2>2 DEF _write_multipage
    <3>2. before \in SUBSET Page
      BY <1>0, BeforeDenied
    <3>3. prefix \in Seq(Byte) /\ Len(prefix) = at - address
      BY <1>0, <1>7, <2>2, FaultPrefix
    <3>4. \A p \in Page \ before : \A o \in Offset : ~ Covered(address, at - address, p, o)
      BY <1>0, <1>3, <1>7, <2>2, FaultUncovered
    <3>5. Cells' = [p \in Page |-> Stored(Cells[p], p, address, prefix)]
      <4>1. \A p \in Page \ before : \A o \in Offset : ~ Covered(address, Len(prefix), p, o)
        BY <3>3, <3>4
      <4> HIDE DEF before, prefix
      <4> QED BY <1>0, <3>1, <3>2, <3>3, <4>1, StoreIntoIsFlat
    <3>6. /\ Memory!Denied(address, Len(data), writable) # {}
          /\ Memory!FaultAddress(address, Len(data), writable) = at
          /\ \A p \in Page : Memory!Stored(Cells[p], p, address, prefix)
                             = Stored(Cells[p], p, address, prefix)
          /\ Memory!Page = Page
      BY <2>2, SameSpace
    <3>7. Cells' = [p \in Memory!Page |-> Memory!Stored(Cells[p], p, address, prefix)]
      BY <3>5, <3>6
    <3> HIDE DEF denied
    <3> QED BY <1>1, <1>7, <3>1, <3>6, <3>7, Zenon DEF Memory!Write
  <2> QED BY <2>1, <2>2
<1> QED BY <1>2, <1>4, <1>6, <1>7 DEF write

\* Granting a kind of access to the pages of a range.
LEMMA GrantImplements ==
    ASSUME Inv, NEW start, NEW n, NEW access, SetAccess(start, n, access)
    PROVE  \E pgs \in Memory!Spans(start, n) : Memory!Grant(pgs, access)
<1> DEFINE pgs == get_pages(start, n)
<1>1. pgs \in Memory!Spans(start, n)
  <2> HIDE DEF pgs
  <2>1. Memory!get_pages(start, n) = pgs
    BY SameSpace DEF pgs
  <2> QED BY <2>1, Zenon DEF Memory!Spans
<1>2. /\ readable' = IF access = "READ" THEN readable \union (pgs \intersect Page)
                                        ELSE readable \ pgs
      /\ writable' = IF access = "WRITE" THEN writable \union (pgs \intersect Page)
                                         ELSE writable \ pgs
  <2> HIDE DEF pgs
  <2>1. readable \ (pgs \intersect Page) = readable \ pgs
    BY DEF Inv, TypeOK
  <2>2. writable \ (pgs \intersect Page) = writable \ pgs
    BY DEF Inv, TypeOK
  <2> QED BY <2>1, <2>2 DEF SetAccess, pgs
<1>3. Memory!Grant(pgs, access)
  <2> HIDE DEF pgs
  <2> QED BY <1>2, SameSpace DEF Memory!Grant
<1> QED BY <1>1, <1>3

LEMMA AlterImplements ==
    ASSUME Inv, NEW a \in Nat, NEW n \in Nat, NEW access, alter_accessibility(a, n, access)
    PROVE  Memory!AlterAccessibility(a, n, access)
<1>1. /\ SetAccess(a, n, access) /\ outcome' = Memory!Done
      /\ UNCHANGED heap_break /\ Cells' = Cells
  BY UnchangedCells DEF alter_accessibility
<1>2. \E pgs \in Memory!Spans(a, n) : Memory!Grant(pgs, access)
  BY <1>1, GrantImplements
<1> QED BY <1>1, <1>2, Zenon DEF Memory!AlterAccessibility

LEMMA SbrkImplements ==
    ASSUME Inv, NEW req \in Nat, sbrk(req)
    PROVE  Memory!Sbrk(req)
<1>1. /\ heap_break + req <= HeapLimit /\ heap_break' = heap_break + req
      /\ outcome' = Memory!Break(heap_break + req)
      /\ SetAccess(heap_break, req, "WRITE") /\ Cells' = Cells
  BY UnchangedCells DEF sbrk
<1>2. \E pgs \in Memory!Spans(heap_break, req) : Memory!Grant(pgs, "WRITE")
  BY <1>1, GrantImplements
<1>3. \E break \in {heap_break, heap_break + req} : outcome' = Memory!Break(break)
  BY <1>1
<1> QED BY <1>1, <1>2, <1>3, Zenon DEF Memory!Sbrk

LEMMA ZeroImplements ==
    ASSUME Inv, NEW start \in Page, NEW n \in Nat, start + n <= MaxPages,
           zero_memory_range(start, n)
    PROVE  Memory!ZeroMemoryRange(start, n)
<1>1. UNCHANGED <<readable, writable, heap_break>> /\ outcome' = Memory!Done
  BY DEF zero_memory_range, perms
<1>2. \A p \in Page : Cells'[p] = IF p \in start .. start + n - 1 THEN ZeroPage ELSE Cells[p]
  BY ZeroStep
<1>3. Cells' = [p \in Page |-> IF p \in start .. start + n - 1 THEN ZeroPage ELSE Cells[p]]
  BY <1>2 DEF Cells
<1> QED BY <1>1, <1>3, SameSpace DEF Memory!ZeroMemoryRange

LEMMA IsAccessibleImplements ==
    ASSUME Inv, NEW a \in Nat, NEW n \in Nat, NEW access, is_accessible(a, n, access)
    PROVE  Memory!IsAccessible(a, n, access)
<1> DEFINE answer == n = 0 \/ get_pages(a, n) \intersect Page \subseteq Memory!Allowed(access)
<1>1. /\ UNCHANGED <<readable, writable, heap_break>> /\ Cells' = Cells
      /\ outcome' = Memory!Answer(answer)
  BY UnchangedCells DEF is_accessible, perms
<1>2. answer \in BOOLEAN
  OBVIOUS
<1>3. a + n <= Memory!AddressLimit /\ access # "NULL"
        => answer = (n = 0 \/ Memory!Denied(a, n, Memory!Allowed(access)) = {})
  <2>1. CASE n = 0
    BY <2>1
  <2>2. CASE n # 0 /\ a + n <= AddressLimit
    <3>1. get_pages(a, n) = PagesOf(a, n) /\ PagesOf(a, n) \subseteq Page
      BY <2>2, RangeInSpace DEF get_pages
    <3>2. Memory!Denied(a, n, Memory!Allowed(access)) = PagesOf(a, n) \ Memory!Allowed(access)
      BY SameSpace DEF Denied
    <3> QED BY <2>2, <3>1, <3>2
  <2> QED BY <2>1, <2>2, SameSpace
<1> HIDE DEF answer
<1> QED BY <1>1, <1>2, <1>3, Zenon DEF Memory!IsAccessible

LEMMA InitImplements == Init => Memory!Init
<1> SUFFICES ASSUME Init PROVE Memory!Init
  OBVIOUS
<1>1. Inv
  BY InitInv
<1>2. heap_break = HeapStart /\ outcome = Memory!Done
  BY DEF Init
<1>3. Cells \in [Page -> Content] /\ readable \in SUBSET Page /\ writable \in SUBSET Page
  BY <1>1, CellsType DEF Inv, TypeOK
<1> QED BY <1>2, <1>3, SameSpace DEF Memory!Init

LEMMA NextImplements == Inv /\ Next => Memory!Next
<1> SUFFICES ASSUME Inv, Next PROVE Memory!Next
  OBVIOUS
<1>1. ASSUME NEW a \in Address, NEW n \in Length, read(Wrap(a), n)
      PROVE  Memory!Next
  <2>1. Memory!Read(Memory!Wrap(a), n)
    BY <1>1, InputAssumption, WrapInt, ReadImplements, SameSpace
  <2> QED BY <2>1 DEF Memory!Next
<1>2. ASSUME NEW a \in Address, NEW data \in Payload, write(Wrap(a), data)
      PROVE  Memory!Next
  <2>1. Memory!Write(Memory!Wrap(a), data)
    BY <1>2, InputAssumption, WrapInt, WriteImplements, SameSpace
  <2> QED BY <2>1 DEF Memory!Next
<1>3. ASSUME NEW a \in Address, NEW n \in Length, NEW access \in Memory!Access,
             alter_accessibility(a, n, access) \/ is_accessible(a, n, access)
      PROVE  Memory!Next
  <2>1. \/ Memory!AlterAccessibility(a, n, access)
        \/ Memory!IsAccessible(a, n, access)
    BY <1>3, InputAssumption, AlterImplements, IsAccessibleImplements
  <2> QED BY <2>1 DEF Memory!Next
<1>4. ASSUME NEW p \in Page, NEW n \in Length, p + n <= MaxPages, zero_memory_range(p, n)
      PROVE  Memory!Next
  <2>1. Memory!ZeroMemoryRange(p, n) /\ p \in Memory!Page
    BY <1>4, InputAssumption, ZeroImplements, SameSpace
  <2> QED BY <1>4, <2>1 DEF Memory!Next
<1>5. ASSUME NEW req \in Length, sbrk(req)
      PROVE  Memory!Next
  <2>1. Memory!Sbrk(req)
    BY <1>5, InputAssumption, SbrkImplements
  <2> QED BY <2>1 DEF Memory!Next
<1> QED BY <1>1, <1>2, <1>3, <1>4, <1>5 DEF Next

\* INT_Memory, with its page dict, bit arrays and hot page, behaves as the flat
\* guest memory does: same bytes read, same faults, same permissions and break,
\* for every size of the memory and every sequence of calls.
THEOREM Implements == Spec => ImplementsGuestMemory
<1>1. Inv /\ [Next]_vars => [Memory!Next]_(Memory!vars)
  <2>1. UNCHANGED vars => UNCHANGED Memory!vars
    BY UnchangedCells DEF vars, perms, Memory!vars
  <2> QED BY <2>1, NextImplements
<1> QED BY InitImplements, InvariantHolds, <1>1, PTL DEF Spec, ImplementsGuestMemory, Memory!Spec
=============================================================================

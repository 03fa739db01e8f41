--------------------------- MODULE CyMemoryProofs ---------------------------
(***************************************************************************)
(* Proofs about CyMemory for every page size, address space, set of bytes  *)
(* and set of inputs: which pages its 32-bit loops visit, that its fields  *)
(* keep their types, and that it implements the flat guest memory.         *)
(***************************************************************************)
EXTENDS CyMemory, SequenceTheorems, TLAPS

-----------------------------------------------------------------------------
(* The paged address space *)

LEMMA PageStart ==
    ASSUME NEW p \in Int
    PROVE  p * PageSize \in Int
BY PageSizeAssumption

LEMMA PageMonotone ==
    ASSUME NEW p \in Int, NEW q \in Int, p <= q
    PROVE  p * PageSize <= q * PageSize
BY PageSizeAssumption

LEMMA PageSum ==
    ASSUME NEW p \in Int, NEW q \in Int
    PROVE  (p + q) * PageSize = p * PageSize + q * PageSize
BY PageSizeAssumption

LEMMA PageNext ==
    ASSUME NEW p \in Int
    PROVE  (p + 1) * PageSize = p * PageSize + PageSize
BY PageSizeAssumption

\* An address lies in the page its index names.
LEMMA PageIndex ==
    ASSUME NEW a \in Int
    PROVE  /\ page_index(a) \in Int
           /\ page_index(a) * PageSize <= a
           /\ a < page_index(a) * PageSize + PageSize
<1>1. /\ a \div PageSize \in Int /\ (a \div PageSize) * PageSize <= a
      /\ a < (a \div PageSize + 1) * PageSize
  BY PageSizeAssumption
<1> QED BY <1>1, PageNext DEF page_index

LEMMA ZeroPageType == ZeroPage \in Content
BY ByteAssumption DEF ZeroPage, Content

\* Storing bytes in a page yields a page.
LEMMA StoredType ==
    ASSUME NEW old \in Content, NEW p \in Int, NEW address \in Int, NEW data \in Seq(Byte)
    PROVE  Stored(old, p, address, data) \in Content
<1>1. ASSUME NEW o \in Offset, Covered(address, Len(data), p, o)
      PROVE  data[p * PageSize + o - address + 1] \in Byte
  <2> DEFINE x == p * PageSize
  <2>1. x \in Int /\ o \in Int
    BY PageStart, PageSizeAssumption DEF Offset
  <2>2. x + o >= address /\ x + o <= address + Len(data) - 1
    BY <1>1, <2>1 DEF Covered
  <2> HIDE DEF x
  <2>3. x + o - address + 1 \in 1 .. Len(data)
    BY <2>1, <2>2
  <2>4. data[x + o - address + 1] \in Byte
    BY <2>3
  <2> QED BY <2>4 DEF x
<1>2. QED BY <1>1 DEF Stored, Content

\* A page none of whose bytes a range covers keeps its content.
LEMMA StoredUncovered ==
    ASSUME NEW old \in Content, NEW p, NEW address, NEW data,
           \A o \in Offset : ~ Covered(address, Len(data), p, o)
    PROVE  Stored(old, p, address, data) = old
BY DEF Stored, Content

LEMMA EmptyStored ==
    ASSUME NEW old \in Content, NEW p, NEW address \in Int
    PROVE  Stored(old, p, address, <<>>) = old
<1>1. \A o \in Offset : ~ Covered(address, Len(<<>>), p, o)
  BY DEF Covered
<1> QED BY <1>1, StoredUncovered

LEMMA PageInt == Page \subseteq Nat /\ Offset \subseteq Nat
BY DEF Page, Offset

\* A page below or above the range of an access is not covered by it.
LEMMA Uncovered ==
    ASSUME NEW p \in Int, NEW address \in Int, NEW n \in Int,
           \/ p < page_index(address)
           \/ p * PageSize >= address + n
    PROVE  \A o \in Offset : ~ Covered(address, n, p, o)
<1> SUFFICES ASSUME NEW o \in Offset, Covered(address, n, p, o) PROVE FALSE
  OBVIOUS
<1> DEFINE x == p * PageSize
<1>1. x \in Int /\ o \in Int /\ 0 <= o /\ o < PageSize /\ PageSize \in Int
  BY PageStart, PageSizeAssumption DEF Offset
<1>2. x + o >= address /\ x + o < address + n
  BY <1>1 DEF Covered
<1>3. CASE p * PageSize >= address + n
  BY <1>1, <1>2, <1>3
<1>4. CASE p < page_index(address)
  <2> DEFINE k == page_index(address)
  <2>1. k \in Int /\ k * PageSize <= address /\ k * PageSize \in Int
    BY PageIndex, PageStart
  <2>2. (p + 1) * PageSize <= k * PageSize
    BY <1>4, <2>1, PageMonotone
  <2>3. x + PageSize <= address
    BY <2>1, <2>2, <1>1, PageNext
  <2> QED BY <1>1, <1>2, <2>3
<1> QED BY <1>3, <1>4

\* A page outside the span of a range is not covered by it.
LEMMA OutsideSpan ==
    ASSUME NEW p \in Int, NEW address \in Int, NEW n \in Int, p \notin PagesOf(address, n)
    PROVE  \A o \in Offset : ~ Covered(address, n, p, o)
<1> DEFINE last == page_index(address + n - 1)
<1>1. /\ last \in Int /\ address + n - 1 < last * PageSize + PageSize
      /\ page_index(address) \in Int /\ last * PageSize \in Int
  BY PageIndex, PageStart
<1>2. p < page_index(address) \/ last < p
  BY <1>1 DEF PagesOf
<1>3. CASE last < p
  <2>1. (last + 1) * PageSize <= p * PageSize
    BY <1>1, <1>3, PageMonotone
  <2>2. p * PageSize >= address + n
    BY <2>1, <1>1, PageNext, PageStart, PageSizeAssumption
  <2> QED BY <2>2, Uncovered
<1> QED BY <1>2, <1>3, Uncovered

LEMMA PageIndexMonotone ==
    ASSUME NEW a \in Int, NEW b \in Int, a <= b
    PROVE  page_index(a) <= page_index(b)
<1> DEFINE j == page_index(a)
           k == page_index(b)
<1>1. /\ j \in Int /\ k \in Int /\ j * PageSize <= a /\ b < k * PageSize + PageSize
      /\ j * PageSize \in Int /\ k * PageSize \in Int /\ PageSize \in Int
  BY PageIndex, PageStart, PageSizeAssumption
<1> HIDE DEF j, k
<1>2. ASSUME k + 1 <= j PROVE FALSE
  <2>0. k + 1 \in Int
    BY <1>1
  <2>1. (k + 1) * PageSize <= j * PageSize
    BY <2>0, <1>1, <1>2, PageMonotone
  <2> QED BY <2>1, <1>1, PageNext
<1>3. j <= k
  BY <1>1, <1>2
<1> QED BY <1>3 DEF j, k

\* A range that ends inside the space spans pages of the space.
LEMMA RangeInSpace ==
    ASSUME NEW a \in Nat, NEW n \in Nat \ {0}, a + n <= AddressLimit
    PROVE  PagesOf(a, n) \subseteq Page
<1> DEFINE k == page_index(a)
           last == page_index(a + n - 1)
<1>1. /\ k \in Int /\ last \in Int
      /\ a < k * PageSize + PageSize /\ last * PageSize <= a + n - 1
      /\ k * PageSize \in Int /\ last * PageSize \in Int /\ PageSize \in Int
      /\ AddressLimit = MaxPages * PageSize /\ MaxPages \in Int /\ MaxPages * PageSize \in Int
  BY PageIndex, PageStart, PageSizeAssumption, MaxPagesAssumption DEF AddressLimit
<1> HIDE DEF k, last
<1>2. ASSUME k <= -1 PROVE FALSE
  <2>1. (k + 1) * PageSize <= 0 * PageSize
    BY <1>1, <1>2, PageMonotone
  <2> QED BY <2>1, <1>1, PageNext, PageSizeAssumption
<1>3. ASSUME MaxPages <= last PROVE FALSE
  <2>1. MaxPages * PageSize <= last * PageSize
    BY <1>1, <1>3, PageMonotone
  <2> QED BY <2>1, <1>1
<1>4. 0 <= k /\ last <= MaxPages - 1
  BY <1>1, <1>2, <1>3
<1> QED BY <1>1, <1>4 DEF PagesOf, Page, k, last

-----------------------------------------------------------------------------
\* Words of the width of an address.

LEMMA Limit ==
    /\ AddressLimit \in Nat /\ MaxPages \in Nat /\ PageSize \in Nat
    /\ PageSize >= 2 /\ MaxPages >= 1 /\ 2 * MaxPages <= AddressLimit /\ AddressLimit >= 2
    /\ AddressLimit = MaxPages * PageSize
<1>1. /\ MaxPages \in Nat /\ PageSize \in Nat /\ PageSize >= 2 /\ MaxPages >= 1
  BY PageSizeAssumption, MaxPagesAssumption, CyPageAssumption
<1>2. MaxPages * PageSize >= MaxPages * 2
  BY <1>1
<1>3. AddressLimit = MaxPages * PageSize /\ AddressLimit \in Nat
  BY <1>1 DEF AddressLimit
<1> QED BY <1>1, <1>2, <1>3

LEMMA WrapInside ==
    ASSUME NEW a \in Int, 0 <= a, a < AddressLimit
    PROVE  Wrap(a) = a
<1> DEFINE l == AddressLimit
<1>1. l \in Nat \ {0}
  BY Limit
<1>2. a < l
  OBVIOUS
<1> HIDE DEF l
<1>3. a % l = a
  BY <1>1, <1>2
<1> QED BY <1>3 DEF Wrap, l

LEMMA WrapAbove ==
    ASSUME NEW a \in Int, AddressLimit <= a, a < 2 * AddressLimit
    PROVE  Wrap(a) = a - AddressLimit
<1> DEFINE l == AddressLimit
<1>1. l \in Nat \ {0}
  BY Limit
<1>2. l <= a /\ a < 2 * l
  OBVIOUS
<1> HIDE DEF l
<1>3. a % l = a - l
  BY <1>1, <1>2
<1> QED BY <1>3 DEF Wrap, l

LEMMA WrapBelow ==
    ASSUME NEW a \in Int, 0 - AddressLimit <= a, a < 0
    PROVE  Wrap(a) = a + AddressLimit
<1> DEFINE l == AddressLimit
<1>1. l \in Nat \ {0}
  BY Limit
<1>2. 0 - l <= a
  OBVIOUS
<1> HIDE DEF l
<1>3. a % l = a + l
  BY <1>1, <1>2
<1> QED BY <1>3 DEF Wrap, l

-----------------------------------------------------------------------------
\* The pages _get_page_range yields.

LEMMA PageOfAddress ==
    ASSUME NEW a \in 0 .. AddressLimit - 1
    PROVE  page_index(a) \in Page /\ page_index(a) \in 0 .. MaxPages - 1
<1>1. a \in Nat /\ a + 1 <= AddressLimit /\ a \in Int
  BY Limit
<1>2. PagesOf(a, 1) \subseteq Page
  BY <1>1, RangeInSpace
<1>3. page_index(a) \in PagesOf(a, 1)
  <2>1. page_index(a) \in Int /\ a + 1 - 1 = a
    BY <1>1, PageIndex
  <2> QED BY <2>1 DEF PagesOf
<1> QED BY <1>2, <1>3 DEF Page

\* A range inside the space: the pages it spans.
LEMMA VisitedInside ==
    ASSUME NEW a \in 0 .. AddressLimit - 1, NEW n \in Nat \ {0}, a + n <= AddressLimit
    PROVE  Visited(a, n) = PagesOf(a, n) /\ PagesOf(a, n) \subseteq Page
<1> DEFINE first == page_index(a)
           last == page_index(a + n - 1)
<1>1. a + n - 1 \in 0 .. AddressLimit - 1 /\ a \in Int /\ a <= a + n - 1 /\ a + n - 1 \in Int
  BY Limit
<1>2. /\ first \in 0 .. MaxPages - 1 /\ last \in 0 .. MaxPages - 1 /\ first <= last
  BY <1>1, PageOfAddress, PageIndexMonotone
<1>3. Wrap(a + n - 1) = a + n - 1
  BY <1>1, WrapInside, Limit
<1> HIDE DEF first, last
<1>4. Wrap(last - first + 1) = last - first + 1
  <2>1. /\ last - first + 1 \in Int /\ 0 <= last - first + 1
        /\ last - first + 1 < AddressLimit
    BY <1>2, Limit
  <2> QED BY <2>1, WrapInside
<1>5. ASSUME NEW i \in 0 .. (last - first + 1) - 1 PROVE Wrap(first + i) = first + i
  <2>1. first + i \in Int /\ 0 <= first + i /\ first + i < AddressLimit
    BY <1>2, Limit
  <2> QED BY <2>1, WrapInside
<1>6. Visited(a, n) = {first + i : i \in 0 .. (last - first + 1) - 1}
  BY <1>3, <1>4, <1>5 DEF Visited, first, last
<1>7. ASSUME NEW p \in first .. last
      PROVE  \E i \in 0 .. (last - first + 1) - 1 : p = first + i
  <2>1. p - first \in 0 .. (last - first + 1) - 1 /\ p = first + (p - first)
    BY <1>2
  <2> QED BY <2>1
<1>8. \A i \in 0 .. (last - first + 1) - 1 : first + i \in first .. last
  BY <1>2
<1>9. Visited(a, n) = first .. last
  BY <1>6, <1>7, <1>8
<1>10. first .. last \subseteq Page
  BY <1>2, Limit DEF Page
<1> QED BY <1>9, <1>10 DEF PagesOf, first, last

\* A range that ends past the space: every word from its first page on, so a page
\* number past the last page, and around to the page its last address wraps to.
LEMMA VisitedWrapped ==
    ASSUME NEW a \in 0 .. AddressLimit - 1, NEW n \in Nat,
           n <= AddressLimit - 2 * PageSize + 1, AddressLimit < a + n
    PROVE  /\ MaxPages \in Visited(a, n)
           /\ Visited(a, n) \intersect Page
                = (page_index(a) .. MaxPages - 1) \union (0 .. page_index(Wrap(a + n - 1)))
           /\ MaxPages \in PagesOf(a, n)
<1> DEFINE first == page_index(a)
           w == a + n - 1 - AddressLimit
           last == page_index(w)
           num == last - first + 1
<1>1. /\ Wrap(a + n - 1) = w /\ w \in 0 .. AddressLimit - 1 /\ w <= a - 2 * PageSize
      /\ a \in Int /\ w \in Int
  <2>1. a + n - 1 \in Int /\ AddressLimit <= a + n - 1 /\ a + n - 1 < 2 * AddressLimit
    BY Limit
  <2> QED BY <2>1, WrapAbove, Limit
<1>2. first \in 0 .. MaxPages - 1 /\ last \in 0 .. MaxPages - 1
  BY <1>1, PageOfAddress
<1>3. last + 2 <= first
  <2> DEFINE lastStart == last * PageSize
             firstStart == first * PageSize
  <2>1. /\ lastStart <= w /\ a < firstStart + PageSize
        /\ lastStart \in Int /\ firstStart \in Int /\ last \in Int /\ first \in Int
    BY <1>1, PageIndex, PageStart
  <2>2. (last + 2) * PageSize = lastStart + 2 * PageSize
    BY <2>1, PageSum
  <2>3. ASSUME first <= last + 1 PROVE FALSE
    <3>1. first * PageSize <= (last + 1) * PageSize /\ (last + 1) * PageSize = lastStart + PageSize
      BY <2>1, <2>3, PageMonotone, PageNext
    <3> HIDE DEF first, last, w
    <3>2. firstStart <= lastStart + PageSize
      BY <3>1
    <3> HIDE DEF firstStart, lastStart
    <3> QED BY <2>1, <3>2, <1>1, Limit
  <2> HIDE DEF first, last
  <2> QED BY <2>1, <2>3
<1> HIDE DEF first, last, w
<1>4. Wrap(num) = num + AddressLimit
  <2>1. num \in Int /\ 0 - AddressLimit <= num /\ num < 0
    BY <1>2, <1>3, Limit
  <2> HIDE DEF num
  <2> QED BY <2>1, WrapBelow
<1>5. Visited(a, n) = {Wrap(first + i) : i \in 0 .. AddressLimit + last - first}
  <2>1. num \in Int /\ num + AddressLimit - 1 = AddressLimit + last - first
    BY <1>2, Limit
  <2>2. Visited(a, n) = {Wrap(first + i) : i \in 0 .. Wrap(num) - 1}
    BY <1>1 DEF Visited, first, last
  <2> HIDE DEF num
  <2>3. Wrap(num) - 1 = AddressLimit + last - first
    BY <1>4, <2>1, Limit
  <2> QED BY <2>2, <2>3
<1>6. ASSUME NEW p \in first .. AddressLimit - 1 PROVE p \in Visited(a, n)
  <2>1. /\ p - first \in 0 .. AddressLimit + last - first /\ first + (p - first) = p
        /\ p \in Int /\ 0 <= p /\ p < AddressLimit
    BY <1>2, Limit
  <2>2. Wrap(p) = p
    BY <2>1, WrapInside
  <2> QED BY <1>5, <2>1, <2>2
<1>7. ASSUME NEW p \in 0 .. last PROVE p \in Visited(a, n)
  <2> DEFINE i == AddressLimit + p - first
  <2>1. /\ i \in 0 .. AddressLimit + last - first /\ first + i = AddressLimit + p
        /\ AddressLimit + p \in Int /\ AddressLimit <= AddressLimit + p
        /\ AddressLimit + p < 2 * AddressLimit /\ p \in Int
    BY <1>2, Limit
  <2> HIDE DEF i
  <2>2. Wrap(first + i) = p
    <3> DEFINE x == AddressLimit + p
    <3>1. x \in Int /\ AddressLimit <= x /\ x < 2 * AddressLimit /\ first + i = x
      BY <2>1
    <3> HIDE DEF x
    <3>2. Wrap(x) = x - AddressLimit
      BY <3>1, WrapAbove
    <3>3. x - AddressLimit = p
      BY <2>1, Limit DEF x
    <3> QED BY <3>1, <3>2, <3>3
  <2> QED BY <1>5, <2>1, <2>2
<1>8. ASSUME NEW i \in 0 .. AddressLimit + last - first, Wrap(first + i) \in Page
      PROVE  Wrap(first + i) \in (first .. MaxPages - 1) \union (0 .. last)
  <2>0. first + i \in Int /\ 0 <= first + i /\ first + i <= AddressLimit + last
    BY <1>2, Limit
  <2>1. CASE first + i < AddressLimit
    <3>1. Wrap(first + i) = first + i
      BY <2>0, <2>1, WrapInside
    <3> QED BY <3>1, <1>2, <1>8 DEF Page
  <2>2. CASE AddressLimit <= first + i
    <3>1. first + i < 2 * AddressLimit
      BY <2>0, <1>2, Limit
    <3> DEFINE x == first + i
    <3>2. x \in Int /\ AddressLimit <= x /\ x < 2 * AddressLimit /\ x <= AddressLimit + last
      BY <2>0, <2>2, <3>1
    <3> HIDE DEF x
    <3>3. Wrap(x) = x - AddressLimit
      BY <3>2, WrapAbove
    <3>4. x - AddressLimit \in 0 .. last
      BY <3>2, <1>2, Limit
    <3> QED BY <3>3, <3>4 DEF x
  <2> QED BY <2>0, <2>1, <2>2, Limit
<1>9. MaxPages \in Visited(a, n)
  BY <1>2, <1>6, Limit
<1>10. Visited(a, n) \intersect Page = (first .. MaxPages - 1) \union (0 .. last)
  <2>1. Visited(a, n) \intersect Page \subseteq (first .. MaxPages - 1) \union (0 .. last)
    BY <1>5, <1>8
  <2>2. first .. MaxPages - 1 \subseteq Visited(a, n) /\ 0 .. last \subseteq Visited(a, n)
    BY <1>2, <1>6, <1>7, Limit
  <2>3. first .. MaxPages - 1 \subseteq Page /\ 0 .. last \subseteq Page
    BY <1>2, Limit DEF Page
  <2> QED BY <2>1, <2>2, <2>3
<1>11. MaxPages \in PagesOf(a, n)
  <2> DEFINE top == page_index(a + n - 1)
  <2>1. /\ a + n - 1 \in Int /\ AddressLimit <= a + n - 1 /\ first \in Int /\ first <= MaxPages
    BY <1>1, <1>2, Limit
  <2>2. top \in Int /\ a + n - 1 < top * PageSize + PageSize /\ top * PageSize \in Int
    BY <2>1, PageIndex, PageStart
  <2>3. ASSUME top + 1 <= MaxPages PROVE FALSE
    <3> HIDE DEF top
    <3>1. (top + 1) * PageSize <= MaxPages * PageSize /\ (top + 1) * PageSize = top * PageSize + PageSize
      BY <2>2, <2>3, PageMonotone, PageNext, Limit
    <3> QED BY <3>1, <2>1, <2>2, Limit
  <2>4. MaxPages <= top
    BY <2>2, <2>3, Limit
  <2> HIDE DEF top
  <2>5. MaxPages \in first .. top
    BY <2>1, <2>2, <2>4, Limit
  <2> QED BY <2>5 DEF PagesOf, first, top
<1> QED BY <1>1, <1>9, <1>10, <1>11 DEF first, last

\* An empty range: the page of its address, no page, or every page at address 0.
LEMMA VisitedEmpty ==
    ASSUME NEW a \in 0 .. AddressLimit - 1
    PROVE  /\ a = 0 => Visited(a, 0) = Page /\ page_index(a) = 0 /\ page_index(Wrap(a - 1)) = MaxPages - 1
           /\ a # 0 => Visited(a, 0) \in {{}, {page_index(a)}}
<1> DEFINE first == page_index(a)
           last == page_index(Wrap(a - 1))
<1>1. CASE a # 0
  <2>1. a - 1 \in 0 .. AddressLimit - 1 /\ a - 1 <= a /\ a \in Int
    BY <1>1, Limit
  <2>2. Wrap(a - 1) = a - 1
    BY <2>1, WrapInside, Limit
  <2>3. first \in 0 .. MaxPages - 1 /\ last \in 0 .. MaxPages - 1 /\ last <= first
    BY <2>1, <2>2, PageOfAddress, PageIndexMonotone, Limit
  <2>4. first - 1 <= last
    <3> DEFINE firstStart == first * PageSize
               lastStart == last * PageSize
    <3>1. /\ firstStart <= a /\ a - 1 < lastStart + PageSize
          /\ firstStart \in Int /\ lastStart \in Int
          /\ (last + 2) * PageSize = lastStart + 2 * PageSize
      <4>1. firstStart <= a /\ firstStart \in Int
        BY <2>1, PageIndex, PageStart
      <4>2. a - 1 < lastStart + PageSize /\ lastStart \in Int
        BY <2>1, <2>2, PageIndex, PageStart
      <4>3. last \in Int
        BY <2>3, Limit
      <4> HIDE DEF last
      <4>4. (last + 2) * PageSize = last * PageSize + 2 * PageSize
        BY <4>3, PageSum
      <4> QED BY <4>1, <4>2, <4>4
    <3>2. ASSUME last + 2 <= first PROVE FALSE
      <4>1. (last + 2) * PageSize <= first * PageSize
        BY <2>3, <3>2, PageMonotone
      <4> HIDE DEF first, last
      <4> QED BY <3>1, <4>1, <2>1, Limit
    <3> HIDE DEF first, last
    <3> QED BY <2>3, <3>2, Limit
  <2> HIDE DEF first, last
  <2>5. Wrap(last - first + 1) = last - first + 1 /\ last - first + 1 \in 0 .. 1
    <3>1. last - first + 1 \in Int /\ 0 <= last - first + 1 /\ last - first + 1 < AddressLimit
      BY <2>3, <2>4, Limit
    <3> QED BY <3>1, <2>3, WrapInside, Limit
  <2>6. Wrap(first + 0) = first
    <3>1. first \in Int /\ 0 <= first /\ first < AddressLimit /\ first + 0 = first
      BY <2>3, Limit
    <3> QED BY <3>1, WrapInside
  <2>7. a + 0 - 1 = a - 1
    BY <2>1
  <2>8. Visited(a, 0) = {Wrap(first + i) : i \in 0 .. (last - first + 1) - 1}
    BY <2>5, <2>7 DEF Visited, first, last
  <2>9. CASE last - first + 1 = 0
    <3>1. 0 .. (last - first + 1) - 1 = {}
      BY <2>9
    <3> QED BY <1>1, <2>8, <3>1
  <2>10. CASE last - first + 1 = 1
    <3>1. 0 .. (last - first + 1) - 1 = {0}
      BY <2>10
    <3> QED BY <1>1, <2>6, <2>8, <3>1 DEF first
  <2> QED BY <1>1, <2>5, <2>9, <2>10
<1>2. CASE a = 0
  <2>1. Wrap(a - 1) = AddressLimit - 1
    <3>1. 0 - 1 \in Int /\ 0 - AddressLimit <= 0 - 1 /\ 0 - 1 < 0
          /\ 0 - 1 + AddressLimit = AddressLimit - 1
      BY Limit
    <3>2. Wrap(0 - 1) = 0 - 1 + AddressLimit
      BY <3>1, WrapBelow
    <3> QED BY <1>2, <3>1, <3>2
  <2>2. first = 0
    <3>1. 0 \in 0 .. AddressLimit - 1
      BY Limit
    <3>2. page_index(0) \in Int /\ page_index(0) * PageSize <= 0 /\ page_index(0) >= 0
      BY <3>1, PageIndex, PageOfAddress
    <3>3. ASSUME page_index(0) >= 1 PROVE FALSE
      <4>1. 1 * PageSize <= page_index(0) * PageSize
        BY <3>2, <3>3, PageMonotone
      <4> QED BY <3>2, <4>1, Limit
    <3> QED BY <1>2, <3>2, <3>3
  <2>3. last = MaxPages - 1
    <3> DEFINE top == AddressLimit - 1
    <3>0. top \in 0 .. AddressLimit - 1 /\ top \in Int
      BY Limit
    <3>1. /\ page_index(top) \in 0 .. MaxPages - 1 /\ top < page_index(top) * PageSize + PageSize
          /\ page_index(top) * PageSize \in Int
      BY <3>0, PageIndex, PageOfAddress, PageStart
    <3>2. ASSUME page_index(top) + 1 <= MaxPages - 1 PROVE FALSE
      <4> DEFINE k == page_index(top)
      <4>1. /\ (k + 1) * PageSize <= (MaxPages - 1) * PageSize
            /\ (k + 1) * PageSize = k * PageSize + PageSize
            /\ (MaxPages - 1 + 1) * PageSize = (MaxPages - 1) * PageSize + PageSize
            /\ MaxPages - 1 + 1 = MaxPages /\ (MaxPages - 1) * PageSize \in Int
        BY <3>1, <3>2, PageMonotone, PageNext, PageStart, Limit
      <4> HIDE DEF k
      <4> QED BY <3>1, <4>1, Limit DEF k
    <3> HIDE DEF top
    <3> QED BY <2>1, <3>1, <3>2, Limit DEF top
  <2> HIDE DEF first, last
  <2>4. Wrap(last - first + 1) = MaxPages
    <3>1. MaxPages \in Int /\ 0 <= MaxPages /\ MaxPages < AddressLimit /\ last - first + 1 = MaxPages
      BY <2>2, <2>3, Limit
    <3> QED BY <3>1, WrapInside
  <2>5. ASSUME NEW i \in 0 .. MaxPages - 1 PROVE Wrap(first + i) = i
    <3>1. i \in Int /\ 0 <= i /\ i < AddressLimit /\ first + i = i
      BY <2>2, Limit
    <3> QED BY <3>1, WrapInside
  <2>6. a + 0 - 1 = a - 1
    BY <1>2
  <2>7. Visited(a, 0) = {Wrap(first + i) : i \in 0 .. MaxPages - 1}
    BY <2>4, <2>6 DEF Visited, first, last
  <2>8. Visited(a, 0) = Page
    BY <2>5, <2>7 DEF Page
  <2> QED BY <1>2, <2>2, <2>3, <2>8 DEF first, last
<1> QED BY <1>1, <1>2

-----------------------------------------------------------------------------
\* The fields keep their types.

\* TypeOK, and the bound that sbrk keeps the break below.
Inv == TypeOK /\ heap_break \in 0 .. HeapLimit

LEMMA Inputs ==
    /\ \A a \in Address : a \in 0 .. AddressLimit - 1 /\ a \in Nat /\ Wrap(a) = a
    /\ \A n \in Length : n \in Nat /\ n <= AddressLimit - 2 * PageSize + 1
    /\ \A data \in Payload : data \in Seq(Byte) /\ Len(data) \in Length
    /\ HeapLimit \in Nat /\ HeapLimit < AddressLimit /\ HeapStart \in 0 .. HeapLimit
<1>1. \A a \in Address : a \in 0 .. AddressLimit - 1 /\ a \in Nat /\ a < AddressLimit
  BY CyInputAssumption, Limit
<1>2. \A a \in Address : Wrap(a) = a
  BY <1>1, WrapInside
<1>3. HeapLimit \in Nat /\ HeapLimit < AddressLimit /\ HeapStart \in 0 .. HeapLimit
  <2>1. HeapLimit \in 0 .. AddressLimit \div 2 - 1 /\ HeapStart \in 0 .. HeapLimit
    BY CyInputAssumption
  <2>2. AddressLimit \div 2 <= AddressLimit /\ AddressLimit \div 2 \in Int
    BY Limit
  <2> QED BY <2>1, <2>2, Limit
<1>4. \A n \in Length : n \in Nat /\ n <= AddressLimit - 2 * PageSize + 1
  BY CyInputAssumption, Limit
<1>5. \A data \in Payload : data \in Seq(Byte) /\ Len(data) \in Length
  BY CyInputAssumption
<1> QED BY <1>1, <1>2, <1>3, <1>4, <1>5

LEMMA CellsType ==
    ASSUME TypeOK
    PROVE  Cells \in [Page -> Content]
BY ZeroPageType DEF TypeOK, Cells

LEMMA InitInv == Init => Inv
<1> SUFFICES ASSUME Init PROVE Inv
  OBVIOUS
<1>1. PICK image \in Image :
        /\ pages = [p \in Page |-> IF p \in DOMAIN image.data THEN image.data[p] ELSE NoPage]
        /\ readable = image.read /\ writable = image.write
  BY DEF Init
<1>2. pages \in [Page -> Content \union {NoPage}]
  BY <1>1, CyImageAssumption
<1>3. readable \in SUBSET Page /\ writable \in SUBSET Page
  BY <1>1, CyImageAssumption
<1>4. heap_break \in 0 .. HeapLimit /\ heap_break \in 0 .. AddressLimit - 1
  BY Inputs, Limit DEF Init
<1> QED BY <1>2, <1>3, <1>4 DEF Inv, TypeOK

\* What a change of the bits does, whatever pages it reaches.
LEMMA AccessType ==
    ASSUME TypeOK, NEW start, NEW n, NEW access, SetAccess(start, n, access)
    PROVE  readable' \in SUBSET Page /\ writable' \in SUBSET Page
BY DEF TypeOK, SetAccess

LEMMA NextInv == Inv /\ [Next]_vars => Inv'
<1> SUFFICES ASSUME Inv, [Next]_vars PROVE Inv'
  OBVIOUS
<1> USE DEF Inv, perms
<1>1. ASSUME NEW a \in Address, NEW n \in Length, read(a, n) PROVE Inv'
  BY <1>1 DEF read, TypeOK
<1>2. ASSUME NEW a \in Address, NEW data \in Payload, write(a, data) PROVE Inv'
  <2>1. UNCHANGED <<readable, writable, heap_break>>
    BY <1>2 DEF write
  <2>2. pages' \in [Page -> Content \union {NoPage}]
    <3>1. CASE UNCHANGED pages
      BY <3>1 DEF TypeOK
    <3>2. CASE pages' = [p \in Page |-> IF p \in Visited(a, Len(data))
                                         THEN Stored(Cells[p], p, a, data) ELSE pages[p]]
      <4>1. \A p \in Page : Stored(Cells[p], p, a, data) \in Content
        BY CellsType, StoredType, PageInt, Inputs
      <4>2. \A p \in Page : pages[p] \in Content \union {NoPage}
        BY DEF TypeOK
      <4> QED BY <3>2, <4>1, <4>2
    <3> QED BY <1>2, <3>1, <3>2 DEF write
  <2> QED BY <2>1, <2>2 DEF TypeOK
<1>3. ASSUME NEW a \in Address, NEW n \in Length, NEW access \in Memory!Access,
             alter_accessibility(a, n, access) \/ is_accessible(a, n, access)
      PROVE  Inv'
  <2>1. CASE alter_accessibility(a, n, access)
    <3>1. readable' \in SUBSET Page /\ writable' \in SUBSET Page
      BY <2>1, AccessType DEF alter_accessibility
    <3> QED BY <2>1, <3>1 DEF alter_accessibility, TypeOK
  <2>2. CASE is_accessible(a, n, access)
    BY <2>2 DEF is_accessible, TypeOK
  <2> QED BY <1>3, <2>1, <2>2
<1>4. ASSUME NEW p \in Page, NEW n \in Length, p + n <= MaxPages, zero_memory_range(p, n)
      PROVE  Inv'
  BY <1>4, ZeroPageType DEF zero_memory_range, TypeOK
<1>5. ASSUME NEW req \in Length, sbrk(req) PROVE Inv'
  <2>1. readable' \in SUBSET Page /\ writable' \in SUBSET Page
    BY <1>5, AccessType DEF sbrk
  <2>2. heap_break' \in 0 .. HeapLimit /\ heap_break' \in 0 .. AddressLimit - 1
    BY <1>5, Inputs, Limit DEF sbrk, TypeOK
  <2> QED BY <1>5, <2>1, <2>2 DEF sbrk, TypeOK
<1>6. CASE UNCHANGED vars
  BY <1>6 DEF vars, TypeOK
<1> QED BY <1>1, <1>2, <1>3, <1>4, <1>5, <1>6 DEF Next

\* CyMemory's fields keep their types, for every size of the memory and every
\* sequence of calls; the break never passes the bound sbrk is taken below.
THEOREM InvariantHolds == Spec => []Inv
BY InitInv, NextInv, PTL DEF Spec

-----------------------------------------------------------------------------
\* CyMemory implements GuestMemory: step by step.

\* The promise's view of the address space is CyMemory's.
LEMMA SameSpace ==
    /\ Memory!Page = Page /\ Memory!ZeroPage = ZeroPage /\ Memory!Content = Content
    /\ Memory!AddressLimit = AddressLimit
    /\ \A a : Memory!Wrap(a) = Wrap(a)
    /\ \A a, n : Memory!PagesOf(a, n) = PagesOf(a, n)
    /\ \A a, n : Memory!get_pages(a, n) = get_pages(a, n)
    /\ \A a, n, allowed : Memory!Denied(a, n, allowed) = Denied(a, n, allowed)
    /\ \A a, n, allowed : Memory!FaultAddress(a, n, allowed) = FaultAddress(a, n, allowed)
    /\ \A cells, a, n : Memory!Loaded(cells, a, n) = Loaded(cells, a, n)
    /\ \A old, p, a, data : Memory!Stored(old, p, a, data) = Stored(old, p, a, data)
<1>1. /\ Memory!Page = Page /\ Memory!ZeroPage = ZeroPage /\ Memory!Content = Content
      /\ Memory!AddressLimit = AddressLimit
  BY DEF Memory!Page, Page, Memory!ZeroPage, ZeroPage, Memory!Content, Content,
         Memory!Offset, Offset, Memory!AddressLimit, AddressLimit
<1>2. \A a : Memory!Wrap(a) = Wrap(a)
  BY DEF Memory!Wrap, Wrap, Memory!AddressLimit, AddressLimit
<1>3. \A a, n : Memory!PagesOf(a, n) = PagesOf(a, n)
  BY DEF Memory!PagesOf, PagesOf, Memory!page_index, page_index
<1>4. \A a, n : Memory!get_pages(a, n) = get_pages(a, n)
  BY <1>3 DEF Memory!get_pages, get_pages
<1>5. \A a, n, allowed : Memory!Denied(a, n, allowed) = Denied(a, n, allowed)
  BY <1>3 DEF Memory!Denied, Denied
<1>6. \A a, n, allowed : Memory!FaultAddress(a, n, allowed) = FaultAddress(a, n, allowed)
  BY DEF Memory!FaultAddress, FaultAddress, Memory!FirstDenied, FirstDenied,
         Memory!Denied, Denied, Memory!PagesOf, PagesOf, Memory!page_index, page_index
<1>7. \A cells, a, n : Memory!Loaded(cells, a, n) = Loaded(cells, a, n)
  BY DEF Memory!Loaded, Loaded, Memory!page_index, page_index
<1>8. \A old, p, a, data : Memory!Stored(old, p, a, data) = Stored(old, p, a, data)
  BY DEF Memory!Stored, Stored, Memory!Covered, Covered, Memory!Offset, Offset
<1> QED BY <1>1, <1>2, <1>3, <1>4, <1>5, <1>6, <1>7, <1>8

LEMMA UnchangedCells == UNCHANGED pages => Cells' = Cells
BY DEF Cells

\* The loops of an access of at least one byte accept it exactly when no page of
\* the range is denied, whether or not the range wraps.
LEMMA VisitedDecides ==
    ASSUME NEW a \in 0 .. AddressLimit - 1, NEW n \in Nat \ {0},
           n <= AddressLimit - 2 * PageSize + 1, NEW allowed \in SUBSET Page
    PROVE  /\ Visited(a, n) \subseteq allowed <=> Denied(a, n, allowed) = {}
           /\ Visited(a, n) \subseteq allowed => Visited(a, n) = PagesOf(a, n)
<1>1. CASE a + n <= AddressLimit
  BY <1>1, VisitedInside DEF Denied
<1>2. CASE AddressLimit < a + n
  <2>1. MaxPages \in Visited(a, n) /\ MaxPages \in PagesOf(a, n)
    BY <1>2, VisitedWrapped
  <2>2. MaxPages \notin Page
    BY Limit DEF Page
  <2> QED BY <2>1, <2>2 DEF Denied
<1>3. a \in Int
  OBVIOUS
<1> QED BY <1>1, <1>2, <1>3, Limit

\* The two ways to answer a read of at least one byte.
LEMMA ReadAnswers ==
    ASSUME NEW address \in Nat, NEW n \in Nat \ {0},
           UNCHANGED <<readable, writable, heap_break>>, Cells' = Cells,
           LET denied == Denied(address, n, readable \union writable)
           IN  \/ denied = {} /\ outcome' = Memory!Data(Loaded(Cells, address, n))
               \/ /\ denied # {}
                  /\ \E at \in {address, FaultAddress(address, n, readable \union writable)} :
                        outcome' = Memory!Fault(at)
    PROVE  Memory!Read(address, n)
<1>1. n > 0
  OBVIOUS
<1>2. Memory!Allowed("READ") = readable \union writable
  BY DEF Memory!Allowed
<1>3. /\ Memory!Denied(address, n, Memory!Allowed("READ"))
            = Denied(address, n, readable \union writable)
      /\ Memory!FaultAddress(address, n, Memory!Allowed("READ"))
            = FaultAddress(address, n, readable \union writable)
      /\ Memory!Loaded(Cells, address, n) = Loaded(Cells, address, n)
  BY <1>2, SameSpace
<1>4. CASE Denied(address, n, readable \union writable) = {}
  BY <1>1, <1>3, <1>4, Zenon DEF Memory!Read
<1>5. CASE Denied(address, n, readable \union writable) # {}
  BY <1>1, <1>3, <1>5, Zenon DEF Memory!Read
<1> QED BY <1>4, <1>5

LEMMA ReadImplements ==
    ASSUME Inv, NEW a \in Address, NEW n \in Length, read(a, n)
    PROVE  Memory!Read(a, n)
<1> DEFINE allowed == readable \union writable
<1>1. UNCHANGED <<readable, writable, heap_break>> /\ Cells' = Cells
  BY UnchangedCells DEF read, perms
<1>2. CASE n = 0
  <2>1. outcome' = Memory!Data(<<>>)
    BY <1>2 DEF read
  <2> QED BY <1>1, <1>2, <2>1, Zenon DEF Memory!Read
<1>3. CASE n # 0
  <2>1. /\ a \in 0 .. AddressLimit - 1 /\ a \in Nat /\ n \in Nat \ {0} /\ n > 0
        /\ n <= AddressLimit - 2 * PageSize + 1 /\ allowed \in SUBSET Page
    BY <1>3, Inputs DEF Inv, TypeOK
  <2>2. Visited(a, n) \subseteq allowed <=> Denied(a, n, allowed) = {}
    BY <2>1, VisitedDecides
  <2>3. /\ _has_access("READ") = allowed
        /\ outcome' = IF Visited(a, n) \subseteq allowed THEN Memory!Data(Loaded(Cells, a, n))
                                                        ELSE Memory!Fault(a)
    BY <1>3, <2>1 DEF read, _has_access
  <2> HIDE DEF allowed
  <2>4. \/ Denied(a, n, allowed) = {} /\ outcome' = Memory!Data(Loaded(Cells, a, n))
        \/ /\ Denied(a, n, allowed) # {}
           /\ \E at \in {a, FaultAddress(a, n, allowed)} : outcome' = Memory!Fault(at)
    BY <2>2, <2>3
  <2> QED BY <1>1, <2>1, <2>4, ReadAnswers DEF allowed
<1> QED BY <1>2, <1>3

LEMMA WriteImplements ==
    ASSUME Inv, NEW a \in Address, NEW data \in Payload, write(a, data)
    PROVE  Memory!Write(a, data)
<1> DEFINE n == Len(data)
           denied == Denied(a, n, writable)
           range == Visited(a, n)
<1>0. /\ writable \in SUBSET Page /\ Cells \in [Page -> Content] /\ a \in Int /\ a \in Nat
      /\ a \in 0 .. AddressLimit - 1 /\ data \in Seq(Byte) /\ n \in Nat
      /\ n <= AddressLimit - 2 * PageSize + 1
  BY CellsType, Inputs DEF Inv, TypeOK
<1>1. UNCHANGED <<readable, writable, heap_break>>
  BY DEF write, perms
<1>2. CASE data = <<>>
  <2>1. outcome' = Memory!Done /\ UNCHANGED pages
    BY <1>2 DEF write
  <2> QED BY <1>1, <1>2, <2>1, UnchangedCells, Zenon DEF Memory!Write
<1>3. CASE data # <<>> /\ range \subseteq writable
  <2>1. n \in Nat \ {0}
    BY <1>0, <1>3, EmptySeq
  <2>2. denied = {} /\ range = PagesOf(a, n)
    BY <1>0, <1>3, <2>1, VisitedDecides
  <2>3. /\ outcome' = Memory!Done
        /\ pages' = [p \in Page |-> IF p \in range THEN Stored(Cells[p], p, a, data) ELSE pages[p]]
    BY <1>3 DEF write, _has_access
  <2>4. ASSUME NEW p \in Page PROVE Cells'[p] = Stored(Cells[p], p, a, data)
    <3>1. CASE p \in range
      <4>1. Stored(Cells[p], p, a, data) \in Content
        BY <1>0, StoredType, PageInt
      <4> HIDE DEF range
      <4>2. pages'[p] = Stored(Cells[p], p, a, data)
        BY <2>3, <3>1
      <4> QED BY <4>1, <4>2, CyPageAssumption DEF Cells
    <3>2. CASE p \notin range
      <4>1. \A o \in Offset : ~ Covered(a, n, p, o)
        BY <1>0, <2>1, <2>2, <3>2, OutsideSpan, PageInt
      <4>2. Stored(Cells[p], p, a, data) = Cells[p]
        BY <1>0, <4>1, StoredUncovered
      <4> HIDE DEF range
      <4>3. pages'[p] = pages[p]
        BY <2>3, <3>2
      <4> QED BY <4>2, <4>3 DEF Cells
    <3> QED BY <3>1, <3>2
  <2>5. Cells' = [p \in Page |-> Stored(Cells[p], p, a, data)]
    BY <2>4 DEF Cells
  <2>6. /\ Memory!Denied(a, Len(data), writable) = {}
        /\ Cells' = [p \in Memory!Page |-> Memory!Stored(Cells[p], p, a, data)]
    BY <2>2, <2>5, SameSpace
  <2> QED BY <1>1, <1>3, <2>3, <2>6, Zenon DEF Memory!Write
<1>4. CASE data # <<>> /\ ~ range \subseteq writable
  <2>1. n \in Nat \ {0}
    BY <1>0, <1>4, EmptySeq
  <2>2. denied # {}
    BY <1>0, <1>4, <2>1, VisitedDecides
  <2>3. outcome' = Memory!Fault(a) /\ UNCHANGED pages
    BY <1>4 DEF write, _has_access
  <2>4. SubSeq(data, 1, a - a) = <<>>
    BY <1>0, SubSeqEmpty
  <2>5. \A p \in Page : Stored(Cells[p], p, a, <<>>) = Cells[p]
    BY <1>0, EmptyStored, PageInt
  <2>6. Cells' = [p \in Page |-> Stored(Cells[p], p, a, SubSeq(data, 1, a - a))]
    BY <2>3, <2>4, <2>5, UnchangedCells DEF Cells
  <2>7. /\ Memory!Denied(a, Len(data), writable) # {}
        /\ Cells' = [p \in Memory!Page |-> Memory!Stored(Cells[p], p, a, SubSeq(data, 1, a - a))]
    BY <2>2, <2>6, SameSpace
  <2> QED BY <1>1, <1>4, <2>3, <2>7, Zenon DEF Memory!Write
<1> QED BY <1>2, <1>3, <1>4

\* The pages a change of the bits reaches are one of the spans it may have.
LEMMA GrantImplements ==
    ASSUME Inv, NEW start \in 0 .. AddressLimit - 1, NEW n \in Nat,
           n <= AddressLimit - 2 * PageSize + 1, NEW access, SetAccess(start, n, access)
    PROVE  \E span \in Memory!Spans(start, n) : Memory!Grant(span, access)
<1> DEFINE pgs == Visited(start, n) \intersect Page
           last == page_index(Wrap(start + n - 1))
           around == (page_index(start) .. MaxPages - 1) \union (0 .. last)
<1>1. /\ get_pages(start, n) \in Memory!Spans(start, n)
      /\ n = 0 => {} \in Memory!Spans(start, n)
      /\ start + n - 1 \notin 0 .. AddressLimit - 1 => around \in Memory!Spans(start, n)
  <2>1. /\ Memory!get_pages(start, n) = get_pages(start, n)
        /\ Memory!page_index(Memory!Wrap(start + n - 1)) = last
        /\ Memory!page_index(start) = page_index(start)
        /\ Memory!AddressLimit = AddressLimit
    BY SameSpace DEF Memory!page_index, page_index
  <2> HIDE DEF last
  <2> QED BY <2>1 DEF Memory!Spans
<1>2. \E span \in Memory!Spans(start, n) : span \subseteq Page /\ span = pgs
  <2>1. CASE n # 0 /\ start + n <= AddressLimit
    <3>1. get_pages(start, n) = PagesOf(start, n)
      BY <2>1 DEF get_pages
    <3> QED BY <2>1, <3>1, <1>1, VisitedInside
  <2>2. CASE AddressLimit < start + n
    <3>1. pgs = around
      BY <2>2, VisitedWrapped
    <3>2. start + n - 1 \notin 0 .. AddressLimit - 1
      BY <2>2, Limit
    <3> HIDE DEF around
    <3> QED BY <1>1, <3>1, <3>2
  <2>3. CASE n = 0 /\ start = 0
    <3>1. Visited(start, n) = Page /\ page_index(start) = 0 /\ last = MaxPages - 1
      <4>1. start + n - 1 = start - 1
        BY <2>3
      <4> QED BY <2>3, <4>1, VisitedEmpty
    <3>2. pgs = around
      BY <3>1, Limit DEF Page
    <3>3. start + n - 1 \notin 0 .. AddressLimit - 1
      BY <2>3, Limit
    <3> HIDE DEF around
    <3> QED BY <1>1, <3>2, <3>3
  <2>4. CASE n = 0 /\ start # 0
    <3>1. Visited(start, n) \in {{}, {page_index(start)}}
      BY <2>4, VisitedEmpty
    <3>2. get_pages(start, n) = {page_index(start)} /\ page_index(start) \in Page
      <4>1. start \in Int /\ start + 1 - 1 = start
        OBVIOUS
      <4>2. page_index(start) \in Int
        BY <4>1, PageIndex
      <4>3. get_pages(start, n) = page_index(start) .. page_index(start)
        BY <2>4, <4>1 DEF get_pages, PagesOf
      <4> QED BY <4>2, <4>3, PageOfAddress
    <3> QED BY <1>1, <2>4, <3>1, <3>2
  <2> QED BY <2>1, <2>2, <2>3, <2>4, Limit
<1>3. PICK span \in Memory!Spans(start, n) : span \subseteq Page /\ span = pgs
  BY <1>2
<1>4. /\ readable' = IF access = "READ" THEN readable \union span ELSE readable \ span
      /\ writable' = IF access = "WRITE" THEN writable \union span ELSE writable \ span
  BY <1>3 DEF SetAccess
<1>5. span \intersect Memory!Page = span
  BY <1>3, SameSpace
<1>6. Memory!Grant(span, access)
  BY <1>4, <1>5, Zenon DEF Memory!Grant
<1> QED BY <1>6

LEMMA AlterImplements ==
    ASSUME Inv, NEW a \in Address, NEW n \in Length, NEW access, alter_accessibility(a, n, access)
    PROVE  Memory!AlterAccessibility(a, n, access)
<1>1. /\ SetAccess(a, n, access) /\ outcome' = Memory!Done
      /\ UNCHANGED heap_break /\ Cells' = Cells
  BY UnchangedCells DEF alter_accessibility
<1>2. \E span \in Memory!Spans(a, n) : Memory!Grant(span, access)
  BY <1>1, Inputs, GrantImplements
<1> QED BY <1>1, <1>2, Zenon DEF Memory!AlterAccessibility

LEMMA SbrkImplements ==
    ASSUME Inv, NEW req \in Length, sbrk(req)
    PROVE  Memory!Sbrk(req)
<1>1. /\ heap_break + req <= HeapLimit /\ heap_break' = heap_break + req
      /\ outcome' = Memory!Break(heap_break)
      /\ SetAccess(heap_break, req, "WRITE") /\ Cells' = Cells
  BY UnchangedCells DEF sbrk
<1>2. \E span \in Memory!Spans(heap_break, req) : Memory!Grant(span, "WRITE")
  <2>1. heap_break \in 0 .. AddressLimit - 1
    BY DEF Inv, TypeOK
  <2> QED BY <1>1, <2>1, Inputs, GrantImplements
<1>3. \E break \in {heap_break, heap_break + req} : outcome' = Memory!Break(break)
  BY <1>1
<1> QED BY <1>1, <1>2, <1>3, Zenon DEF Memory!Sbrk

LEMMA ZeroImplements ==
    ASSUME Inv, NEW start \in Page, NEW n \in Length, zero_memory_range(start, n)
    PROVE  Memory!ZeroMemoryRange(start, n)
<1>1. UNCHANGED <<readable, writable, heap_break>> /\ outcome' = Memory!Done
  BY DEF zero_memory_range, perms
<1>2. \A p \in Page : Cells'[p] = IF p \in start .. start + n - 1 THEN ZeroPage ELSE Cells[p]
  <2> DEFINE range == start .. start + n - 1
  <2>1. pages' = [p \in Page |-> IF p \in range THEN ZeroPage ELSE pages[p]]
    BY DEF zero_memory_range
  <2> HIDE DEF range
  <2>2. \A p \in Page : Cells'[p] = IF p \in range THEN ZeroPage ELSE Cells[p]
    BY <2>1 DEF Cells
  <2> QED BY <2>2 DEF range
<1>3. Cells' = [p \in Page |-> IF p \in start .. start + n - 1 THEN ZeroPage ELSE Cells[p]]
  BY <1>2 DEF Cells
<1> QED BY <1>1, <1>3, SameSpace DEF Memory!ZeroMemoryRange

LEMMA IsAccessibleImplements ==
    ASSUME Inv, NEW a \in Address, NEW n \in Length, NEW access \in Memory!Access,
           is_accessible(a, n, access)
    PROVE  Memory!IsAccessible(a, n, access)
<1> DEFINE answer == n = 0 \/ Visited(a, n) \subseteq _has_access(access)
<1>1. /\ UNCHANGED <<readable, writable, heap_break>> /\ Cells' = Cells
      /\ outcome' = Memory!Answer(answer)
  BY UnchangedCells DEF is_accessible, perms
<1>2. answer \in BOOLEAN
  OBVIOUS
<1>3. access # "NULL"
        => answer = (n = 0 \/ Memory!Denied(a, n, Memory!Allowed(access)) = {})
  <2>1. CASE n = 0
    BY <2>1
  <2>2. CASE n # 0 /\ access # "NULL"
    <3>1. Memory!Allowed(access) = _has_access(access) /\ _has_access(access) \in SUBSET Page
      BY <2>2 DEF Memory!Allowed, Memory!Access, _has_access, Inv, TypeOK
    <3>2. Visited(a, n) \subseteq _has_access(access) <=> Denied(a, n, _has_access(access)) = {}
      BY <2>2, <3>1, Inputs, VisitedDecides
    <3> QED BY <2>2, <3>1, <3>2, SameSpace
  <2> QED BY <2>1, <2>2
<1> HIDE DEF answer
<1> QED BY <1>1, <1>2, <1>3, Zenon DEF Memory!IsAccessible

LEMMA InitImplements == Init => Memory!Init
<1> SUFFICES ASSUME Init PROVE Memory!Init
  OBVIOUS
<1>1. heap_break = HeapStart /\ outcome = Memory!Done
  BY DEF Init
<1>2. Cells \in [Page -> Content] /\ readable \in SUBSET Page /\ writable \in SUBSET Page
  BY InitInv, CellsType DEF Inv, TypeOK
<1> QED BY <1>1, <1>2, SameSpace DEF Memory!Init

LEMMA NextImplements == Inv /\ Next => Memory!Next
<1> SUFFICES ASSUME Inv, Next PROVE Memory!Next
  OBVIOUS
<1>1. ASSUME NEW a \in Address, NEW n \in Length, read(a, n)
      PROVE  Memory!Next
  <2>1. Memory!Read(Memory!Wrap(a), n)
    BY <1>1, Inputs, ReadImplements, SameSpace
  <2> QED BY <2>1 DEF Memory!Next
<1>2. ASSUME NEW a \in Address, NEW data \in Payload, write(a, data)
      PROVE  Memory!Next
  <2>1. Memory!Write(Memory!Wrap(a), data)
    BY <1>2, Inputs, WriteImplements, SameSpace
  <2> QED BY <2>1 DEF Memory!Next
<1>3. ASSUME NEW a \in Address, NEW n \in Length, NEW access \in Memory!Access,
             alter_accessibility(a, n, access) \/ is_accessible(a, n, access)
      PROVE  Memory!Next
  <2>1. \/ Memory!AlterAccessibility(a, n, access)
        \/ Memory!IsAccessible(a, n, access)
    BY <1>3, AlterImplements, IsAccessibleImplements
  <2> QED BY <2>1 DEF Memory!Next
<1>4. ASSUME NEW p \in Page, NEW n \in Length, p + n <= MaxPages, zero_memory_range(p, n)
      PROVE  Memory!Next
  <2>1. Memory!ZeroMemoryRange(p, n) /\ p \in Memory!Page
    BY <1>4, ZeroImplements, SameSpace
  <2> QED BY <1>4, <2>1 DEF Memory!Next
<1>5. ASSUME NEW req \in Length, sbrk(req)
      PROVE  Memory!Next
  <2>1. Memory!Sbrk(req)
    BY <1>5, SbrkImplements
  <2> QED BY <2>1 DEF Memory!Next
<1> QED BY <1>1, <1>2, <1>3, <1>4, <1>5 DEF Next

\* CyMemory, with its malloced pages, bit sets and words of 32 bits, behaves as the
\* flat guest memory does: same bytes read, same faults, same permissions, for
\* every size of the memory and every sequence of calls.
THEOREM Implements == Spec => ImplementsGuestMemory
<1>1. Inv /\ [Next]_vars => [Memory!Next]_(Memory!vars)
  <2>1. UNCHANGED vars => UNCHANGED Memory!vars
    BY UnchangedCells DEF vars, perms, Memory!vars
  <2> QED BY <2>1, NextImplements
<1> QED BY InitImplements, InvariantHolds, <1>1, PTL DEF Spec, ImplementsGuestMemory, Memory!Spec
=============================================================================

--------------------------------- MODULE X86 ---------------------------------
(***************************************************************************)
(* The processor the recompiler's tables write code for, as far as they use *)
(* it: instructions of n bytes with a register to, and a register or an     *)
(* immediate from.  A 4-byte result clears the upper half of the register.  *)
(* Guest memory is one access: the address relative to the base in r15, and *)
(* the bytes that were there, given in advance.  External to the program.   *)
(***************************************************************************)
EXTENDS Encoding

CONSTANT Trapped  \* the greatest number of a host call the filter traps

ASSUME TrappedAssumption == Trapped \in Nat

Host == {"rdi", "rax", "rsi", "rbx", "rdx", "rbp", "r8", "r9", "r10", "r11", "r12",
         "r13", "r14", "rcx"}

\* The instructions: a register with a register, an immediate or alone.
RR(do, n, to, from) == [do |-> do, n |-> n, to |-> to, from |-> from, imm |-> 0]
RI(do, n, to, imm)  == [do |-> do, n |-> n, to |-> to, from |-> "imm", imm |-> imm]
R1(do, n, to)       == RI(do, n, to, 0)
\* A guest access: offset bytes from the guest address in register from, or
\* from the base if it is "base".
Mem(do, n, to, from, offset) == [do |-> do, n |-> n, to |-> to, from |-> from, imm |-> offset]
\* A jump, if the condition holds, to a label further on.
Jcc(condition, name) == RI(condition, 8, name, 0)
Jmp(name)            == RI("jmp", 8, name, 0)
Label(name)          == RI("label", 8, name, 0)
\* Leaving the instruction's code, if the condition holds: for the place n.  For
\* "table" the place is in the jump table, at the index in rcx.
Exit(condition, how, n) == [do |-> "exit", n |-> 8, to |-> how, from |-> condition, imm |-> n]
\* The system call that asks the host for number, up to Trapped trapped by the
\* filter; -1 is trapped as well, and others are the kernel's.
Syscall(number) == RI("syscall", 8, "rax", number)

Shifts     == {"shl", "shr", "sar", "rol", "ror"}
Jumps      == {"je", "jne", "jns"}
Conditions == {"e", "ne", "b", "a", "l", "g"}
\* What nobody in particular leaves in a register.
Garbage    == Half(8) + 1

\* The state of the machine before a piece of code: the registers r, the one
\* access it makes, with the bytes at its address, and the label it jumps to.
Machine(r, bytes) == [r |-> r, zero |-> FALSE, below |-> FALSE, less |-> FALSE,
                      negative |-> FALSE, stack |-> << >>, seek |-> "", go |-> Onward, fault |-> FALSE,
                      access |-> NoAccess, bytes |-> bytes]

Operand(m, i) == Low(i.n, IF i.from = "imm" THEN i.imm ELSE m.r[i.from])

Holds(m, condition) ==
    CASE condition \in {"e", "je"}   -> m.zero
      [] condition \in {"ne", "jne"} -> ~m.zero
      [] condition = "jns" -> ~m.negative
      [] condition = "b"   -> m.below
      [] condition = "a"   -> ~m.below /\ ~m.zero
      [] condition = "l"   -> m.less
      [] condition = "g"   -> ~m.less /\ ~m.zero
      [] condition = "ae"  -> ~m.below
      [] condition = "be"  -> m.below \/ m.zero
      [] condition = "ge"  -> ~m.less
      [] condition = "le"  -> m.less \/ m.zero
      [] condition = "always" -> TRUE

\* A register written with n bytes: fewer than 4 keep the rest of it.
Put(m, n, to, x) ==
    [m EXCEPT !.r[to] = Low(n, x) + (IF n < 4 THEN @ - Low(n, @) ELSE 0)]

Shifted(do, n, x, by) ==
    LET k == by % Width(n)
    IN  CASE do = "shl" -> x * 2^k
          [] do = "shr" -> x \div 2^k
          [] do = "sar" -> Signed(n, x) \div 2^k
          [] do = "rol" -> x * 2^k + x \div 2^(Width(n) - k)
          [] do = "ror" -> x \div 2^k + x * 2^(Width(n) - k)

Computed(do, n, x, y) ==
    CASE do \in {"mov", "movzx"} -> y
      [] do = "movsx" -> Signed(n, y)
      [] do = "add"   -> x + y
      [] do = "sub"   -> x - y
      [] do = "imul"  -> x * y
      [] do = "neg"   -> -x
      [] do = "not"   -> -1 - x
      [] do = "popcnt" -> Cardinality(Ones(n, y))
      [] do = "lzcnt" -> IF y = 0 THEN Width(n) ELSE Width(n) - 1 - Max(Ones(n, y))
      [] do = "tzcnt" -> IF y = 0 THEN Width(n) ELSE Min(Ones(n, y))
      [] do = "bswap" -> MapThenSumSet(LAMBDA k : Low(1, x \div 2^Width(k)) * 2^Width(7 - k), 0..7)
      [] do = "and"   -> Number(Ones(n, x) \intersect Ones(n, y))
      [] do = "or"    -> Number(Ones(n, x) \union Ones(n, y))
      [] do = "xor"   -> Number(SymDiff(Ones(n, x), Ones(n, y)))

Compared(m, n, x, y, difference) ==
    [m EXCEPT !.zero = (Low(n, difference) = 0), !.below = x < y,
              !.less = Signed(n, x) < Signed(n, y), !.negative = Signed(n, difference) < 0]

\* One-operand multiplication: rdx and rax get the halves of the product.
Multiplied(m, n, product) == Put(Put(m, n, "rax", product), n, "rdx", product \div Mod(n))

\* Division of rdx and rax: it faults on zero and on a quotient too large.
Divided(m, n, x, y, quotient, fits) ==
    IF y = 0 \/ ~fits THEN [m EXCEPT !.fault = TRUE]
    ELSE Put(Put(m, n, "rax", quotient), n, "rdx", x - quotient * y)

Divide(m, i) ==
    LET x == Low(i.n, m.r["rdx"]) * Mod(i.n) + Low(i.n, m.r["rax"])
        s == Signed(i.n, m.r["rdx"]) * Mod(i.n) + Low(i.n, m.r["rax"])
        y == Operand(m, i)
        t == Signed(i.n, y)
    IN  IF i.do = "div"
        THEN Divided(m, i.n, x, y, IF y = 0 THEN 0 ELSE x \div y,
                     y # 0 /\ x \div y < Mod(i.n))
        ELSE Divided(m, i.n, s, t, IF t = 0 THEN 0 ELSE Truncated(s, t),
                     t # 0 /\ Truncated(s, t) \in -Half(i.n)..(Half(i.n) - 1))

Access(m, i, kind, value) ==
    [m EXCEPT !.access = [kind |-> kind, size |-> i.n, value |-> value,
                          address |-> ToWord((IF i.from \in Host THEN m.r[i.from] ELSE 0) + i.imm)]]

Called(m, number) ==
    CASE number \in 0..Trapped    -> [m EXCEPT !.go = Go("host", number)]
      [] number = Mod(4) - 1     -> [m EXCEPT !.go = Go("sbrk", 0)]
      [] number \in (Trapped + 1)..(Mod(4) - 2) -> [m EXCEPT !.r["rax"] = Garbage, !.r["rcx"] = Garbage, !.r["r11"] = Garbage]

Act(m, i) ==
    LET y == Operand(m, i)
        x == IF i.to \in Host THEN Low(i.n, m.r[i.to]) ELSE 0
    IN  CASE i.do \in Jumps -> IF Holds(m, i.do) THEN [m EXCEPT !.seek = i.to] ELSE m
          [] i.do = "jmp"   -> [m EXCEPT !.seek = i.to]
          [] i.do = "label" -> m
          [] i.do = "cmp"   -> Compared(m, i.n, x, y, x - y)
          [] i.do = "test"  -> Compared(m, i.n, 0, 0, Number(Ones(i.n, x) \intersect Ones(i.n, y)))
          [] i.do \in Shifts -> Put(m, i.n, i.to, Shifted(i.do, i.n, x, IF i.from = "imm" THEN i.imm ELSE m.r["rcx"]))
          [] i.do = "push"  -> [m EXCEPT !.stack = Append(@, m.r[i.to])]
          [] i.do = "pop"   -> [m EXCEPT !.stack = SubSeq(@, 1, Len(@) - 1), !.r[i.to] = m.stack[Len(m.stack)]]
          [] i.do = "drop"  -> [m EXCEPT !.stack = SubSeq(@, 1, Len(@) - 1)]
          [] i.do = "mul1"  -> Multiplied(m, i.n, m.r["rax"] * y)
          [] i.do = "imul1" -> Multiplied(m, i.n, Signed(i.n, m.r["rax"]) * Signed(i.n, y))
          [] i.do = "widen" -> Put(m, i.n, "rdx", IF Signed(i.n, m.r["rax"]) < 0 THEN -1 ELSE 0)
          [] i.do \in {"div", "idiv"} -> Divide(m, i)
          [] i.do = "load"  -> Put(Access(m, i, "read", 0), 8, i.to, Low(i.n, m.bytes))
          [] i.do = "loads" -> Put(Access(m, i, "read", 0), 8, i.to, Signed(i.n, m.bytes))
          [] i.do = "store" -> Access(m, i, "write", x)
          [] i.do = "exit"  -> IF Holds(m, i.from)
                               THEN [m EXCEPT !.go = Go(i.to, IF i.to = "table" THEN m.r["rcx"] ELSE i.imm)] ELSE m
          [] i.do = "syscall" -> Called(m, i.imm)
          [] OTHER -> Put(m, IF i.do \in {"movsx", "movzx"} THEN 8 ELSE i.n, i.to, Computed(i.do, i.n, x, y))

\* cmov and setcc: the condition is the instruction's own, do.
Move(m, i) == IF Holds(m, i.do) THEN Put(m, i.n, i.to, IF i.n = 1 THEN 1 ELSE Operand(m, i))
              ELSE IF i.n = 1 THEN Put(m, 1, i.to, 0) ELSE m

Step(m, i) == IF m.fault \/ m.go # Onward THEN m
              ELSE IF m.seek # "" THEN IF i.do = "label" /\ i.to = m.seek
                                       THEN [m EXCEPT !.seek = ""] ELSE m
              ELSE IF i.do \in Conditions THEN Move(m, i) ELSE Act(m, i)

Execute(code, m) ==
    LET after[k \in 0..Len(code)] == IF k = 0 THEN m ELSE Step(after[k - 1], code[k])
    IN  after[Len(code)]
=============================================================================

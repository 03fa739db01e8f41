------------------------------ MODULE Signals ------------------------------
(***************************************************************************)
(* How guest code leaves Recompiler.execute: segwrap's handlers, its jump   *)
(* buffer and its register dump belong to the process, the seccomp filter   *)
(* and the signal mask to the thread, and each call of execute installs,    *)
(* uses and removes what it finds.                                          *)
(***************************************************************************)
EXTENDS Naturals, FiniteSets

CONSTANTS Threads,
          Locking,          \* whether the callers may hold a lock around execute
          Environments,     \* whether the environment may allow seccomp filters
          FilterLimit,      \* filters the kernel lets a thread stack
          MaxExecutes,      \* bound: calls of execute by one thread
          MaxLeaves         \* bound: times the guest code of one call leaves

ASSUME SignalsAssumption ==
    /\ Locking \subseteq BOOLEAN /\ Environments \subseteq BOOLEAN
    /\ FilterLimit \in Nat \ {0} /\ MaxExecutes \in Nat /\ MaxLeaves \in Nat \ {0}

\* What guest code does to leave, with the signal it is sent if it is trapped:
\* a system call is trapped when its number is in the range of the filter.
Faults == {"SIGSEGV", "SIGILL"}
TrappedCalls == {"host call", "sbrk"}
Leaves == Faults \union TrappedCalls \union {"return", "far host call"}
SignalOf(l) == IF l \in Faults THEN l ELSE "SIGSYS"
Signal == Faults \union {"SIGSYS"}

\* What run_code makes of the kind in the register dump.
StatusOf(l) ==
    CASE l = "SIGSEGV"       -> "page-fault"
      [] l = "SIGILL"        -> "halt or out-of-gas"
      [] l \in TrappedCalls  -> "host"
      [] OTHER               -> "panic"

VARIABLES
    locked, seccomp_allowed,       \* of the host and the kernel, fixed
    signal_handlers_initialized,   \* Recompiler's class variable
    syscall_handler_initialized,   \* segwrap's
    handler,         \* [Signal -> {"default", "segwrap"}]
    jmpbuf,          \* whose frame siglongjmp returns to, and its signal mask
    program_status,  \* who left last, and how
    process,         \* "alive", "killed" by a signal, or with a "corrupt" stack
    pc, filters, blocked, executes,  \* of a thread
    leave, leaves, status,           \* of a thread's call of execute
    untrapped        \* history: its system calls that went through to the kernel

host == <<locked, seccomp_allowed>>
shared == <<signal_handlers_initialized, syscall_handler_initialized, handler,
            jmpbuf, program_status>>
call == <<leave, leaves, status, untrapped>>
vars == <<host, shared, process, pc, filters, blocked, executes, call>>

Nobody == [owner |-> "none", blocked |-> FALSE]

Init ==
    /\ locked \in Locking /\ seccomp_allowed \in Environments
    /\ signal_handlers_initialized = FALSE /\ syscall_handler_initialized = FALSE
    /\ handler = [s \in Signal |-> "default"]
    /\ jmpbuf = Nobody
    /\ program_status = [owner |-> "none", leave |-> "return"]
    /\ process = "alive"
    /\ pc = [t \in Threads |-> "idle"]
    /\ filters = [t \in Threads |-> 0]
    /\ blocked = [t \in Threads |-> FALSE]
    /\ leave = [t \in Threads |-> "return"]
    /\ leaves = [t \in Threads |-> 0]
    /\ executes = [t \in Threads |-> 0]
    /\ status = [t \in Threads |-> "none"]
    /\ untrapped = [t \in Threads |-> {}]

At(t, place) == process = "alive" /\ pc[t] = place
Go(t, place) == pc' = [pc EXCEPT ![t] = place]

-----------------------------------------------------------------------------
Execute(t) ==
    /\ At(t, "idle") /\ executes[t] < MaxExecutes
    /\ locked => \A u \in Threads : pc[u] = "idle"
    /\ Go(t, "init")
    /\ executes' = [executes EXCEPT ![t] = @ + 1]
    /\ UNCHANGED <<host, shared, process, filters, blocked, call>>

AlreadyInitialized(t) ==
    /\ At(t, "init") /\ signal_handlers_initialized
    /\ Go(t, "run")
    /\ UNCHANGED <<host, shared, process, filters, blocked, executes, call>>

\* Mutant of Installs: the kernel never refuses one more.
InstallsAnother(t) == seccomp_allowed

Installs(t) == seccomp_allowed /\ filters[t] < FilterLimit

\* segwrap.initialize.  When the kernel refuses the filter (-3) the C flag stays
\* down and execute goes on; the handlers are installed by then.
InitSigHandlers(t) ==
    /\ At(t, "init") /\ ~ signal_handlers_initialized
    /\ signal_handlers_initialized' = TRUE
    /\ IF syscall_handler_initialized
       THEN /\ handler' = [handler EXCEPT !["SIGSEGV"] = "segwrap", !["SIGILL"] = "segwrap"]
            /\ UNCHANGED <<syscall_handler_initialized, filters>>
       ELSE /\ handler' = [s \in Signal |-> "segwrap"]
            /\ syscall_handler_initialized' = Installs(t)
            /\ filters' = IF Installs(t) THEN [filters EXCEPT ![t] = @ + 1] ELSE filters
    /\ Go(t, "run")
    /\ UNCHANGED <<host, jmpbuf, program_status, process, blocked, executes, call>>

\* sigsetjmp, which keeps the signal mask, and the call of the code.  From here
\* on other threads run Python: ctypes has released the interpreter's lock.
RunCode(t) ==
    /\ At(t, "run")
    /\ jmpbuf' = [owner |-> t, blocked |-> blocked[t]]
    /\ Go(t, "guest")
    /\ UNCHANGED <<host, signal_handlers_initialized, syscall_handler_initialized, handler, program_status,
                   process, filters, blocked, executes, call>>

-----------------------------------------------------------------------------
(* Guest code *)

Trapped(t, l) == l \in Faults \/ (l \in TrappedCalls /\ filters[t] > 0)

GuestReturns(t) ==
    /\ At(t, "guest")
    /\ leave' = [leave EXCEPT ![t] = "return"]
    /\ status' = [status EXCEPT ![t] = "panic"]
    /\ Go(t, "cleanup")
    /\ UNCHANGED <<host, shared, process, filters, blocked, leaves, executes, untrapped>>

\* A system call outside the filter's range, or without a filter, is answered by
\* the kernel and the code runs on.
GuestCallsKernel(t, l) ==
    /\ At(t, "guest") /\ l \in Leaves \ {"return"} /\ ~ Trapped(t, l)
    /\ leaves[t] < MaxLeaves
    /\ leaves' = [leaves EXCEPT ![t] = @ + 1]
    /\ untrapped' = [untrapped EXCEPT ![t] = @ \union {l}]
    /\ UNCHANGED <<host, shared, process, pc, filters, blocked, leave, executes, status>>

\* A signal kills the process if its action is the default one or if it is
\* blocked.
Deadly(t, l) == handler[SignalOf(l)] = "default" \/ (SignalOf(l) = "SIGSYS" /\ blocked[t])

Trap(t, l) ==
    /\ At(t, "guest") /\ l \in Leaves /\ Trapped(t, l)
    /\ leaves[t] < MaxLeaves
    /\ leaves' = [leaves EXCEPT ![t] = @ + 1]
    /\ leave' = [leave EXCEPT ![t] = l]
    /\ UNCHANGED <<host, shared, filters, executes, status, untrapped>>

GuestDies(t, l) ==
    /\ Trap(t, l) /\ Deadly(t, l)
    /\ process' = "killed"
    /\ UNCHANGED <<pc, blocked>>

\* Only the handler of SIGSYS runs with its signal blocked.
GuestTraps(t, l) ==
    /\ Trap(t, l) /\ ~ Deadly(t, l)
    /\ Go(t, "handler")
    /\ blocked' = [blocked EXCEPT ![t] = @ \/ SignalOf(l) = "SIGSYS"]
    /\ UNCHANGED process

-----------------------------------------------------------------------------
(* The handler, and what execute does with what it left *)

\* Mutant of SaveRegisters: the handler of SIGILL does not say what it is.
SaveRegistersStale(t) ==
    /\ At(t, "handler")
    /\ program_status' = [owner |-> t, leave |-> IF leave[t] = "SIGILL" THEN program_status.leave
                                                                    ELSE leave[t]]
    /\ Go(t, "jump")
    /\ UNCHANGED <<host, signal_handlers_initialized, syscall_handler_initialized, handler, jmpbuf, process,
                   filters, blocked, executes, call>>

SaveRegisters(t) ==
    /\ At(t, "handler")
    /\ program_status' = [owner |-> t, leave |-> leave[t]]
    /\ Go(t, "jump")
    /\ UNCHANGED <<host, signal_handlers_initialized, syscall_handler_initialized, handler, jmpbuf, process,
                   filters, blocked, executes, call>>

\* Mutant of Siglongjmp: the buffer was filled by sigsetjmp(jmpbuf, 0).
SiglongjmpKeepsMask(t) ==
    /\ At(t, "jump")
    /\ process' = IF jmpbuf.owner = t THEN "alive" ELSE "corrupt"
    /\ Go(t, "landed")
    /\ UNCHANGED <<host, shared, filters, blocked, executes, call>>

\* siglongjmp restores the mask of the frame it returns to.
Siglongjmp(t) ==
    /\ At(t, "jump")
    /\ process' = IF jmpbuf.owner = t THEN "alive" ELSE "corrupt"
    /\ blocked' = [blocked EXCEPT ![t] = jmpbuf.blocked]
    /\ Go(t, "landed")
    /\ UNCHANGED <<host, shared, filters, executes, call>>

\* get_program_status.  After sbrk, execute changes the memory and runs the code
\* from where it left.
GetProgramStatus(t) ==
    /\ At(t, "landed")
    /\ status' = [status EXCEPT ![t] = StatusOf(program_status.leave)]
    /\ Go(t, IF program_status.leave = "sbrk" THEN "sbrk" ELSE "cleanup")
    /\ UNCHANGED <<host, shared, process, filters, blocked, leave, leaves, executes, untrapped>>

Sbrk(t) ==
    /\ At(t, "sbrk")
    /\ Go(t, "run")
    /\ UNCHANGED <<host, shared, process, filters, blocked, executes, call>>

\* What the call kept is gone with it.
ExecuteReturns(t) ==
    /\ Go(t, "idle")
    /\ leave' = [leave EXCEPT ![t] = "return"]
    /\ leaves' = [leaves EXCEPT ![t] = 0]
    /\ status' = [status EXCEPT ![t] = "none"]
    /\ untrapped' = [untrapped EXCEPT ![t] = {}]

\* Mutant of SbrkRaises: no clean up on the way of an exception.
SbrkRaisesPastCleanup(t) ==
    /\ At(t, "sbrk")
    /\ ExecuteReturns(t)
    /\ UNCHANGED <<host, shared, process, filters, blocked, executes>>

\* A request so large that its list of pages does not fit in memory raises an
\* exception, which execute turns into another after it has cleaned up.
SbrkRaises(t) ==
    /\ At(t, "sbrk")
    /\ status' = [status EXCEPT ![t] = "ValueError"]
    /\ Go(t, "cleanup")
    /\ UNCHANGED <<host, shared, process, filters, blocked, leave, leaves, executes, untrapped>>

\* Mutant of CleanupSigState: segwrap's flag stays up.
CleanupKeepsFlag(t) ==
    /\ At(t, "cleanup")
    /\ handler' = [s \in Signal |-> "default"]
    /\ signal_handlers_initialized' = FALSE
    /\ ExecuteReturns(t)
    /\ UNCHANGED <<host, syscall_handler_initialized, jmpbuf, program_status, process, filters, blocked,
                   executes>>

CleanupSigState(t) ==
    /\ At(t, "cleanup")
    /\ handler' = [s \in Signal |-> "default"]
    /\ syscall_handler_initialized' = FALSE
    /\ signal_handlers_initialized' = FALSE
    /\ ExecuteReturns(t)
    /\ UNCHANGED <<host, jmpbuf, program_status, process, filters, blocked, executes>>

Step(t) ==
    \/ AlreadyInitialized(t) \/ InitSigHandlers(t) \/ RunCode(t)
    \/ GuestReturns(t)
    \/ \E l \in Leaves : GuestCallsKernel(t, l) \/ GuestDies(t, l) \/ GuestTraps(t, l)
    \/ SaveRegisters(t) \/ Siglongjmp(t) \/ GetProgramStatus(t)
    \/ Sbrk(t) \/ SbrkRaises(t) \/ CleanupSigState(t)

Next == \E t \in Threads : Execute(t) \/ Step(t)

Spec == Init /\ [][Next]_vars

\* A thread that is in execute runs on, and gas ends its guest code.
FairSpec == Spec /\ \A t \in Threads : WF_vars(Step(t))

-----------------------------------------------------------------------------
Place == {"idle", "init", "run", "guest", "handler", "jump", "landed", "sbrk", "cleanup"}
Status == {"none", "panic", "page-fault", "halt or out-of-gas", "host", "ValueError"}

\* The shared and the threads' state; a thread never stacks more filters than
\* the kernel takes.
TypeOK ==
    /\ locked \in BOOLEAN /\ seccomp_allowed \in BOOLEAN
    /\ signal_handlers_initialized \in BOOLEAN /\ syscall_handler_initialized \in BOOLEAN
    /\ handler \in [Signal -> {"default", "segwrap"}]
    /\ jmpbuf \in [owner : Threads \union {"none"}, blocked : BOOLEAN]
    /\ program_status \in [owner : Threads \union {"none"}, leave : Leaves]
    /\ process \in {"alive", "killed", "corrupt"}
    /\ pc \in [Threads -> Place]
    /\ filters \in [Threads -> 0 .. FilterLimit]
    /\ blocked \in [Threads -> BOOLEAN]
    /\ leave \in [Threads -> Leaves]
    /\ leaves \in [Threads -> 0 .. MaxLeaves]
    /\ executes \in [Threads -> 0 .. MaxExecutes]
    /\ status \in [Threads -> Status]
    /\ untrapped \in [Threads -> SUBSET Leaves]

\* When calls of execute take turns, no way out of guest code ends the process or
\* returns into a frame of another thread.
ProcessSurvives == locked => process = "alive"

\* Then execute reports the way its own guest code left by, or the failure of the
\* sbrk it left by.
ExitsDelivered ==
    locked => \A t \in Threads : pc[t] = "cleanup" =>
        \/ status[t] = StatusOf(leave[t])
        \/ status[t] = "ValueError" /\ leave[t] = "sbrk"

\* Where filters are allowed, the only system calls of guest code that reach the
\* kernel then are the host calls with numbers the filter does not cover: each
\* thread has a filter, although the flags that say so are the process's, and
\* keeps one when the kernel takes no more.
HostCallsTrapped ==
    locked /\ seccomp_allowed => \A t \in Threads : untrapped[t] \subseteq {"far host call"}

\* When no call of execute runs, the process has its default handlers again and
\* will install segwrap's the next time, whichever way the last call ended.
NothingLeftBehind ==
    (\A t \in Threads : pc[t] = "idle") =>
        /\ \A s \in Signal : handler[s] = "default"
        /\ ~ signal_handlers_initialized /\ ~ syscall_handler_initialized

\* Every call of execute that is alone comes to an end.
Returns == locked => \A t \in Threads : pc[t] = "init" ~> pc[t] = "idle"
=============================================================================

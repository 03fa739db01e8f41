--------------------------- MODULE SignalsProofs ---------------------------
(***************************************************************************)
(* A lock around execute is enough: for any number of threads and calls,    *)
(* each way out of guest code is reported by the call it left, and the      *)
(* process survives it.                                                     *)
(***************************************************************************)
EXTENDS Signals, TLAPS

\* Between InitSigHandlers and what follows the last exit of guest code.
Installed == {"run", "guest", "handler", "jump", "landed", "sbrk"}

\* One call at a time.
Alone == \A t, u \in Threads : pc[t] # "idle" /\ pc[u] # "idle" => t = u

\* A call that begins finds nothing installed, and each call its own handlers and a
\* filter on its thread.
Handlers ==
    \A t \in Threads :
        /\ pc[t] = "init" => ~ signal_handlers_initialized /\ ~ syscall_handler_initialized
        /\ pc[t] \in Installed =>
             /\ handler = [s \in Signal |-> "segwrap"]
             /\ seccomp_allowed => filters[t] > 0

\* siglongjmp finds the frame of the call, and a mask that blocks nothing.
Frame ==
    \A t \in Threads :
        /\ blocked[t] => pc[t] \in {"handler", "jump"}
        /\ pc[t] \in {"guest", "handler", "jump"} => jmpbuf = [owner |-> t, blocked |-> FALSE]

\* The dump says how the call's own guest code left.
Dump ==
    \A t \in Threads :
        /\ pc[t] \in {"jump", "landed"} => program_status = [owner |-> t, leave |-> leave[t]]
        /\ pc[t] = "sbrk" => leave[t] = "sbrk"

IInv ==
    /\ TypeOK /\ NothingLeftBehind
    /\ ProcessSurvives /\ ExitsDelivered /\ HostCallsTrapped
    /\ locked => Alone /\ Handlers /\ Frame /\ Dump

-----------------------------------------------------------------------------
LEMMA InitialState == Init => IInv
<1> SUFFICES ASSUME Init PROVE IInv
  OBVIOUS
<1> USE SignalsAssumption DEF Init
<1>1. /\ filters \in [Threads -> 0 .. FilterLimit] /\ leaves \in [Threads -> 0 .. MaxLeaves]
      /\ executes \in [Threads -> 0 .. MaxExecutes]
  OBVIOUS
<1>2. /\ jmpbuf \in [owner : Threads \union {"none"}, blocked : BOOLEAN]
      /\ program_status \in [owner : Threads \union {"none"}, leave : Leaves]
  BY DEF Nobody, Leaves
<1>3. TypeOK
  BY <1>1, <1>2 DEF TypeOK, Place, Status, Leaves, Signal
<1>4. NothingLeftBehind /\ ProcessSurvives /\ ExitsDelivered /\ HostCallsTrapped
  BY DEF NothingLeftBehind, ProcessSurvives, ExitsDelivered, HostCallsTrapped
<1>5. Alone /\ Handlers /\ Frame /\ Dump
  BY DEF Alone, Handlers, Frame, Dump, Installed
<1> QED BY <1>3, <1>4, <1>5 DEF IInv

(* One lemma per action: it keeps the invariant. *)

LEMMA ExecuteKeeps ==
    ASSUME IInv, NEW t \in Threads, Execute(t) PROVE IInv'
<1> USE SignalsAssumption DEF IInv, TypeOK, Execute, At, Go, host, shared, call
<1>0. executes' \in [Threads -> 0 .. MaxExecutes]
  OBVIOUS
<1>1. TypeOK'
  <2>1. pc' \in [Threads -> Place]
    BY DEF Place
  <2> QED BY <1>0, <2>1
<1>2. NothingLeftBehind'
  BY DEF NothingLeftBehind
<1>3. ProcessSurvives' /\ ExitsDelivered' /\ HostCallsTrapped'
  BY DEF ProcessSurvives, ExitsDelivered, HostCallsTrapped, Handlers, Frame, Dump, Installed,
         Leaves, Faults, TrappedCalls, Signal
<1>4. locked' => Alone'
  BY DEF Alone
<1>5. locked' => Handlers'
  BY DEF Handlers, Alone, Installed, NothingLeftBehind
<1>6. locked' => Frame'
  BY DEF Frame, Alone
<1>7. locked' => Dump'
  BY DEF Dump, Alone
<1> QED BY <1>1, <1>2, <1>3, <1>4, <1>5, <1>6, <1>7

LEMMA AlreadyInitializedKeeps ==
    ASSUME IInv, NEW t \in Threads, AlreadyInitialized(t) PROVE IInv'
<1> USE SignalsAssumption DEF IInv, TypeOK, AlreadyInitialized, At, Go, host, shared, call
<1>1. TypeOK'
  BY DEF Place, Status, Leaves, Faults, TrappedCalls, Signal
<1>2. NothingLeftBehind'
  BY DEF NothingLeftBehind
<1>3. ProcessSurvives' /\ ExitsDelivered' /\ HostCallsTrapped'
  BY DEF ProcessSurvives, ExitsDelivered, HostCallsTrapped, Handlers, Frame, Dump, Installed,
         Leaves, Faults, TrappedCalls, Signal
<1>4. locked' => Alone'
  BY DEF Alone
<1>5. locked' => Handlers'
  BY DEF Handlers, Alone, Installed, NothingLeftBehind
<1>6. locked' => Frame'
  BY DEF Frame, Alone
<1>7. locked' => Dump'
  BY DEF Dump, Alone
<1> QED BY <1>1, <1>2, <1>3, <1>4, <1>5, <1>6, <1>7

LEMMA InitSigHandlersKeeps ==
    ASSUME IInv, NEW t \in Threads, InitSigHandlers(t) PROVE IInv'
<1> USE SignalsAssumption DEF IInv, TypeOK, InitSigHandlers, At, Go, host, shared, call, Installs
<1>0. filters' \in [Threads -> 0 .. FilterLimit]
  OBVIOUS
<1>1. TypeOK'
  <2>1. pc' \in [Threads -> Place] /\ handler' \in [Signal -> {"default", "segwrap"}]
        /\ signal_handlers_initialized' \in BOOLEAN /\ syscall_handler_initialized' \in BOOLEAN
    BY DEF Place, Signal, Faults
  <2> QED BY <1>0, <2>1
<1>2. NothingLeftBehind'
  BY DEF NothingLeftBehind
<1>3. ProcessSurvives' /\ ExitsDelivered' /\ HostCallsTrapped'
  BY DEF ProcessSurvives, ExitsDelivered, HostCallsTrapped, Handlers, Frame, Dump, Installed,
         Leaves, Faults, TrappedCalls, Signal
<1>4. locked' => Alone'
  BY DEF Alone
<1>5. locked' => Handlers'
  BY DEF Handlers, Alone, Installed, NothingLeftBehind
<1>6. locked' => Frame'
  BY DEF Frame, Alone
<1>7. locked' => Dump'
  BY DEF Dump, Alone
<1> QED BY <1>1, <1>2, <1>3, <1>4, <1>5, <1>6, <1>7

LEMMA RunCodeKeeps ==
    ASSUME IInv, NEW t \in Threads, RunCode(t) PROVE IInv'
<1> USE SignalsAssumption DEF IInv, TypeOK, RunCode, At, Go, host, shared, call
<1>1. TypeOK'
  BY DEF Place, Status, Leaves, Faults, TrappedCalls, Signal
<1>2. NothingLeftBehind'
  BY DEF NothingLeftBehind
<1>3. ProcessSurvives' /\ ExitsDelivered' /\ HostCallsTrapped'
  BY DEF ProcessSurvives, ExitsDelivered, HostCallsTrapped, Handlers, Frame, Dump, Installed,
         Leaves, Faults, TrappedCalls, Signal
<1>4. locked' => Alone'
  BY DEF Alone
<1>5. locked' => Handlers'
  BY DEF Handlers, Alone, Installed, NothingLeftBehind
<1>6. locked' => Frame'
  BY DEF Frame, Alone
<1>7. locked' => Dump'
  BY DEF Dump, Alone
<1> QED BY <1>1, <1>2, <1>3, <1>4, <1>5, <1>6, <1>7

LEMMA GuestReturnsKeeps ==
    ASSUME IInv, NEW t \in Threads, GuestReturns(t) PROVE IInv'
<1> USE SignalsAssumption DEF IInv, TypeOK, GuestReturns, At, Go, host, shared, call, StatusOf
<1>1. TypeOK'
  BY DEF Place, Status, Leaves, Faults, TrappedCalls, Signal
<1>2. NothingLeftBehind'
  BY DEF NothingLeftBehind
<1>3. ProcessSurvives' /\ ExitsDelivered' /\ HostCallsTrapped'
  BY DEF ProcessSurvives, ExitsDelivered, HostCallsTrapped, Handlers, Frame, Dump, Installed,
         Leaves, Faults, TrappedCalls, Signal
<1>4. locked' => Alone'
  BY DEF Alone
<1>5. locked' => Handlers'
  BY DEF Handlers, Alone, Installed, NothingLeftBehind
<1>6. locked' => Frame'
  BY DEF Frame, Alone
<1>7. locked' => Dump'
  BY DEF Dump, Alone
<1> QED BY <1>1, <1>2, <1>3, <1>4, <1>5, <1>6, <1>7

LEMMA GuestCallsKernelKeeps ==
    ASSUME IInv, NEW t \in Threads, NEW l \in Leaves, GuestCallsKernel(t, l) PROVE IInv'
<1> USE SignalsAssumption DEF IInv, TypeOK, GuestCallsKernel, At, Go, host, shared, call, Trapped
<1>0. leaves' \in [Threads -> 0 .. MaxLeaves]
  OBVIOUS
<1>1. TypeOK'
  <2>1. untrapped' \in [Threads -> SUBSET Leaves]
    OBVIOUS
  <2> QED BY <1>0, <2>1
<1>2. NothingLeftBehind'
  BY DEF NothingLeftBehind
<1>3. ProcessSurvives' /\ ExitsDelivered' /\ HostCallsTrapped'
  BY DEF ProcessSurvives, ExitsDelivered, HostCallsTrapped, Handlers, Frame, Dump, Installed,
         Leaves, Faults, TrappedCalls, Signal
<1>4. locked' => Alone'
  BY DEF Alone
<1>5. locked' => Handlers'
  BY DEF Handlers, Alone, Installed, NothingLeftBehind
<1>6. locked' => Frame'
  BY DEF Frame, Alone
<1>7. locked' => Dump'
  BY DEF Dump, Alone
<1> QED BY <1>1, <1>2, <1>3, <1>4, <1>5, <1>6, <1>7

\* A call that is alone has its handlers and blocks nothing.
LEMMA GuestDiesKeeps ==
    ASSUME IInv, NEW t \in Threads, NEW l \in Leaves, GuestDies(t, l) PROVE IInv'
<1> USE SignalsAssumption DEF IInv, GuestDies, Trap, At, host, shared
<1>1. TypeOK'
  <2>1. leaves' \in [Threads -> 0 .. MaxLeaves]
    BY DEF TypeOK
  <2> QED BY <2>1 DEF TypeOK
<1>2. ~ locked
  <2> SUFFICES ASSUME locked PROVE FALSE
    OBVIOUS
  <2>1. handler[SignalOf(l)] = "segwrap"
    BY DEF Handlers, Installed, SignalOf, Signal, Faults
  <2>2. ~ blocked[t]
    BY DEF Frame
  <2> QED BY <2>1, <2>2 DEF Deadly
<1>3. NothingLeftBehind'
  BY DEF NothingLeftBehind
<1> QED BY <1>1, <1>2, <1>3 DEF ProcessSurvives, ExitsDelivered, HostCallsTrapped

LEMMA GuestTrapsKeeps ==
    ASSUME IInv, NEW t \in Threads, NEW l \in Leaves, GuestTraps(t, l) PROVE IInv'
<1> USE SignalsAssumption DEF IInv, GuestTraps, Trap, At, Go, host, shared
<1>1. TypeOK'
  <2>1. leaves' \in [Threads -> 0 .. MaxLeaves]
    BY DEF TypeOK
  <2>2. pc' \in [Threads -> Place] /\ blocked' \in [Threads -> BOOLEAN]
    BY DEF TypeOK, Place
  <2> QED BY <2>1, <2>2 DEF TypeOK
<1>2. pc' = [pc EXCEPT ![t] = "handler"] /\ pc \in [Threads -> Place]
      /\ leave' = [leave EXCEPT ![t] = l] /\ leave \in [Threads -> Leaves]
      /\ blocked \in [Threads -> BOOLEAN]
  BY DEF TypeOK
<1>3. NothingLeftBehind'
  BY <1>2 DEF NothingLeftBehind
<1>4. ProcessSurvives' /\ ExitsDelivered' /\ HostCallsTrapped'
  BY <1>2 DEF ProcessSurvives, ExitsDelivered, HostCallsTrapped
<1>5. locked' => Alone' /\ Handlers'
  BY <1>2 DEF Alone, Handlers, Installed
<1>6. locked' => Frame' /\ Dump'
  BY <1>2 DEF Frame, Dump, Alone
<1> QED BY <1>1, <1>3, <1>4, <1>5, <1>6

LEMMA SaveRegistersKeeps ==
    ASSUME IInv, NEW t \in Threads, SaveRegisters(t) PROVE IInv'
<1> USE SignalsAssumption DEF IInv, TypeOK, SaveRegisters, At, Go, host, shared, call
<1>1. TypeOK'
  BY DEF Place, Status, Leaves, Faults, TrappedCalls, Signal
<1>2. NothingLeftBehind'
  BY DEF NothingLeftBehind
<1>3. ProcessSurvives' /\ ExitsDelivered' /\ HostCallsTrapped'
  BY DEF ProcessSurvives, ExitsDelivered, HostCallsTrapped, Handlers, Frame, Dump, Installed,
         Leaves, Faults, TrappedCalls, Signal
<1>4. locked' => Alone'
  BY DEF Alone
<1>5. locked' => Handlers'
  BY DEF Handlers, Alone, Installed, NothingLeftBehind
<1>6. locked' => Frame'
  BY DEF Frame, Alone
<1>7. locked' => Dump'
  BY DEF Dump, Alone
<1> QED BY <1>1, <1>2, <1>3, <1>4, <1>5, <1>6, <1>7

LEMMA SiglongjmpKeeps ==
    ASSUME IInv, NEW t \in Threads, Siglongjmp(t) PROVE IInv'
<1> USE SignalsAssumption DEF IInv, TypeOK, Siglongjmp, At, Go, host, shared, call
<1>1. TypeOK'
  BY DEF Place, Status, Leaves, Faults, TrappedCalls, Signal
<1>2. NothingLeftBehind'
  BY DEF NothingLeftBehind
<1>3. locked => jmpbuf = [owner |-> t, blocked |-> FALSE]
  BY DEF Frame
<1>8. ProcessSurvives' /\ ExitsDelivered' /\ HostCallsTrapped'
  <2>1. locked => process' = "alive"
    BY <1>3
  <2>2. pc \in [Threads -> Place] /\ pc' = [pc EXCEPT ![t] = "landed"]
        /\ UNCHANGED <<locked, seccomp_allowed, leave, status, untrapped>>
    OBVIOUS
  <2>3. ExitsDelivered /\ HostCallsTrapped
    OBVIOUS
  <2> HIDE DEF IInv, TypeOK, Siglongjmp
  <2> QED BY <2>1, <2>2, <2>3 DEF ProcessSurvives, ExitsDelivered, HostCallsTrapped
<1>4. locked' => Alone'
  BY DEF Alone
<1>5. locked' => Handlers'
  BY DEF Handlers, Alone, Installed, NothingLeftBehind
<1>6. locked' => Frame'
  BY DEF Frame, Alone
<1>7. locked' => Dump'
  BY DEF Dump, Alone
<1> QED BY <1>1, <1>2, <1>8, <1>4, <1>5, <1>6, <1>7

LEMMA GetProgramStatusKeeps ==
    ASSUME IInv, NEW t \in Threads, GetProgramStatus(t) PROVE IInv'
<1> USE SignalsAssumption DEF IInv, TypeOK, GetProgramStatus, At, Go, host, shared, call
<1>0. locked => program_status.leave = leave[t]
  <2>1. pc[t] = "landed" /\ (locked => Dump)
    OBVIOUS
  <2> HIDE DEF IInv, TypeOK, GetProgramStatus
  <2> QED BY <2>1 DEF Dump
<1>1. TypeOK'
  <2>1. StatusOf(program_status.leave) \in Status
    BY DEF StatusOf, Status
  <2>2. status' \in [Threads -> Status] /\ pc' \in [Threads -> Place]
    BY <2>1 DEF Place
  <2> QED BY <2>2
<1>2. NothingLeftBehind'
  BY DEF NothingLeftBehind
<1>3. ProcessSurvives' /\ ExitsDelivered' /\ HostCallsTrapped'
  <2>1. locked => status' = [status EXCEPT ![t] = StatusOf(leave[t])]
    BY <1>0
  <2>2. status \in [Threads -> Status] /\ pc \in [Threads -> Place]
        /\ UNCHANGED <<locked, seccomp_allowed, process, leave, untrapped>>
        /\ \E place \in {"sbrk", "cleanup"} : pc' = [pc EXCEPT ![t] = place]
    OBVIOUS
  <2>3. ProcessSurvives /\ ExitsDelivered /\ HostCallsTrapped
    OBVIOUS
  <2> HIDE DEF IInv, TypeOK, GetProgramStatus
  <2> QED BY <2>1, <2>2, <2>3 DEF ProcessSurvives, ExitsDelivered, HostCallsTrapped
<1>4. locked' => Alone'
  BY DEF Alone
<1>5. locked' => Handlers'
  BY DEF Handlers, Alone, Installed, NothingLeftBehind
<1>6. locked' => Frame'
  BY DEF Frame, Alone
<1>7. locked' => Dump'
  BY <1>0 DEF Dump, Alone
<1> QED BY <1>1, <1>2, <1>3, <1>4, <1>5, <1>6, <1>7

LEMMA SbrkKeeps ==
    ASSUME IInv, NEW t \in Threads, Sbrk(t) PROVE IInv'
<1> USE SignalsAssumption DEF IInv, TypeOK, Sbrk, At, Go, host, shared, call
<1>1. TypeOK'
  BY DEF Place, Status, Leaves, Faults, TrappedCalls, Signal
<1>2. NothingLeftBehind'
  BY DEF NothingLeftBehind
<1>3. ProcessSurvives' /\ ExitsDelivered' /\ HostCallsTrapped'
  BY DEF ProcessSurvives, ExitsDelivered, HostCallsTrapped, Handlers, Frame, Dump, Installed,
         Leaves, Faults, TrappedCalls, Signal
<1>4. locked' => Alone'
  BY DEF Alone
<1>5. locked' => Handlers'
  BY DEF Handlers, Alone, Installed, NothingLeftBehind
<1>6. locked' => Frame'
  BY DEF Frame, Alone
<1>7. locked' => Dump'
  BY DEF Dump, Alone
<1> QED BY <1>1, <1>2, <1>3, <1>4, <1>5, <1>6, <1>7

LEMMA SbrkRaisesKeeps ==
    ASSUME IInv, NEW t \in Threads, SbrkRaises(t) PROVE IInv'
<1> USE SignalsAssumption DEF IInv, TypeOK, SbrkRaises, At, Go, host, shared, call
<1>1. TypeOK'
  BY DEF Place, Status, Leaves, Faults, TrappedCalls, Signal
<1>2. NothingLeftBehind'
  BY DEF NothingLeftBehind
<1>3. ProcessSurvives' /\ ExitsDelivered' /\ HostCallsTrapped'
  BY DEF ProcessSurvives, ExitsDelivered, HostCallsTrapped, Handlers, Frame, Dump, Installed,
         Leaves, Faults, TrappedCalls, Signal
<1>4. locked' => Alone'
  BY DEF Alone
<1>5. locked' => Handlers'
  BY DEF Handlers, Alone, Installed, NothingLeftBehind
<1>6. locked' => Frame'
  BY DEF Frame, Alone
<1>7. locked' => Dump'
  BY DEF Dump, Alone
<1> QED BY <1>1, <1>2, <1>3, <1>4, <1>5, <1>6, <1>7

LEMMA CleanupSigStateKeeps ==
    ASSUME IInv, NEW t \in Threads, CleanupSigState(t) PROVE IInv'
<1> USE SignalsAssumption DEF IInv, TypeOK, CleanupSigState, At, Go, host, shared, call, ExecuteReturns
<1>0. leaves' \in [Threads -> 0 .. MaxLeaves]
  OBVIOUS
<1>1. TypeOK'
  <2>1. pc' \in [Threads -> Place] /\ handler' \in [Signal -> {"default", "segwrap"}]
    BY DEF Place
  <2>2. leave' \in [Threads -> Leaves] /\ status' \in [Threads -> Status]
        /\ untrapped' \in [Threads -> SUBSET Leaves]
    BY DEF Leaves, Status
  <2> QED BY <1>0, <2>1, <2>2
<1>2. NothingLeftBehind'
  BY DEF NothingLeftBehind
<1>3. ProcessSurvives' /\ ExitsDelivered' /\ HostCallsTrapped'
  BY DEF ProcessSurvives, ExitsDelivered, HostCallsTrapped, Handlers, Frame, Dump, Installed,
         Leaves, Faults, TrappedCalls, Signal
<1>4. locked' => Alone'
  BY DEF Alone
<1>5. locked' => Handlers'
  BY DEF Handlers, Alone, Installed, NothingLeftBehind
<1>6. locked' => Frame'
  BY DEF Frame, Alone
<1>7. locked' => Dump'
  BY DEF Dump, Alone
<1> QED BY <1>1, <1>2, <1>3, <1>4, <1>5, <1>6, <1>7

-----------------------------------------------------------------------------
LEMMA NextKeeps == IInv /\ [Next]_vars => IInv'
<1> SUFFICES ASSUME IInv, [Next]_vars PROVE IInv'
  OBVIOUS
<1>1. CASE UNCHANGED vars
  BY <1>1 DEF IInv, TypeOK, NothingLeftBehind, ProcessSurvives, ExitsDelivered, HostCallsTrapped,
              Alone, Handlers, Frame, Dump, vars, host, shared, call
<1>2. ASSUME NEW t \in Threads, Execute(t) \/ Step(t) PROVE IInv'
  BY <1>2, ExecuteKeeps, AlreadyInitializedKeeps, InitSigHandlersKeeps, RunCodeKeeps, GuestReturnsKeeps,
     GuestCallsKernelKeeps, GuestDiesKeeps, GuestTrapsKeeps, SaveRegistersKeeps, SiglongjmpKeeps,
     GetProgramStatusKeeps, SbrkKeeps, SbrkRaisesKeeps, CleanupSigStateKeeps DEF Step
<1> QED BY <1>1, <1>2 DEF Next

THEOREM InvariantHolds == Spec => []IInv
BY InitialState, NextKeeps, PTL DEF Spec

\* The types of the shared and the threads' state are kept, and no thread stacks
\* more filters than the kernel takes, locked or not.
THEOREM TypeCorrect == Spec => []TypeOK
<1>1. IInv => TypeOK
  BY DEF IInv
<1> QED BY InvariantHolds, <1>1, PTL

\* Under the lock no signal kills the process and no handler returns into the
\* frame of another thread.
THEOREM ProcessIsSafe == Spec => []ProcessSurvives
<1>1. IInv => ProcessSurvives
  BY DEF IInv
<1> QED BY InvariantHolds, <1>1, PTL

\* Under the lock execute reports how its own guest code left.
THEOREM ExitsAreDelivered == Spec => []ExitsDelivered
<1>1. IInv => ExitsDelivered
  BY DEF IInv
<1> QED BY InvariantHolds, <1>1, PTL

\* Under the lock a host call in the filter's range never reaches the kernel, on
\* whichever thread it is made and however many filters that thread has stacked.
THEOREM HostCallsAreTrapped == Spec => []HostCallsTrapped
<1>1. IInv => HostCallsTrapped
  BY DEF IInv
<1> QED BY InvariantHolds, <1>1, PTL

\* Locked or not, the last call of execute to end leaves nothing installed.
THEOREM CleanupIsComplete == Spec => []NothingLeftBehind
<1>1. IInv => NothingLeftBehind
  BY DEF IInv
<1> QED BY InvariantHolds, <1>1, PTL
=============================================================================

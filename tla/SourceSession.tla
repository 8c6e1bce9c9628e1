---------------------------- MODULE SourceSession ----------------------------
(***************************************************************************)
(* roadcast_source_session_read and the VHAL reader under it               *)
(* (src/source_session.c, src/vhal_source.c), as run by the sampler thread.*)
(*                                                                         *)
(* Every system call of open and read is a step of its own, because the    *)
(* sampled process can exit, and another process be given its PID, between *)
(* any two of them.  A process is a number, in the order of their starts;  *)
(* the bytes read from a process are modelled by its number, so that what  *)
(* is delivered says whose memory it is.                                   *)
(***************************************************************************)
EXTENDS Naturals, Sequences

CONSTANTS
  FrameIds,       \* the entries of ROADCAST_CAN_IDS
  Missing,        \* no data
  Pids,           \* the process identifiers the kernel hands out
  Programs,       \* programs: does the name match, which symbols has it
  RetryInitial,   \* RETRY_INITIAL_NS, in clock ticks
  RetryMax,       \* RETRY_MAX_NS, in clock ticks
  VmCooldown,     \* the 30 s after EPERM or EACCES, in clock ticks
  MaxStarts,      \* bound on the processes started
  MaxFaults       \* bound on the system calls that fail by themselves

Started == 1 .. MaxStarts

ASSUME SessionConstants ==
  /\ Missing \notin Started
  /\ Programs \subseteq [named : BOOLEAN, symbols : SUBSET FrameIds]
  /\ RetryInitial \in Nat \ {0}
  /\ RetryMax \in Nat
  /\ RetryInitial <= RetryMax
  /\ VmCooldown \in Nat \ {0}
  /\ MaxStarts \in Nat
  /\ MaxFaults \in Nat

VARIABLES
  program,      \* program[n]: what the n-th process runs
  holder,       \* PID -> the process that has it, or Nobody
  vhal,         \* session->vhal
  connected,    \* session->connected
  retry_left,   \* session->retry_at_ns, as clock ticks from now
  retry_delay,  \* session->retry_delay_ns
  generation,   \* session->generation
  pc,           \* the step roadcast_source_session_read is at
  spent,        \* clock ticks since the caller took now_ns for this call
  frames,       \* the frames this call has filled in
  outcome,      \* the result of the last call and its frames
  faults        \* how many system calls have failed by themselves

world == <<program, holder>>
vars == <<world, vhal, connected, retry_left, retry_delay, generation, pc,
          spent, frames, outcome, faults>>

Nobody == 0
Nothing == [f \in FrameIds |-> Missing]
Never == VmCooldown + 1   \* vm_readv_retry_ns = UINT64_MAX

\* identity_fd, the executable path, the mapping base and mem_fd are each
\* modelled by the process they belong to; Nobody is a descriptor of -1.
Closed ==
  [pid |-> Nobody, identity |-> Nobody, executable |-> Nobody,
   mapping |-> Nobody, memory |-> Nobody, resolved |-> {}, vm_left |-> 0]

Holder == holder[vhal.pid]

\* identity_fd still answers with the start time that was recorded: the
\* process it was opened for is alive, and so still has its PID.
verify_identity == Holder = vhal.identity

-----------------------------------------------------------------------------
(* How a call proceeds and ends. *)

\* The call goes on at another step with session->vhal as v.
Goto(step, v) ==
  /\ pc' = step
  /\ vhal' = v
  /\ UNCHANGED <<world, connected, retry_left, retry_delay, generation,
                 spent, frames, outcome>>

Return(result, bytes) ==
  /\ pc' = "idle"
  /\ outcome' = [result |-> result, bytes |-> bytes]
  /\ frames' = Nothing
  /\ spent' = 0
  /\ UNCHANGED world

Monus(a, b) == IF a > b THEN a - b ELSE 0

\* Mutant: the descriptors are left open.
schedule_retry_leaking ==
  /\ connected' = FALSE
  /\ retry_left' = Monus(retry_delay, spent)
  /\ retry_delay' = IF retry_delay < RetryMax \div 2 THEN 2 * retry_delay
                                                     ELSE RetryMax
  /\ UNCHANGED <<vhal, generation>>

\* retry_at_ns counts from the start of the call, however long it took.
schedule_retry ==
  /\ vhal' = Closed
  /\ connected' = FALSE
  /\ retry_left' = Monus(retry_delay, spent)
  /\ retry_delay' = IF retry_delay < RetryMax \div 2 THEN 2 * retry_delay
                                                     ELSE RetryMax
  /\ UNCHANGED generation

OpenFailed == schedule_retry /\ Return("failed", Nothing)

\* Mutants: what could be read is delivered after all; a failed read leaves
\* the session connected.
ReadFailedPartly == schedule_retry /\ Return("failed", frames)

ReadFailedStuck ==
  /\ Return("failed", Nothing)
  /\ UNCHANGED <<vhal, connected, retry_left, retry_delay, generation>>

ReadFailed == schedule_retry /\ Return("failed", Nothing)

Fault == faults < MaxFaults /\ faults' = faults + 1
NoFault == UNCHANGED faults

-----------------------------------------------------------------------------
(* roadcast_source_session_read up to the first system call. *)

Call ==
  /\ pc = "idle"
  /\ \/ /\ connected
        /\ Goto("readv", vhal)
     \/ /\ ~connected /\ retry_left > 0
        /\ Return("waiting", Nothing)
        /\ UNCHANGED <<vhal, connected, retry_left, retry_delay, generation>>
     \/ /\ ~connected /\ retry_left = 0
        /\ Goto("find", Closed)
  /\ NoFault

-----------------------------------------------------------------------------
(* roadcast_vhal_open. *)

Named(p) == holder[p] # Nobody /\ program[holder[p]].named

find_pid ==
  /\ pc = "find"
  /\ \/ \E p \in Pids : Named(p) /\ Goto("identify", [vhal EXCEPT !.pid = p])
     \/ ~(\E p \in Pids : Named(p)) /\ OpenFailed
  /\ NoFault

OpenIdentity ==
  /\ pc = "identify"
  /\ \/ /\ Holder # Nobody
        /\ Goto("executable", [vhal EXCEPT !.identity = Holder])
     \/ Holder = Nobody /\ OpenFailed
  /\ NoFault

\* read_executable_path and the symbols of that file.
ReadExecutable ==
  /\ pc = "executable"
  /\ \/ /\ Holder # Nobody
        /\ program[Holder].symbols # {}
        /\ Goto("mapping", [vhal EXCEPT !.executable = Holder,
                                        !.resolved = program[Holder].symbols])
     \/ Holder = Nobody /\ OpenFailed
     \/ Holder # Nobody /\ program[Holder].symbols = {} /\ OpenFailed
  /\ NoFault

\* The mapping is looked up by the path of the executable.
find_mapping_base ==
  /\ pc = "mapping"
  /\ IF Holder # Nobody /\ program[Holder] = program[vhal.executable]
     THEN Goto("memory", [vhal EXCEPT !.mapping = Holder])
     ELSE OpenFailed
  /\ NoFault

\* open_memory_fd.  Without it the session relies on process_vm_readv.
OpenMemory ==
  /\ pc = "memory"
  /\ \/ Goto("verify_open", [vhal EXCEPT !.memory = Holder]) /\ NoFault
     \/ Goto("verify_open", vhal) /\ Fault

Connect ==
  /\ connected' = TRUE
  /\ generation' = generation + 1
  /\ pc' = "readv"
  /\ UNCHANGED <<world, vhal, retry_left, spent, frames, outcome>>

\* Mutant: an open that succeeds resets the delay.
VerifyOpenResetting ==
  /\ pc = "verify_open"
  /\ \/ verify_identity /\ Connect /\ retry_delay' = RetryInitial
     \/ ~verify_identity /\ OpenFailed
  /\ NoFault

VerifyOpen ==
  /\ pc = "verify_open"
  /\ \/ verify_identity /\ Connect /\ UNCHANGED retry_delay
     \/ ~verify_identity /\ OpenFailed
  /\ NoFault

\* Any system call of the open fails by itself.
AbortOpen ==
  /\ pc \in {"find", "identify", "executable", "mapping", "verify_open"}
  /\ OpenFailed
  /\ Fault

-----------------------------------------------------------------------------
(* roadcast_vhal_read. *)

Fill(f) ==
  /\ frames' = f
  /\ UNCHANGED <<world, vhal, connected, retry_left, retry_delay, generation,
                 spent, outcome>>

From(process, fs) ==
  [f \in FrameIds |-> IF f \in fs THEN process ELSE Missing]

\* process_vm_readv names its target by PID.  In a process with another
\* layout the addresses may or may not be mapped.
ProcessVmReadv ==
  /\ pc = "readv"
  /\ vhal.vm_left = 0
  /\ \/ /\ Holder # Nobody
        /\ Fill(From(Holder, vhal.resolved))
        /\ pc' = "verify_read"
        /\ NoFault
     \/ Holder = Nobody /\ ReadFailed /\ NoFault
     \/ Holder \notin {Nobody, vhal.mapping} /\ Goto("fallback", vhal) /\ NoFault
     \/ \E left \in {0, VmCooldown, Never} :
          Goto("fallback", [vhal EXCEPT !.vm_left = left]) /\ Fault

SkipVmReadv ==
  /\ pc = "readv"
  /\ vhal.vm_left > 0
  /\ Goto("fallback", vhal)
  /\ NoFault

ReopenMemory ==
  /\ pc = "fallback"
  /\ vhal.memory = Nobody
  /\ \/ /\ Holder # Nobody
        /\ Goto("fallback", [vhal EXCEPT !.memory = Holder])
        /\ NoFault
     \/ Holder = Nobody /\ ReadFailed /\ NoFault
     \/ ReadFailed /\ Fault

Alive(process) == \E p \in Pids : holder[p] = process

\* One pread per frame.  mem_fd keeps to the address space it was opened for
\* and reads nothing once its process has exited.
ReadFrames ==
  /\ pc = "fallback"
  /\ vhal.memory # Nobody
  /\ \E read \in SUBSET vhal.resolved :
       /\ Fill(From(vhal.memory, read))
       /\ \/ Alive(vhal.memory) /\ read = vhal.resolved /\ NoFault
          \/ ~Alive(vhal.memory) /\ read # vhal.resolved /\ NoFault
          \/ Alive(vhal.memory) /\ read # vhal.resolved /\ Fault
  /\ pc' = "verify_fallback"

Complete == \A f \in vhal.resolved : frames[f] # Missing

ReadSucceeded(result) ==
  /\ retry_delay' = RetryInitial
  /\ Return(result, frames)
  /\ UNCHANGED <<vhal, connected, retry_left, generation>>

\* Mutant: the identity is not checked again after the read.
VerifyReadTrusting ==
  /\ \/ pc = "verify_read" /\ ReadSucceeded("available")
     \/ pc = "verify_fallback" /\ Complete /\ ReadSucceeded("degraded")
     \/ pc = "verify_fallback" /\ ~Complete /\ ReadFailed
  /\ NoFault

VerifyRead ==
  /\ \/ pc = "verify_read" /\ verify_identity /\ ReadSucceeded("available")
     \/ /\ pc = "verify_fallback" /\ verify_identity /\ Complete
        /\ ReadSucceeded("degraded")
     \/ /\ pc = "verify_fallback" /\ verify_identity /\ ~Complete
        /\ ReadFailed
     \/ /\ pc \in {"verify_read", "verify_fallback"} /\ ~verify_identity
        /\ ReadFailed
  /\ NoFault

AbortVerify ==
  /\ pc \in {"verify_read", "verify_fallback"}
  /\ ReadFailed
  /\ Fault

-----------------------------------------------------------------------------
(* The owner, the clock and the other processes. *)

\* roadcast_source_session_close, once the sampler thread has been joined.
CloseSession ==
  /\ pc = "idle"
  /\ pc' = "closed"
  /\ vhal' = Closed
  /\ connected' = FALSE
  /\ UNCHANGED <<world, retry_left, retry_delay, generation, spent, frames,
                 outcome, faults>>

ClockTick ==
  /\ retry_left' = Monus(retry_left, 1)
  /\ vhal' = [vhal EXCEPT !.vm_left = IF @ = Never THEN @ ELSE Monus(@, 1)]
  /\ spent' = IF pc \in {"idle", "closed"} THEN 0
              ELSE IF spent < RetryMax THEN spent + 1 ELSE spent
  /\ UNCHANGED <<world, connected, retry_delay, generation, pc, frames,
                 outcome, faults>>

StartProcess(p, prog) ==
  /\ holder[p] = Nobody
  /\ Len(program) < MaxStarts
  /\ program' = Append(program, prog)
  /\ holder' = [holder EXCEPT ![p] = Len(program) + 1]
  /\ UNCHANGED <<vhal, connected, retry_left, retry_delay, generation, pc,
                 spent, frames, outcome, faults>>

ExitProcess(p) ==
  /\ holder[p] # Nobody
  /\ holder' = [holder EXCEPT ![p] = Nobody]
  /\ UNCHANGED <<program, vhal, connected, retry_left, retry_delay,
                 generation, pc, spent, frames, outcome, faults>>

Init ==
  /\ program = <<>>
  /\ holder = [p \in Pids |-> Nobody]
  /\ vhal = Closed
  /\ connected = FALSE
  /\ retry_left = 0
  /\ retry_delay = RetryInitial
  /\ generation = 0
  /\ pc = "idle"
  /\ spent = 0
  /\ frames = Nothing
  /\ outcome = [result |-> "waiting", bytes |-> Nothing]
  /\ faults = 0

Thread ==
  \/ Call
  \/ find_pid \/ OpenIdentity \/ ReadExecutable \/ find_mapping_base
  \/ OpenMemory \/ VerifyOpen \/ AbortOpen
  \/ ProcessVmReadv \/ SkipVmReadv \/ ReopenMemory \/ ReadFrames
  \/ VerifyRead \/ AbortVerify

Next ==
  \/ Thread
  \/ CloseSession
  \/ ClockTick
  \/ \E p \in Pids : (\E prog \in Programs : StartProcess(p, prog))
                     \/ ExitProcess(p)

Spec == Init /\ [][Next]_vars

\* The sampler thread keeps calling and its system calls return; time passes.
Fairness == WF_vars(Thread) /\ WF_vars(ClockTick)

FairSpec == Spec /\ Fairness

-----------------------------------------------------------------------------
(* Properties. *)

\* ARCHITECTURE.md, source recovery: the bytes a successful read delivers are
\* all those of one process, and it is the process whose executable and
\* mapping gave the addresses, although each system call names it only by a
\* PID that may have changed hands.
BytesOfResolvedProcess ==
  pc = "idle" /\ outcome.result \in {"available", "degraded"} =>
    /\ vhal.executable = vhal.mapping
    /\ outcome.bytes = From(vhal.mapping, vhal.resolved)

\* A session that is not connected holds no descriptor between two calls,
\* however its open or read failed.
DescriptorsReleased ==
  pc \in {"idle", "closed"} /\ ~connected => vhal = Closed

\* ARCHITECTURE.md: "A successful read resets that delay; merely opening a
\* source does not."
DelayResetByReadOnly ==
  [][retry_delay' < retry_delay =>
       outcome'.result \in {"available", "degraded"} /\ pc' = "idle"]_vars

\* Once a matching process with the symbols stays up (and no other process
\* matches), reads succeed again, whatever failed before: the back-off, the
\* process_vm_readv cooldown and the descriptors never wedge the session.
Recovers ==
  <>[](/\ \E p \in Pids : Named(p)
       /\ \A p \in Pids : Named(p) => program[holder[p]].symbols # {}) =>
    []<>(outcome.result \in {"available", "degraded"} \/ pc = "closed")

\* source_session.c:61 "A failed source must never publish a partially fresh
\* snapshot", and the rest of what the sampler relies on: see Source.
Contract ==
  INSTANCE Source WITH
    Bytes <- Started,
    MaxGenerations <- MaxStarts + MaxFaults + 1,
    resolved <- IF connected THEN vhal.resolved ELSE {}

ImplementsSource == Contract!SourceSpec
=============================================================================

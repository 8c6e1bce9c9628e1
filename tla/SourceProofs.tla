---------------------------- MODULE SourceProofs ----------------------------
(***************************************************************************)
(* What SourceSession promises for any number of PIDs, processes, faults   *)
(* and frames: the bytes delivered are those of the process whose          *)
(* addresses were resolved, a session that is not connected holds nothing, *)
(* only a successful read lowers the retry delay, and the whole implements *)
(* the contract of Source.                                                 *)
(***************************************************************************)
EXTENDS SourceSession, FiniteSetTheorems, TLAPS

\* Larger obligations take the provers longer than their default limits.
USE SMTT(30), ZenonT(30)

Opening == {"identify", "executable", "mapping", "memory", "verify_open"}
Reading == {"readv", "fallback", "verify_read", "verify_fallback"}

\* A process that has started, or Nobody.
Processes == 0 .. Len(program)

Handles ==
  [pid : Pids \cup {Nobody}, identity : Processes, executable : Processes,
   mapping : Processes, memory : Processes, resolved : SUBSET FrameIds,
   vm_left : Nat]

TypeOK ==
  /\ program \in Seq(Programs)
  /\ Len(program) <= MaxStarts
  /\ holder \in [Pids -> Processes]
  /\ vhal \in Handles
  /\ connected \in BOOLEAN
  /\ retry_left \in Nat
  /\ retry_delay \in RetryInitial .. RetryMax
  /\ generation \in Nat
  /\ pc \in {"idle", "closed", "find"} \cup Opening \cup Reading
  /\ spent \in Nat
  /\ faults \in 0 .. MaxFaults

\* A process has one PID.
OnePid ==
  \A p, q \in Pids : holder[p] = holder[q] => p = q \/ holder[p] = Nobody

\* session->vhal is filled in from the top down, and is empty before.
Filled ==
  /\ pc \in Reading => connected
  /\ pc \in Opening \cup {"find", "closed"} => ~connected
  /\ pc \notin Opening /\ ~connected => vhal = Closed
  /\ pc = "identify" => vhal = [Closed EXCEPT !.pid = vhal.pid]
  /\ pc \in Opening \/ connected => vhal.pid \in Pids
  /\ pc \in Opening \ {"identify"} \/ connected => vhal.identity # Nobody
  /\ pc \in {"mapping", "memory", "verify_open"} \/ connected =>
       vhal.executable # Nobody /\ vhal.resolved # {}
  /\ pc \in {"memory", "verify_open"} \/ connected => vhal.mapping # Nobody
  /\ connected => vhal.executable = vhal.identity /\ vhal.mapping = vhal.identity

\* As long as the process identity_fd was opened for has its PID, whatever
\* was obtained through that PID since is of that process; and it has never
\* had another PID.
Owned ==
  vhal.identity # Nobody =>
    /\ \A p \in Pids : holder[p] = vhal.identity => p = vhal.pid
    /\ verify_identity =>
         /\ vhal.executable \in {Nobody, vhal.identity}
         /\ vhal.mapping \in {Nobody, vhal.identity}
         /\ vhal.memory \in {Nobody, vhal.identity}
         /\ pc = "verify_read" => frames = From(vhal.identity, vhal.resolved)

\* The fallback reads through mem_fd only.
Fallback ==
  pc = "verify_fallback" =>
    /\ vhal.memory # Nobody
    /\ \E read \in SUBSET vhal.resolved : frames = From(vhal.memory, read)

Dead == (1 .. Len(program)) \ {holder[p] : p \in Pids}

\* The session can go on with the process it is connected to.
Usable ==
  connected /\ verify_identity /\ (pc = "verify_fallback" => Complete)

\* Every generation but that of a usable connection ended with the exit of
\* its process or with a fault.
Accounted ==
  pc # "closed" =>
    generation <= faults + Cardinality(Dead) + (IF Usable THEN 1 ELSE 0)

Inv ==
  /\ TypeOK
  /\ OnePid
  /\ Filled
  /\ Owned
  /\ Fallback
  /\ Accounted
  /\ BytesOfResolvedProcess

-----------------------------------------------------------------------------
(* The steps of the thread. *)

\* Only finitely many processes have exited.
LEMMA DeadFacts ==
  ASSUME TypeOK
  PROVE  /\ IsFiniteSet(Dead)
         /\ Cardinality(Dead) \in Nat
         /\ Cardinality(Dead) <= MaxStarts
<1>0. Len(program) \in Nat
  BY DEF TypeOK
<1>1. /\ IsFiniteSet(1 .. Len(program))
      /\ Cardinality(1 .. Len(program)) = Len(program)
  BY <1>0, FS_Interval
<1>2. Dead \in SUBSET (1 .. Len(program))
  BY DEF Dead
<1>3. IsFiniteSet(Dead) /\ Cardinality(Dead) <= Len(program)
  BY Zenon, <1>1, <1>2, FS_Subset
<1> QED
  BY <1>0, <1>3, FS_CardinalityType, SessionConstants DEF TypeOK

\* Who is dead depends on the processes only.
LEMMA DeadKept ==
  ASSUME UNCHANGED world
  PROVE  Dead' = Dead
<1>1. program' = program /\ holder' = holder
  BY DEF world
<1> QED
  BY <1>1 DEF Dead

\* schedule_retry never lowers the delay and never exceeds RETRY_MAX_NS.
LEMMA DelayGrows ==
  ASSUME TypeOK, schedule_retry
  PROVE  /\ retry_delay' \in RetryInitial .. RetryMax
         /\ retry_delay' >= retry_delay
         /\ retry_left' \in Nat
  BY SessionConstants DEF TypeOK, schedule_retry, Monus

\* A call that fails, by a fault or because the process is gone.
LEMMA FailedInv ==
  ASSUME Inv, schedule_retry, Return("failed", Nothing), pc # "closed",
         Fault \/ (NoFault /\ ~Usable)
  PROVE  Inv'
<1>1. UNCHANGED <<program, holder>> /\ Dead' = Dead
  BY DeadKept DEF Return, world
<1>2. TypeOK'
  <2>1. Closed \in Handles
    BY DEF Inv, TypeOK, Closed, Nobody, Handles, Processes
  <2>2. faults' \in 0 .. MaxFaults
    BY SessionConstants DEF Inv, TypeOK, Fault, NoFault
  <2>3. TypeOK
    BY DEF Inv
  <2> QED
    BY Zenon, <1>1, <2>1, <2>2, <2>3, DelayGrows
       DEF TypeOK, Handles, Processes, schedule_retry, Return
<1>3. OnePid' /\ Filled' /\ Owned' /\ Fallback' /\ BytesOfResolvedProcess'
  BY <1>1 DEF Inv, OnePid, Filled, Owned, Fallback, BytesOfResolvedProcess,
              schedule_retry, Return, Opening, Reading, Closed
<1>4. Accounted'
  BY <1>1, DeadFacts
     DEF Inv, TypeOK, Accounted, Usable, Fault, NoFault, schedule_retry, Return
<1> QED
  BY <1>2, <1>3, <1>4 DEF Inv

\* roadcast_source_session_read before the first system call.
LEMMA CallInv ==
  ASSUME Inv, Call
  PROVE  Inv'
<1>1. UNCHANGED <<program, holder, faults>> /\ Dead' = Dead
  BY DeadKept DEF Call, Goto, Return, world, NoFault
<1>2. CASE connected /\ Goto("readv", vhal)
  <2>1. TypeOK' /\ OnePid' /\ Filled' /\ Fallback' /\ BytesOfResolvedProcess'
    BY <1>1, <1>2
       DEF Inv, TypeOK, Handles, Processes, OnePid, Filled, Fallback,
           BytesOfResolvedProcess, Goto, Opening, Reading, Call
  <2>2. Owned'
    BY <1>1, <1>2 DEF Inv, Owned, Goto, verify_identity, Holder
  <2>3. Accounted'
    BY <1>1, <1>2, DeadFacts
       DEF Inv, Accounted, Usable, Call, Goto, verify_identity, Holder
  <2> QED
    BY <2>1, <2>2, <2>3 DEF Inv
<1>3. CASE ~connected /\ Return("waiting", Nothing)
           /\ UNCHANGED <<vhal, connected, retry_left, retry_delay, generation>>
  <2>1. TypeOK' /\ OnePid' /\ Filled' /\ Fallback' /\ BytesOfResolvedProcess'
    BY <1>1, <1>3
       DEF Inv, TypeOK, Handles, Processes, OnePid, Filled, Fallback,
           BytesOfResolvedProcess, Return, Opening, Reading, Call
  <2>2. Owned'
    BY <1>1, <1>3 DEF Inv, Owned, Return, verify_identity, Holder
  <2>3. Accounted'
    BY <1>1, <1>3, DeadFacts
       DEF Inv, Accounted, Usable, Call, Return, verify_identity, Holder
  <2> QED
    BY <2>1, <2>2, <2>3 DEF Inv
<1>4. CASE ~connected /\ Goto("find", Closed)
  <2>0. vhal = Closed
    BY <1>4 DEF Inv, Filled, Call, Opening
  <2>1. TypeOK' /\ OnePid' /\ Filled' /\ Fallback' /\ BytesOfResolvedProcess'
    BY <1>1, <1>4, <2>0
       DEF Inv, TypeOK, Handles, Processes, OnePid, Filled, Fallback,
           BytesOfResolvedProcess, Goto, Opening, Reading, Call
  <2>2. Owned'
    BY <1>1, <1>4, <2>0 DEF Inv, Owned, Goto, Closed
  <2>3. Accounted'
    BY <1>1, <1>4, DeadFacts
       DEF Inv, Accounted, Usable, Call, Goto
  <2> QED
    BY <2>1, <2>2, <2>3 DEF Inv
<1> QED
  BY <1>2, <1>3, <1>4 DEF Call

\* A step of the open touches session->vhal only.
LEMMA OpeningInv ==
  ASSUME Inv, NEW step \in Opening, NEW v \in Handles, Goto(step, v),
         ~connected, pc # "closed", Fault \/ NoFault, Filled', Owned'
  PROVE  Inv'
<1>1. UNCHANGED <<program, holder>> /\ Dead' = Dead
  BY DeadKept DEF Goto, world
<1>2. TypeOK'
  BY <1>1, SessionConstants
     DEF Inv, TypeOK, Handles, Processes, Goto, Fault, NoFault
<1>3. OnePid' /\ Fallback' /\ BytesOfResolvedProcess'
  BY <1>1 DEF Inv, OnePid, Fallback, BytesOfResolvedProcess, Goto, Opening
<1>4. Accounted'
  BY <1>1, DeadFacts
     DEF Inv, TypeOK, Accounted, Usable, Fault, NoFault, Goto
<1> QED
  BY <1>2, <1>3, <1>4 DEF Inv

\* The steps of the open that obtain something through the PID.
LEMMA OpenInv ==
  ASSUME Inv, find_pid \/ OpenIdentity \/ ReadExecutable
              \/ find_mapping_base \/ OpenMemory
  PROVE  Inv'
<1>0. /\ ~connected /\ ~Usable /\ pc # "closed"
      /\ TypeOK /\ OnePid /\ Filled /\ Owned
  BY DEF Inv, Filled, Usable, Opening, find_pid, OpenIdentity, ReadExecutable,
         find_mapping_base, OpenMemory
<1>1. pc # "find" => Holder \in Processes /\ vhal.pid \in Pids
  BY <1>0 DEF TypeOK, Filled, Holder, Opening, find_pid, OpenIdentity,
              ReadExecutable, find_mapping_base, OpenMemory
<1>2. ASSUME OpenFailed, NoFault
      PROVE  Inv'
  BY <1>0, <1>2, FailedInv DEF OpenFailed
<1>3. CASE find_pid
  <2>1. ASSUME NEW p \in Pids, Goto("identify", [vhal EXCEPT !.pid = p])
        PROVE  Inv'
    <3>0. vhal = Closed
      BY <1>0, <1>3 DEF Filled, find_pid, Opening
    <3>1. [vhal EXCEPT !.pid = p] \in Handles
      BY <1>0 DEF TypeOK, Handles
    <3>2. Filled' /\ Owned'
      BY <1>0, <2>1, <3>0
         DEF Filled, Owned, Goto, Closed, Opening, Reading
    <3> QED
      BY <1>0, <1>3, <2>1, <3>1, <3>2, OpeningInv DEF find_pid, Opening
  <2> QED
    BY Zenon, <1>2, <1>3, <2>1 DEF find_pid
<1>4. CASE OpenIdentity
  <2>1. ASSUME Holder # Nobody, 
               Goto("executable", [vhal EXCEPT !.identity = Holder])
        PROVE  Inv'
    <3>0. vhal = [Closed EXCEPT !.pid = vhal.pid]
      BY <1>0, <1>4 DEF Filled, OpenIdentity
    <3>1. [vhal EXCEPT !.identity = Holder] \in Handles
      BY <1>0, <1>1, <1>4 DEF TypeOK, Handles, OpenIdentity
    <3>2. Filled'
      BY <1>0, <1>1, <1>4, <2>1
         DEF Filled, Goto, Opening, Reading, TypeOK, Handles, OpenIdentity
    <3>3. Owned'
      BY <1>0, <1>1, <1>4, <2>1, <3>0
         DEF Owned, OnePid, Goto, Holder, Closed, world, OpenIdentity
    <3> QED
      BY <1>0, <1>4, <2>1, <3>1, <3>2, <3>3, OpeningInv
         DEF OpenIdentity, Opening
  <2> QED
    BY <1>2, <1>4, <2>1 DEF OpenIdentity
<1>5. CASE ReadExecutable
  <2>1. ASSUME Holder # Nobody, program[Holder].symbols # {},
               Goto("mapping", [vhal EXCEPT !.executable = Holder,
                                       !.resolved = program[Holder].symbols])
        PROVE  Inv'
    <3>0. program[Holder].symbols \in SUBSET FrameIds
      BY <1>0, <1>1, <1>5, <2>1, SessionConstants
         DEF TypeOK, Processes, Nobody, ReadExecutable
    <3>1. [vhal EXCEPT !.executable = Holder,
                       !.resolved = program[Holder].symbols] \in Handles
      BY Zenon, <1>0, <1>1, <1>5, <3>0 DEF TypeOK, Handles, ReadExecutable
    <3>2. Filled'
      BY <1>0, <1>1, <1>5, <2>1
         DEF Filled, Goto, Opening, Reading, TypeOK, Handles, ReadExecutable
    <3>3. Owned'
      BY <1>0, <1>1, <1>5, <2>1
         DEF Owned, Goto, Holder, verify_identity, TypeOK, Handles, world,
             ReadExecutable
    <3> QED
      BY <1>0, <1>5, <2>1, <3>1, <3>2, <3>3, OpeningInv
         DEF ReadExecutable, Opening
  <2> QED
    BY <1>2, <1>5, <2>1 DEF ReadExecutable
<1>6. CASE find_mapping_base
  <2>1. ASSUME Holder # Nobody,
               Goto("memory", [vhal EXCEPT !.mapping = Holder])
        PROVE  Inv'
    <3>1. [vhal EXCEPT !.mapping = Holder] \in Handles
      BY <1>0, <1>1, <1>6 DEF TypeOK, Handles, find_mapping_base
    <3>2. Filled'
      BY <1>0, <1>1, <1>6, <2>1
         DEF Filled, Goto, Opening, Reading, TypeOK, Handles,
             find_mapping_base
    <3>3. Owned'
      BY <1>0, <1>1, <1>6, <2>1
         DEF Owned, Goto, Holder, verify_identity, TypeOK, Handles, world,
             find_mapping_base
    <3> QED
      BY <1>0, <1>6, <2>1, <3>1, <3>2, <3>3, OpeningInv
         DEF find_mapping_base, Opening
  <2> QED
    BY <1>2, <1>6, <2>1 DEF find_mapping_base
<1>7. CASE OpenMemory
  <2>1. ASSUME NEW v \in {vhal, [vhal EXCEPT !.memory = Holder]},
               Goto("verify_open", v)
        PROVE  Inv'
    <3>1. v \in Handles
      BY <1>0, <1>1, <1>7 DEF TypeOK, Handles, OpenMemory
    <3>2. Filled'
      BY <1>0, <1>1, <1>7, <2>1
         DEF Filled, Goto, Opening, Reading, TypeOK, Handles, OpenMemory
    <3>3. Owned'
      BY <1>0, <1>1, <1>7, <2>1
         DEF Owned, Goto, Holder, verify_identity, TypeOK, Handles, world,
             OpenMemory
    <3> QED
      BY <1>0, <1>7, <2>1, <3>1, <3>2, <3>3, OpeningInv
         DEF OpenMemory, Opening
  <2> QED
    BY <1>7, <2>1 DEF OpenMemory
<1> QED
  BY <1>3, <1>4, <1>5, <1>6, <1>7

\* The open succeeds when identity_fd still answers: the executable and the
\* mapping, obtained in between, are then of the same process.
LEMMA VerifyOpenInv ==
  ASSUME Inv, VerifyOpen \/ AbortOpen
  PROVE  Inv'
<1>0. /\ ~connected /\ ~Usable /\ pc # "closed"
      /\ TypeOK /\ OnePid /\ Filled /\ Owned
  BY DEF Inv, Filled, Usable, Opening, VerifyOpen, AbortOpen
<1>1. CASE OpenFailed /\ (Fault \/ NoFault)
  BY <1>0, <1>1, FailedInv DEF OpenFailed
<1>2. CASE /\ pc = "verify_open" /\ verify_identity /\ Connect
           /\ UNCHANGED retry_delay /\ NoFault
  <2>1. UNCHANGED <<program, holder, vhal, faults>> /\ Dead' = Dead
    BY <1>2, DeadKept DEF Connect, world, NoFault
  <2>2. TypeOK'
    BY <1>0, <1>2, <2>1
       DEF TypeOK, Handles, Processes, Connect, Reading
  <2>3. OnePid' /\ Fallback' /\ BytesOfResolvedProcess'
    BY <1>0, <1>2, <2>1
       DEF OnePid, Fallback, BytesOfResolvedProcess, Connect
  <2>4. Filled' /\ Owned'
    BY <1>0, <1>2, <2>1
       DEF Filled, Owned, Connect, Opening, Reading, verify_identity, Holder
  <2>5. Accounted'
    <3>1. Usable'
      BY <1>2, <2>1 DEF Usable, Connect, verify_identity, Holder
    <3> QED
      BY <1>0, <1>2, <2>1, <3>1, DeadFacts
         DEF Inv, TypeOK, Accounted, Connect
  <2> QED
    BY <2>2, <2>3, <2>4, <2>5 DEF Inv
<1> QED
  BY <1>1, <1>2 DEF VerifyOpen, AbortOpen

\* A step of the read that goes on to another one.
LEMMA ReadingInv ==
  ASSUME Inv, pc \in Reading, pc' \in Reading, pc # "verify_fallback",
         vhal' \in Handles,
         \E memory \in Processes, left \in Nat :
           vhal' = [vhal EXCEPT !.memory = memory, !.vm_left = left],
         UNCHANGED <<world, connected, retry_left, retry_delay, generation,
                     spent, outcome>>,
         Fault \/ (NoFault /\ (Usable => Usable')), Owned', Fallback'
  PROVE  Inv'
<1>0. TypeOK /\ OnePid /\ Filled /\ connected
  BY DEF Inv, Filled
<1>1. UNCHANGED <<program, holder>> /\ Dead' = Dead
  BY DeadKept DEF world
<1>2. TypeOK'
  <2>1. Processes' = Processes
    BY <1>1 DEF Processes
  <2>2. Handles' = Handles
    BY <2>1 DEF Handles
  <2>3. faults' \in 0 .. MaxFaults
    BY <1>0, SessionConstants DEF TypeOK, Fault, NoFault
  <2> QED
    BY <1>0, <1>1, <2>1, <2>2, <2>3 DEF TypeOK
<1>3. OnePid' /\ BytesOfResolvedProcess'
  BY <1>0, <1>1 DEF OnePid, BytesOfResolvedProcess, Reading
<1>4. Filled'
  BY <1>0 DEF Filled, Opening, Reading, TypeOK, Handles
<1>5. Accounted'
  BY <1>0, <1>1, DeadFacts
     DEF Inv, TypeOK, Accounted, Fault, NoFault, Reading
<1> QED
  BY <1>2, <1>3, <1>4, <1>5 DEF Inv

\* process_vm_readv, and the switch to the fallback.
LEMMA ReadvInv ==
  ASSUME Inv, ProcessVmReadv \/ SkipVmReadv
  PROVE  Inv'
<1>0. /\ TypeOK /\ Filled /\ Owned /\ connected /\ pc = "readv"
      /\ vhal \in Handles /\ vhal.identity # Nobody /\ vhal.pid \in Pids
      /\ vhal.memory \in Processes /\ vhal.vm_left \in Nat
  BY DEF Inv, TypeOK, Handles, Filled, Reading, ProcessVmReadv, SkipVmReadv
<1>1. CASE /\ Fill(From(Holder, vhal.resolved))
           /\ pc' = "verify_read" /\ NoFault
  <2>1. UNCHANGED <<program, holder, vhal, connected>>
    BY <1>1 DEF Fill, world
  <2>2. Owned'
    BY <1>0, <1>1, <2>1
       DEF Owned, Fill, From, Holder, verify_identity
  <2>3. Fallback' /\ (Usable => Usable')
    BY <1>0, <1>1, <2>1
       DEF Fallback, Usable, Fill, verify_identity, Holder
  <2>4. vhal' = [vhal EXCEPT !.memory = vhal.memory, !.vm_left = vhal.vm_left]
    BY Zenon, <1>0, <2>1 DEF Handles
  <2> QED
    BY Zenon, <1>0, <1>1, <2>1, <2>2, <2>3, <2>4, ReadingInv DEF Fill, Reading
<1>2. CASE Holder = Nobody /\ ReadFailed /\ NoFault
  <2>1. ~Usable
    BY <1>0, <1>2 DEF Usable, verify_identity
  <2> QED
    BY <1>0, <1>2, <2>1, FailedInv DEF ReadFailed
<1>3. ASSUME NEW left \in Nat, Fault \/ NoFault,
             Goto("fallback", [vhal EXCEPT !.vm_left = left])
      PROVE  Inv'
  <2>1. UNCHANGED <<program, holder, connected>>
    BY <1>3 DEF Goto, world
  <2>2. vhal' = [vhal EXCEPT !.memory = vhal.memory, !.vm_left = left]
    BY Zenon, <1>0, <1>3 DEF Goto, Handles
  <2>3. vhal' \in Handles
    BY Zenon, <1>0, <2>2 DEF Handles
  <2>4. Owned'
    BY <1>0, <1>3, <2>1 DEF Owned, Goto, Handles, Holder, verify_identity
  <2>5. Fallback' /\ (Usable => Usable')
    BY <1>0, <1>3, <2>1
       DEF Fallback, Usable, Goto, Handles, verify_identity, Holder
  <2> QED
    BY Zenon, <1>0, <1>3, <2>2, <2>3, <2>4, <2>5, ReadingInv DEF Goto, Reading
<1>4. CASE Goto("fallback", vhal) /\ NoFault
  <2>1. vhal = [vhal EXCEPT !.vm_left = vhal.vm_left]
    BY <1>0 DEF Handles
  <2> QED
    BY <1>0, <1>3, <1>4, <2>1
<1>5. {0, VmCooldown, Never} \subseteq Nat
  BY SessionConstants DEF Never
<1> QED
  BY <1>1, <1>2, <1>3, <1>4, <1>5 DEF ProcessVmReadv, SkipVmReadv

\* The fallback: mem_fd is opened when it is not, and read frame by frame.
LEMMA FallbackInv ==
  ASSUME Inv, ReopenMemory \/ ReadFrames
  PROVE  Inv'
<1>0. /\ TypeOK /\ Filled /\ Owned /\ connected /\ pc = "fallback"
      /\ vhal \in Handles /\ vhal.identity # Nobody /\ vhal.pid \in Pids
      /\ vhal.memory \in Processes /\ vhal.vm_left \in Nat
      /\ Holder \in Processes
  BY DEF Inv, TypeOK, Handles, Filled, Reading, ReopenMemory, ReadFrames,
         Holder
<1>1. CASE Goto("fallback", [vhal EXCEPT !.memory = Holder]) /\ NoFault
  <2>1. UNCHANGED <<program, holder, connected>>
    BY <1>1 DEF Goto, world
  <2>2. vhal' = [vhal EXCEPT !.memory = Holder, !.vm_left = vhal.vm_left]
    BY Zenon, <1>0, <1>1 DEF Goto, Handles
  <2>3. vhal' \in Handles
    BY Zenon, <1>0, <2>2 DEF Handles
  <2>4. Owned'
    BY <1>0, <1>1, <2>1 DEF Owned, Goto, Handles, Holder, verify_identity
  <2>5. Fallback' /\ (Usable => Usable')
    BY <1>0, <1>1, <2>1
       DEF Fallback, Usable, Goto, Handles, verify_identity, Holder
  <2> QED
    BY Zenon, <1>0, <1>1, <2>2, <2>3, <2>4, <2>5, ReadingInv DEF Goto, Reading
<1>2. CASE ReadFailed /\ (Fault \/ (Holder = Nobody /\ NoFault))
  <2>1. Holder = Nobody => ~Usable
    BY <1>0 DEF Usable, verify_identity
  <2> QED
    BY <1>0, <1>2, <2>1, FailedInv DEF ReadFailed
<1>3. ASSUME NEW read \in SUBSET vhal.resolved, vhal.memory # Nobody,
             Fill(From(vhal.memory, read)), pc' = "verify_fallback",
             \/ Alive(vhal.memory) /\ read = vhal.resolved /\ NoFault
             \/ ~Alive(vhal.memory) /\ read # vhal.resolved /\ NoFault
             \/ Alive(vhal.memory) /\ read # vhal.resolved /\ Fault
      PROVE  Inv'
  <2>1. UNCHANGED <<program, holder, vhal, connected>>
    BY <1>3 DEF Fill, world
  <2>2. Owned'
    BY <1>0, <1>3, <2>1 DEF Owned, Holder, verify_identity
  <2>3. Fallback'
    BY <1>0, <1>3, <2>1 DEF Fallback, Fill, From
  <2>4. vhal' = [vhal EXCEPT !.memory = vhal.memory, !.vm_left = vhal.vm_left]
    BY Zenon, <1>0, <2>1 DEF Handles
  <2>5. Fault \/ (NoFault /\ (Usable => Usable'))
    <3>1. CASE read = vhal.resolved /\ NoFault
      <4>1. vhal.memory \in Started
        BY <1>0, <1>3, SessionConstants
           DEF TypeOK, Processes, Started, Nobody
      <4>2. \A f \in vhal'.resolved : frames'[f] # Missing
        BY <1>0, <1>3, <2>1, <3>1, <4>1, SessionConstants
           DEF Fill, From, Handles
      <4> QED
        BY <1>0, <2>1, <3>1, <4>2
           DEF Usable, Complete, verify_identity, Holder
    <3>2. CASE ~Alive(vhal.memory) /\ NoFault
      BY <1>0, <1>3, <3>2
         DEF Usable, Owned, Alive, Holder, verify_identity
    <3> QED
      BY <1>3, <3>1, <3>2
  <2> QED
    BY Zenon, <1>0, <1>3, <2>1, <2>2, <2>3, <2>4, <2>5, ReadingInv
       DEF Fill, Reading
<1> QED
  BY <1>1, <1>2, <1>3 DEF ReopenMemory, ReadFrames

\* A read that succeeds: identity_fd still answers, so that what was read
\* through the PID or mem_fd is of the process it was opened for.
LEMMA SucceededFacts ==
  ASSUME Inv, verify_identity,
         pc = "verify_read" \/ (pc = "verify_fallback" /\ Complete)
  PROVE  /\ connected /\ Usable
         /\ vhal.identity \in Started
         /\ vhal.executable = vhal.identity
         /\ vhal.mapping = vhal.identity
         /\ frames = From(vhal.identity, vhal.resolved)
<1>1. /\ connected /\ Usable /\ vhal.identity # Nobody
      /\ vhal.executable = vhal.identity
      /\ vhal.mapping = vhal.identity
  BY DEF Inv, Filled, Reading, Usable
<1>2. vhal.identity \in Started
  BY <1>1, SessionConstants
     DEF Inv, TypeOK, Handles, Processes, Started, Nobody
<1>3. CASE pc = "verify_read"
  BY <1>1, <1>2, <1>3 DEF Inv, Owned
<1>4. CASE pc = "verify_fallback" /\ Complete
  <2>1. vhal.memory = vhal.identity
    BY <1>1, <1>4 DEF Inv, Owned, Fallback
  <2>2. PICK read \in SUBSET vhal.resolved : frames = From(vhal.memory, read)
    BY <1>4 DEF Inv, Fallback
  <2>3. \A f \in vhal.resolved : f \in FrameIds /\ frames[f] # Missing
    BY <1>4 DEF Complete, Inv, TypeOK, Handles
  <2>4. read = vhal.resolved
    BY Zenon, <2>2, <2>3 DEF From
  <2> QED
    BY <1>1, <1>2, <2>1, <2>2, <2>4
<1> QED
  BY <1>3, <1>4

\* The last check of a read.
LEMMA VerifyReadInv ==
  ASSUME Inv, VerifyRead \/ AbortVerify
  PROVE  Inv'
<1>0. TypeOK /\ OnePid /\ Filled /\ Owned /\ pc # "closed"
  BY DEF Inv, VerifyRead, AbortVerify
<1>1. CASE ReadFailed /\ (Fault \/ (NoFault /\ ~Usable))
  BY <1>0, <1>1, FailedInv DEF ReadFailed
<1>2. ASSUME NEW result \in {"available", "degraded"}, verify_identity,
             pc = "verify_read" \/ (pc = "verify_fallback" /\ Complete),
             ReadSucceeded(result), NoFault
      PROVE  Inv'
  <2>0. /\ connected /\ Usable
        /\ vhal.executable = vhal.identity
        /\ vhal.mapping = vhal.identity
        /\ frames = From(vhal.identity, vhal.resolved)
    BY <1>2, SucceededFacts
  <2>1. UNCHANGED <<program, holder, vhal, connected, faults, generation>>
        /\ Dead' = Dead
    BY <1>2, DeadKept DEF ReadSucceeded, Return, world, NoFault
  <2>2. TypeOK'
    BY <1>0, <1>2, <2>1, SessionConstants
       DEF TypeOK, Handles, Processes, ReadSucceeded, Return
  <2>3. OnePid' /\ Fallback' /\ BytesOfResolvedProcess'
    BY <1>0, <1>2, <2>0, <2>1
       DEF OnePid, Fallback, BytesOfResolvedProcess, ReadSucceeded, Return,
           From
  <2>4. Filled' /\ Owned'
    BY <1>0, <1>2, <2>0, <2>1
       DEF Filled, Owned, ReadSucceeded, Return, Opening, Reading,
           verify_identity, Holder
  <2>5. Accounted'
    <3>1. Usable'
      BY <1>2, <2>0, <2>1
         DEF Usable, ReadSucceeded, Return, verify_identity, Holder
    <3> QED
      BY <1>0, <2>0, <2>1, <3>1 DEF Inv, Accounted
  <2> QED
    BY <2>2, <2>3, <2>4, <2>5 DEF Inv
<1> QED
  BY <1>1, <1>2 DEF VerifyRead, AbortVerify, Usable

-----------------------------------------------------------------------------
(* The owner, the clock and the other processes. *)

\* roadcast_source_session_close.
LEMMA CloseInv ==
  ASSUME Inv, CloseSession
  PROVE  Inv'
<1>1. UNCHANGED <<program, holder>>
  BY DEF CloseSession, world
<1>2. TypeOK'
  <2>1. Closed \in Handles
    BY DEF Inv, TypeOK, Closed, Nobody, Handles, Processes
  <2> QED
    BY Zenon, <1>1, <2>1 DEF Inv, TypeOK, Handles, Processes, CloseSession
<1> QED
  BY <1>1, <1>2
     DEF Inv, OnePid, Filled, Owned, Fallback, Accounted,
         BytesOfResolvedProcess, CloseSession, Opening, Reading, Closed

\* Time changes nothing but the two countdowns and the duration of the call.
LEMMA TickInv ==
  ASSUME Inv, ClockTick
  PROVE  Inv'
<1>0. /\ vhal \in Handles
      /\ UNCHANGED <<program, holder, pc, connected, generation, faults,
                     frames, outcome>>
      /\ Dead' = Dead
  BY DeadKept DEF Inv, TypeOK, ClockTick, world
<1>1. PICK left \in Nat : /\ vhal' = [vhal EXCEPT !.vm_left = left]
                          /\ vhal.vm_left = 0 => left = 0
  <2>1. vhal.vm_left \in Nat
    BY <1>0 DEF Handles
  <2>2. Never # 0
    BY SessionConstants DEF Never
  <2> DEFINE left == IF vhal.vm_left = Never THEN vhal.vm_left
                                             ELSE Monus(vhal.vm_left, 1)
  <2>3. left \in Nat /\ (vhal.vm_left = 0 => left = 0)
    BY <2>1, <2>2 DEF Monus
  <2>4. vhal' = [vhal EXCEPT !.vm_left = left]
    BY DEF ClockTick
  <2> QED
    BY <2>3, <2>4
<1>2. TypeOK'
  <2>1. vhal' \in Handles
    BY <1>0, <1>1 DEF Handles
  <2>2. retry_left' \in Nat /\ spent' \in Nat
    BY SessionConstants DEF Inv, TypeOK, ClockTick, Monus
  <2> QED
    BY Zenon, <1>0, <2>1, <2>2 DEF Inv, TypeOK, Handles, Processes, ClockTick
<1>3. OnePid' /\ BytesOfResolvedProcess'
  BY <1>0, <1>1 DEF Inv, OnePid, BytesOfResolvedProcess, Handles, From
<1>4. Filled'
  <2>1. vhal = Closed => vhal' = Closed
    BY <1>0, <1>1 DEF Closed, Handles
  <2>2. vhal = [Closed EXCEPT !.pid = vhal.pid] =>
          vhal' = [Closed EXCEPT !.pid = vhal'.pid]
    BY <1>0, <1>1 DEF Closed, Handles
  <2> QED
    BY <1>0, <1>1, <2>1, <2>2 DEF Inv, Filled, Handles
<1>5. Owned' /\ Fallback'
  BY <1>0, <1>1
     DEF Inv, Owned, Fallback, Handles, Holder, verify_identity, From
<1>6. Accounted'
  BY <1>0, <1>1
     DEF Inv, Accounted, Usable, Complete, Handles, Holder, verify_identity
<1> QED
  BY <1>2, <1>3, <1>4, <1>5, <1>6 DEF Inv

\* A new process has a number that no handle of the session can have.
LEMMA StartInv ==
  ASSUME Inv, NEW p \in Pids, NEW prog \in Programs, StartProcess(p, prog)
  PROVE  Inv'
<1> DEFINE new == Len(program) + 1
<1>0. /\ UNCHANGED <<pc, vhal, connected, retry_left, retry_delay,
                     generation, spent, faults, frames, outcome>>
      /\ Len(program) \in Nat /\ Len(program) < MaxStarts
      /\ holder \in [Pids -> Processes]
      /\ vhal \in Handles
  BY DEF Inv, TypeOK, StartProcess
<1>1. /\ program' \in Seq(Programs) /\ Len(program') = new
      /\ Processes' = Processes \cup {new}
  BY <1>0 DEF Inv, TypeOK, StartProcess, Processes
<1>2. /\ holder[p] = Nobody
      /\ holder' = [holder EXCEPT ![p] = new]
      /\ \A q \in Pids : holder'[q] = IF q = p THEN new ELSE holder[q]
      /\ holder' \in [Pids -> Processes']
      /\ new \notin Processes
  BY <1>0, <1>1 DEF StartProcess, Processes
<1>3. vhal.identity \in Processes /\ vhal' \in Handles'
  BY <1>0, <1>1 DEF Handles
<1>4. TypeOK'
  <2>1. Len(program') <= MaxStarts
    BY <1>0, <1>1, SessionConstants
  <2> QED
    BY <1>0, <1>1, <1>2, <1>3, <2>1 DEF Inv, TypeOK
<1>5. OnePid'
  BY <1>0, <1>2 DEF Inv, TypeOK, OnePid
<1>6. Filled' /\ Fallback' /\ BytesOfResolvedProcess'
  BY <1>0 DEF Inv, Filled, Fallback, BytesOfResolvedProcess, From
<1>7. vhal.pid \in Pids /\ vhal.identity # Nobody =>
        (verify_identity' <=> verify_identity)
  BY <1>0, <1>2, <1>3 DEF verify_identity, Holder
<1>8. vhal.identity # Nobody => vhal.pid \in Pids
  BY <1>0 DEF Inv, Filled, Closed
<1>9. Owned'
  BY <1>0, <1>2, <1>3, <1>7, <1>8 DEF Inv, Owned, From
<1>10. Accounted'
  <2>1. Dead' = Dead
    <3>1. ASSUME NEW n
          PROVE  n \in Dead' <=> n \in Dead
      BY <1>0, <1>1, <1>2 DEF Dead, Nobody, Processes
    <3> QED
      BY Zenon, <3>1
  <2>2. Usable' <=> Usable
    BY <1>0, <1>7 DEF Inv, Filled, Usable, Complete
  <2> QED
    BY <1>0, <2>1, <2>2 DEF Inv, Accounted
<1> QED
  BY <1>4, <1>5, <1>6, <1>9, <1>10 DEF Inv

\* With the exit of a process the number of dead ones grows.
LEMMA ExitInv ==
  ASSUME Inv, NEW p \in Pids, ExitProcess(p)
  PROVE  Inv'
<1>0. /\ UNCHANGED <<program, pc, vhal, connected, retry_left, retry_delay,
                     generation, spent, faults, frames, outcome>>
      /\ Len(program) \in Nat
      /\ holder \in [Pids -> Processes]
      /\ vhal \in Handles /\ vhal.identity \in Processes
      /\ TypeOK
  BY DEF Inv, TypeOK, Handles, ExitProcess
<1>1. /\ holder[p] # Nobody
      /\ \A q \in Pids : holder'[q] = IF q = p THEN Nobody ELSE holder[q]
      /\ holder' \in [Pids -> Processes]
      /\ Processes' = Processes /\ Handles' = Handles
  BY <1>0 DEF ExitProcess, Processes, Nobody, Handles
<1>2. TypeOK'
  BY <1>0, <1>1 DEF Inv, TypeOK
<1>3. OnePid'
  BY <1>0, <1>1 DEF Inv, OnePid
<1>4. Filled' /\ Fallback' /\ BytesOfResolvedProcess'
  BY Zenon, <1>0 DEF Inv, Filled, Fallback, BytesOfResolvedProcess, From
<1>5. vhal.identity # Nobody => vhal.pid \in Pids
  BY <1>0 DEF Inv, Filled, Closed
<1>6. vhal.identity # Nobody =>
        (verify_identity' <=> verify_identity /\ p # vhal.pid)
  BY <1>0, <1>1, <1>5 DEF verify_identity, Holder
<1>7. Owned'
  BY <1>0, <1>1, <1>6 DEF Inv, Owned, From
<1>8. Accounted'
  <2>1. Dead' = Dead \cup {holder[p]}
    <3>1. ASSUME NEW n
          PROVE  n \in Dead' <=> n \in Dead \/ n = holder[p]
      BY <1>0, <1>1 DEF Inv, OnePid, Dead, Nobody, Processes
    <3> QED
      BY <3>1
  <2>2. holder[p] \notin Dead
    BY DEF Dead
  <2>3. Cardinality(Dead') = Cardinality(Dead) + 1 /\ Cardinality(Dead) \in Nat
    BY Zenon, <1>0, <2>1, <2>2, DeadFacts, FS_AddElement
  <2> QED
    BY <1>0, <2>3 DEF TypeOK, Inv, Accounted
<1> QED
  BY <1>2, <1>3, <1>4, <1>7, <1>8 DEF Inv

-----------------------------------------------------------------------------
(* What holds of every behaviour. *)

\* The initial state: no process, nothing open.
LEMMA InitInv == Init => Inv
<1> SUFFICES ASSUME Init PROVE Inv
  OBVIOUS
<1>1. TypeOK
  <2>1. program \in Seq(Programs) /\ Len(program) = 0
    BY DEF Init
  <2>2. Closed \in Handles
    BY <2>1 DEF Closed, Nobody, Handles, Processes
  <2>3. holder \in [Pids -> Processes]
    BY <2>1 DEF Init, Processes, Nobody
  <2>4. retry_delay \in RetryInitial .. RetryMax /\ faults \in 0 .. MaxFaults
    BY SessionConstants DEF Init
  <2>5. Len(program) <= MaxStarts
    BY <2>1, SessionConstants
  <2>6. /\ vhal \in Handles /\ connected \in BOOLEAN
        /\ pc \in {"idle", "closed", "find"} \cup Opening \cup Reading
        /\ retry_left \in Nat /\ generation \in Nat /\ spent \in Nat
    BY Zenon, <2>2 DEF Init
  <2> QED
    BY <2>1, <2>3, <2>4, <2>5, <2>6 DEF TypeOK
<1>2. OnePid /\ Filled /\ Owned /\ Fallback /\ BytesOfResolvedProcess
  BY DEF Init, OnePid, Filled, Owned, Fallback, BytesOfResolvedProcess,
         Opening, Reading, Closed
<1>3. Accounted
  BY <1>1, DeadFacts DEF Init, Accounted, Usable
<1> QED
  BY <1>1, <1>2, <1>3 DEF Inv

\* Every step keeps the invariant.
LEMMA NextInv == Inv /\ [Next]_vars => Inv'
<1> SUFFICES ASSUME Inv, [Next]_vars PROVE Inv'
  OBVIOUS
<1>1. CASE Thread
  BY <1>1, CallInv, OpenInv, VerifyOpenInv, ReadvInv, FallbackInv,
     VerifyReadInv DEF Thread
<1>2. CASE CloseSession \/ ClockTick
  BY <1>2, CloseInv, TickInv
<1>3. ASSUME NEW p \in Pids,
             (\E prog \in Programs : StartProcess(p, prog)) \/ ExitProcess(p)
      PROVE  Inv'
  BY <1>3, StartInv, ExitInv
<1>4. CASE UNCHANGED vars
  <2>1. /\ UNCHANGED <<program, holder, vhal, connected, retry_left,
                       retry_delay, generation, pc, spent, frames, outcome,
                       faults>>
        /\ Dead' = Dead
    BY <1>4, DeadKept DEF vars, world
  <2>2. TypeOK' /\ OnePid' /\ Filled'
    BY <2>1 DEF Inv, TypeOK, Handles, Processes, OnePid, Filled
  <2>3. Owned' /\ Fallback' /\ BytesOfResolvedProcess'
    BY <2>1 DEF Inv, Owned, Fallback, BytesOfResolvedProcess, From, Holder,
                verify_identity
  <2>4. Accounted'
    BY <2>1 DEF Inv, Accounted, Usable, Complete, Holder, verify_identity
  <2> QED
    BY <2>2, <2>3, <2>4 DEF Inv
<1> QED
  BY <1>1, <1>2, <1>3, <1>4 DEF Next

\* The handles of the session belong to one process as long as it lives, and
\* every generation that ended is accounted for.
THEOREM Inductive == Spec => []Inv
  BY InitInv, NextInv, PTL DEF Spec

\* ARCHITECTURE.md, source recovery: whatever processes exit and reuse the
\* PID between two system calls, a successful read delivers the bytes of the
\* one process whose executable and mapping gave the addresses.
THEOREM ReadsOneProcess == Spec => []BytesOfResolvedProcess
<1>1. Inv => BytesOfResolvedProcess
  BY DEF Inv
<1> QED
  BY <1>1, Inductive, PTL

\* However the open or the read failed, a session that is not connected
\* holds no descriptor between two calls.
THEOREM NothingHeld == Spec => []DescriptorsReleased
<1>1. Inv => DescriptorsReleased
  BY DEF Inv, Filled, DescriptorsReleased, Opening
<1> QED
  BY <1>1, Inductive, PTL

\* ARCHITECTURE.md: "A successful read resets that delay; merely opening a
\* source does not."
THEOREM DelayKept == Spec => DelayResetByReadOnly
<1> DEFINE Reset == retry_delay' < retry_delay =>
              outcome'.result \in {"available", "degraded"} /\ pc' = "idle"
<1>1. Inv /\ [Next]_vars => [Reset]_vars
  <2> SUFFICES ASSUME Inv, Next PROVE Reset
    OBVIOUS
  <2>0. retry_delay \in Nat
    BY SessionConstants DEF Inv, TypeOK
  <2>1. CASE retry_delay' = retry_delay
    BY <2>0, <2>1
  <2>2. CASE schedule_retry
    <3>1. retry_delay' >= retry_delay /\ retry_delay' \in RetryInitial .. RetryMax
      BY <2>2, DelayGrows DEF Inv
    <3> QED
      BY <2>0, <3>1, SessionConstants
  <2>3. CASE \E result \in {"available", "degraded"} : ReadSucceeded(result)
    BY <2>3 DEF ReadSucceeded, Return
  <2>4. CASE Call \/ find_pid \/ OpenIdentity \/ ReadExecutable
             \/ find_mapping_base \/ OpenMemory
    BY <2>1, <2>2, <2>4
       DEF Call, find_pid, OpenIdentity, ReadExecutable, find_mapping_base,
           OpenMemory, Goto, OpenFailed
  <2>5. CASE VerifyOpen \/ AbortOpen \/ ProcessVmReadv \/ SkipVmReadv
             \/ ReopenMemory \/ ReadFrames
    BY <2>1, <2>2, <2>5
       DEF VerifyOpen, AbortOpen, ProcessVmReadv, SkipVmReadv, ReopenMemory,
           ReadFrames, Goto, Fill, OpenFailed, ReadFailed
  <2>6. CASE VerifyRead \/ AbortVerify
    BY <2>2, <2>3, <2>6 DEF VerifyRead, AbortVerify, ReadFailed
  <2>7. CASE CloseSession \/ ClockTick \/
             \E p \in Pids : (\E prog \in Programs : StartProcess(p, prog))
                             \/ ExitProcess(p)
    BY <2>1, <2>7 DEF CloseSession, ClockTick, StartProcess, ExitProcess
  <2> QED
    BY <2>4, <2>5, <2>6, <2>7 DEF Next, Thread
<1> QED
  BY <1>1, Inductive, PTL DEF Spec, DelayResetByReadOnly

-----------------------------------------------------------------------------
(* The session implements Source. *)

\* What a failed call is to the sampler.
LEMMA FailedRefuses ==
  ASSUME Inv, schedule_retry, Return("failed", Nothing)
  PROVE  Contract!Refuse
  BY DEF schedule_retry, Return, Contract!Refuse, Contract!Nothing, Nothing,
         Closed

\* What a successful call is to the sampler: bytes for every resolved frame,
\* and for no other.
LEMMA SucceededDelivers ==
  ASSUME Inv, NEW result \in {"available", "degraded"}, verify_identity,
         pc = "verify_read" \/ (pc = "verify_fallback" /\ Complete),
         ReadSucceeded(result)
  PROVE  Contract!Deliver
<1> DEFINE data == [f \in vhal.resolved |-> vhal.identity]
<1>1. /\ connected
      /\ vhal.identity \in Started
      /\ frames = From(vhal.identity, vhal.resolved)
  BY SucceededFacts
<1>2. data \in [vhal.resolved -> Started]
  BY <1>1
<1>3. outcome' = [result |-> result,
                  bytes |-> [f \in FrameIds |->
                    IF f \in vhal.resolved THEN data[f] ELSE Missing]]
  BY <1>1 DEF ReadSucceeded, Return, From
<1>4. UNCHANGED <<vhal, connected, generation>>
  BY DEF ReadSucceeded
<1> QED
  BY Zenon, <1>1, <1>2, <1>3, <1>4 DEF Contract!Deliver

\* What a successful open is to the sampler: the number of generations is
\* within the bound of the contract, because each one that ended did so with
\* the exit of a process or with a fault.
LEMMA ConnectOpens ==
  ASSUME Inv, pc = "verify_open", Connect
  PROVE  Contract!Open
<1>1. /\ ~connected /\ vhal.resolved \in SUBSET FrameIds
      /\ vhal.resolved # {} /\ TypeOK
  BY DEF Inv, TypeOK, Handles, Filled, Opening
<1>2. generation < MaxStarts + MaxFaults + 1
  BY <1>1, DeadFacts, SessionConstants DEF Inv, TypeOK, Accounted, Usable
<1>3. /\ connected' = TRUE /\ vhal' = vhal /\ outcome' = outcome
      /\ generation' = generation + 1
  BY DEF Connect
<1>4. (IF connected THEN vhal.resolved ELSE {})' \in (SUBSET FrameIds) \ {{}}
  BY <1>1, <1>3
<1> QED
  BY <1>1, <1>2, <1>3, <1>4 DEF Contract!Open

\* Every step is one of the contract, or none.
LEMMA NextImplements ==
  ASSUME Inv, [Next]_vars
  PROVE  [Contract!SourceNext]_(Contract!sourceVars)
<1> DEFINE Step == [Contract!SourceNext]_(Contract!sourceVars)
<1>1. CASE schedule_retry /\ Return("failed", Nothing)
  BY <1>1, FailedRefuses DEF Contract!SourceNext
<1>2. CASE /\ UNCHANGED <<connected, generation, outcome>>
           /\ connected => vhal'.resolved = vhal.resolved
  BY <1>2 DEF Contract!sourceVars
<1>3. vhal \in Handles /\ (pc \in Reading => connected)
      /\ (pc \in Opening \cup {"find"} => ~connected)
  BY DEF Inv, TypeOK, Filled
<1>4. ASSUME NEW step, NEW v, Goto(step, v),
             connected => v.resolved = vhal.resolved
      PROVE  Step
  BY <1>2, <1>4 DEF Goto
<1>5. ASSUME NEW f, Fill(f)
      PROVE  Step
  BY <1>2, <1>5 DEF Fill
<1>6. CASE Call
  <2>1. CASE ~connected /\ Return("waiting", Nothing)
             /\ UNCHANGED <<vhal, connected, retry_left, retry_delay, generation>>
    BY <2>1 DEF Return, Contract!SourceNext, Contract!Refuse,
                Contract!Nothing, Nothing
  <2> QED
    BY <1>4, <1>6, <2>1 DEF Call
<1>7. CASE find_pid \/ OpenIdentity \/ ReadExecutable \/ find_mapping_base
           \/ OpenMemory \/ AbortOpen
  <2>1. ~connected
    BY <1>3, <1>7
       DEF find_pid, OpenIdentity, ReadExecutable, find_mapping_base,
           OpenMemory, AbortOpen, Opening
  <2>2. \/ OpenFailed
        \/ \E step, v : Goto(step, v)
    BY Zenon, <1>7
       DEF find_pid, OpenIdentity, ReadExecutable, find_mapping_base,
           OpenMemory, AbortOpen
  <2> QED
    BY <1>1, <1>4, <2>1, <2>2 DEF OpenFailed
<1>8. CASE VerifyOpen
  BY <1>1, <1>8, ConnectOpens
     DEF VerifyOpen, OpenFailed, Contract!SourceNext
<1>9. CASE ProcessVmReadv \/ SkipVmReadv \/ ReopenMemory \/ ReadFrames
  <2>1. /\ \A n : [vhal EXCEPT !.vm_left = n].resolved = vhal.resolved
        /\ \A n : [vhal EXCEPT !.memory = n].resolved = vhal.resolved
    BY <1>3 DEF Handles
  <2> QED
    BY Zenon, <1>1, <1>4, <1>5, <1>9, <2>1
       DEF ProcessVmReadv, SkipVmReadv, ReopenMemory, ReadFrames, ReadFailed
<1>10. CASE VerifyRead \/ AbortVerify
  BY <1>1, <1>10, SucceededDelivers
     DEF VerifyRead, AbortVerify, ReadFailed, Contract!SourceNext
<1>11. CASE CloseSession
  BY <1>11 DEF CloseSession, Closed, Contract!SourceNext, Contract!Close
<1>12. CASE ClockTick
  BY <1>2, <1>3, <1>12 DEF ClockTick, Handles
<1>13. CASE \E p \in Pids : (\E prog \in Programs : StartProcess(p, prog))
                            \/ ExitProcess(p)
  BY <1>2, <1>13 DEF StartProcess, ExitProcess
<1>14. CASE UNCHANGED vars
  BY <1>2, <1>14 DEF vars
<1> QED
  BY <1>6, <1>7, <1>8, <1>9, <1>10, <1>11, <1>12, <1>13, <1>14
     DEF Next, Thread

\* source_session.c:61 "A failed source must never publish a partially fresh
\* snapshot": the session with its system calls, faults and retries
\* implements what Source promises the sampler.
THEOREM Refines == Spec => ImplementsSource
<1>1. Init => Contract!SourceInit
  BY DEF Init, Contract!SourceInit, Contract!Nothing, Nothing
<1>2. Inv /\ [Next]_vars => [Contract!SourceNext]_(Contract!sourceVars)
  BY NextImplements
<1> QED
  BY <1>1, <1>2, Inductive, PTL
     DEF Spec, ImplementsSource, Contract!SourceSpec
=============================================================================

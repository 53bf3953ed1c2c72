--------------------------- MODULE ExecuterProofs ---------------------------
(***************************************************************************)
(* Proofs about Executer, for any number of jobs.                          *)
(***************************************************************************)
EXTENDS Executer, SequenceTheorems, TLAPS

\* Only the executer's work on a batch leaves anything in execIn.
BatchIsTaken == pc # "execute" => execIn = <<>>

Inv == TypeOK /\ BatchIsTaken

LEMMA InitInv == Init => Inv
  <1> SUFFICES ASSUME Init PROVE Inv
    OBVIOUS
  <1>1. raftOut \in Seq(Job) /\ execIn \in Seq(Job) /\ executed \in Seq(Job) /\ queued \in Nat
    BY DEF Init
  <1>2. /\ noBlock \in BOOLEAN /\ waiting \in BOOLEAN /\ committing \in BOOLEAN
        /\ keepRunning \in BOOLEAN /\ spurious \in BOOLEAN /\ pc \in PC /\ execIn = <<>>
    BY DEF Init, PC
  <1> QED BY <1>1, <1>2 DEF Inv, TypeOK, BatchIsTaken

LEMMA NextInv == Inv /\ [Next]_vars => Inv'
  <1> SUFFICES ASSUME Inv, [Next]_vars PROVE Inv'
    OBVIOUS
  <1> USE ExecuterAssumption DEF Inv, TypeOK, BatchIsTaken, PC, signalVars
  <1>1. CASE Lock
    BY <1>1 DEF Lock
  <1>2. CASE Queue
    <2>1. queued + 1 \in Job
      BY <1>2 DEF Queue, Job
    <2>2. raftOut' \in Seq(Job) /\ queued' \in Nat
      BY <1>2, <2>1 DEF Queue
    <2> QED BY <1>2, <2>2 DEF Queue
  <1>3. CASE Signal
    BY <1>3 DEF Signal
  <1>4. CASE End
    BY <1>4 DEF End
  <1>5. CASE Wait
    BY <1>5 DEF Wait
  <1>6. CASE Wake \/ WakeSpuriously
    BY <1>6 DEF Wake, WakeSpuriously
  <1>7. CASE Swap
    BY <1>7 DEF Swap
  <1>8. CASE Execute
    <2>1. executed' \in Seq(Job) /\ execIn' \in Seq(Job)
      BY <1>8 DEF Execute
    <2> QED BY <1>8, <2>1 DEF Execute
  <1>9. CASE Executed
    BY <1>9 DEF Executed
  <1>10. CASE Stop
    BY <1>10 DEF Stop
  <1>11. CASE UNCHANGED vars
    BY <1>11 DEF vars
  <1> QED BY <1>1, <1>2, <1>3, <1>4, <1>5, <1>6, <1>7, <1>8, <1>9, <1>10, <1>11
          DEF Next, ExecuterImpl

\* Types.
THEOREM ExecuterTypes == Spec => []TypeOK
  <1>1. Inv => TypeOK
    BY DEF Inv
  <1> QED BY <1>1, InitInv, NextInv, PTL DEF Spec

-----------------------------------------------------------------------------
(***************************************************************************)
(* No lost wakeup, as long as cvar.wait returns only when notified: the    *)
(* flag waiting then says whether the executer is in cvar.wait, and        *)
(* whenever there are jobs, a signal is on its way, registered, or being   *)
(* obeyed.                                                                 *)
(***************************************************************************)
WakeupInv == ~spurious =>
    /\ waiting <=> pc = "blocked"
    /\ waiting => ~noBlock
    /\ raftOut # <<>> => committing \/ noBlock \/ pc \in {"woken", "swap"}

LEMMA NextWakeupInv ==
    ASSUME Inv, WakeupInv, [Next]_vars
    PROVE  WakeupInv'
  <1> USE DEF Inv, TypeOK, WakeupInv, BatchIsTaken, PC, signalVars
  <1>1. CASE Lock
    BY <1>1 DEF Lock
  <1>2. CASE Queue
    BY <1>2 DEF Queue
  <1>3. CASE Signal
    BY <1>3 DEF Signal
  <1>4. CASE End
    BY <1>4 DEF End
  <1>5. CASE Wait
    BY <1>5 DEF Wait
  <1>6. CASE Wake \/ WakeSpuriously
    BY <1>6 DEF Wake, WakeSpuriously
  <1>7. CASE Swap
    BY <1>7 DEF Swap
  <1>8. CASE Execute \/ Executed \/ Stop
    BY <1>8 DEF Execute, Executed, Stop
  <1>9. CASE UNCHANGED vars
    BY <1>9 DEF vars
  <1> QED BY <1>1, <1>2, <1>3, <1>4, <1>5, <1>6, <1>7, <1>8, <1>9 DEF Next, ExecuterImpl

\* NoLostWakeup for any number of jobs: signal() and wait() lose no job, however
\* they interleave, as long as cvar.wait has not returned spuriously.
THEOREM NoJobIsSleptOn == Spec => []NoLostWakeup
  <1> DEFINE I == Inv /\ WakeupInv
  <1>1. Init => I
    BY InitInv DEF Init, WakeupInv
  <1>2. I /\ [Next]_vars => I'
    BY NextInv, NextWakeupInv
  <1>3. I => NoLostWakeup
    BY DEF WakeupInv, NoLostWakeup
  <1> QED BY <1>1, <1>2, <1>3, PTL DEF Spec

-----------------------------------------------------------------------------
\* Sequences.
LEMMA AppendToConcat ==
    ASSUME NEW S, NEW s \in Seq(S), NEW t \in Seq(S), NEW x \in S
    PROVE  s \o Append(t, x) = Append(s \o t, x)
  OBVIOUS

LEMMA HeadTailOfConcat ==
    ASSUME NEW S, NEW s \in Seq(S), NEW t \in Seq(S), s # <<>>
    PROVE  /\ s \o t # <<>>
           /\ Head(s \o t) = Head(s)
           /\ Tail(s \o t) = Tail(s) \o t
  OBVIOUS

LEMMA EmptyConcat ==
    ASSUME NEW S, NEW t \in Seq(S)
    PROVE  <<>> \o t = t /\ t \o <<>> = t
  OBVIOUS

\* ImplementsWorkQueue for any number of jobs, spurious wakeups and stop() included:
\* whatever the executer does is an execution of the oldest job handed over.
THEOREM ExecuterImplementsWorkQueue == Spec => ImplementsWorkQueue
  <1>1. Init => Abstract!Init
    BY DEF Init, Abstract!Init
  <1>2. Inv /\ [Next]_vars => [Abstract!Next]_<<execIn \o raftOut, executed>>
    <2> SUFFICES ASSUME Inv, [Next]_vars
                 PROVE  \/ Abstract!Next
                        \/ UNCHANGED <<execIn \o raftOut, executed>>
      OBVIOUS
    <2>1. execIn \in Seq(Job) /\ raftOut \in Seq(Job)
      BY DEF Inv, TypeOK
    <2>2. CASE Queue
      <3>1. queued + 1 \in Job
        BY <2>2, ExecuterAssumption DEF Queue, Job, Inv, TypeOK
      <3>2. (execIn \o raftOut)' = Append(execIn \o raftOut, queued + 1)
        BY <2>1, <2>2, <3>1, AppendToConcat DEF Queue
      <3> QED BY <2>2, <3>1, <3>2 DEF Queue, Abstract!Next, Abstract!HandOver
    <2>3. CASE Execute
      <3>1. /\ execIn \o raftOut # <<>>
            /\ Head(execIn \o raftOut) = Head(execIn)
            /\ Tail(execIn \o raftOut) = Tail(execIn) \o raftOut
        BY <2>1, <2>3, HeadTailOfConcat DEF Execute
      <3> QED BY <2>3, <3>1 DEF Execute, Abstract!Next, Abstract!Execute
    <2>4. CASE Swap
      <3>1. execIn = <<>> /\ execIn' = raftOut /\ raftOut' = execIn
        BY <2>4 DEF Swap, Inv, BatchIsTaken
      <3>2. (execIn \o raftOut)' = execIn \o raftOut
        BY <2>1, <3>1, EmptyConcat
      <3> QED BY <2>4, <3>2 DEF Swap
    <2>5. CASE Lock \/ Signal \/ End \/ Wait \/ Wake \/ WakeSpuriously \/ Executed \/ Stop \/ UNCHANGED vars
      BY <2>5 DEF Lock, Signal, End, Wait, Wake, WakeSpuriously, Executed, Stop, vars
    <2> QED BY <2>2, <2>3, <2>4, <2>5 DEF Next, ExecuterImpl
  <1> QED BY <1>1, <1>2, InitInv, NextInv, PTL DEF Spec, ImplementsWorkQueue, Abstract!Spec

-----------------------------------------------------------------------------
\* More sequences: what moves between the three lists.
LEMMA MoveHead ==
    ASSUME NEW S, NEW s \in Seq(S), NEW t \in Seq(S), NEW u \in Seq(S), t # <<>>
    PROVE  Append(s, Head(t)) \o Tail(t) \o u = s \o t \o u
  <1>1. Append(s, Head(t)) \o Tail(t) = s \o t
    OBVIOUS
  <1> QED BY <1>1

LEMMA MoveAll ==
    ASSUME NEW S, NEW s \in Seq(S), NEW t \in Seq(S)
    PROVE  s \o t \o <<>> = s \o <<>> \o t
  <1>1. s \o t \in Seq(S) /\ s \o <<>> = s
    OBVIOUS
  <1> QED BY <1>1, EmptyConcat

\* All jobs of the three lists together, oldest first.
All == executed \o execIn \o raftOut

LEMMA NextInOrder ==
    ASSUME Inv, InOrder, [Next]_vars
    PROVE  InOrder'
  <1>1. executed \in Seq(Job) /\ execIn \in Seq(Job) /\ raftOut \in Seq(Job) /\ queued \in Nat
    BY DEF Inv, TypeOK
  <1>2. All \in Seq(Job) /\ Len(All) = queued /\ \A i \in DOMAIN All : All[i] = i
    BY <1>1 DEF All, InOrder
  <1>3. CASE All' = All /\ queued' = queued
    BY <1>2, <1>3 DEF All, InOrder
  <1>4. CASE Queue
    <2>1. queued + 1 \in Job
      BY <1>4, ExecuterAssumption DEF Queue, Job, Inv, TypeOK
    <2>2. executed \o execIn \in Seq(Job)
      BY <1>1
    <2>3. All' = Append(All, queued + 1) /\ queued' = queued + 1
      <3>1. /\ executed' = executed /\ execIn' = execIn /\ queued' = queued + 1
            /\ raftOut' = Append(raftOut, queued + 1)
        BY <1>4 DEF Queue
      <3>2. \A S, n : \A u \in Seq(S), v \in Seq(S) : n \in S => u \o Append(v, n) = Append(u \o v, n)
        BY AppendToConcat
      <3>3. (executed \o execIn) \o Append(raftOut, queued + 1)
               = Append((executed \o execIn) \o raftOut, queued + 1)
        BY <1>1, <2>1, <2>2, <3>2
      <3> QED BY <3>1, <3>3 DEF All
    <2>4. Len(All') = queued + 1 /\ \A i \in DOMAIN All' : All'[i] = i
      BY <1>1, <1>2, <2>1, <2>3
    <2> QED BY <2>3, <2>4 DEF All, InOrder
  <1>5. CASE Execute
    <2>1. All' = All
      BY <1>1, <1>5, MoveHead DEF All, Execute
    <2> QED BY <1>3, <1>5, <2>1 DEF Execute
  <1>6. CASE Swap
    <2>1. execIn = <<>> /\ execIn' = raftOut /\ raftOut' = <<>> /\ executed' = executed
      BY <1>6 DEF Swap, Inv, BatchIsTaken
    <2>2. All' = All
      BY <1>1, <2>1, MoveAll DEF All
    <2> QED BY <1>3, <1>6, <2>2 DEF Swap
  <1>7. CASE Lock \/ Signal \/ End \/ Wait \/ Wake \/ WakeSpuriously \/ Executed \/ Stop \/ UNCHANGED vars
    BY <1>3, <1>7 DEF Lock, Signal, End, Wait, Wake, WakeSpuriously, Executed, Stop, vars, All
  <1> QED BY <1>4, <1>5, <1>6, <1>7 DEF Next, ExecuterImpl

\* InOrder for any number of jobs: however commits, spurious wakeups and the
\* swap of the lists interleave, executerImpl executes every job once and in
\* the order of commits.
THEOREM JobsInOrder == Spec => []InOrder
  <1> DEFINE I == Inv /\ InOrder
  <1>1. Init => I
    <2> SUFFICES ASSUME Init PROVE InOrder
      BY InitInv
    <2>1. All = <<>> /\ queued = 0
      BY DEF Init, All
    <2> QED BY <2>1 DEF All, InOrder
  <1>2. I /\ [Next]_vars => I'
    BY NextInv, NextInOrder
  <1> QED BY <1>1, <1>2, PTL DEF Spec
=============================================================================

------------------------------ MODULE Executer ------------------------------
(***************************************************************************)
(* The executer thread of a replica (RaftManager::executerImpl) and the    *)
(* TimeTravelSignal that wakes it up (ohmyraft/TimeTravelSignal.H).        *)
(*                                                                         *)
(* A thread that moves CommitIndex holds state_.Mut, so there is one at a  *)
(* time.  Under raftOutMutex_ it queues the committed operations and then  *)
(* signals; the executer takes the queue under the same mutex, but waits   *)
(* without it, so every step of a commit can fall between two steps of     *)
(* wait().  A job is its place in the order of commits.                    *)
(***************************************************************************)
EXTENDS Naturals, Sequences

CONSTANT
    MaxJobs     \* bound: jobs committed in a behaviour

ASSUME ExecuterAssumption == MaxJobs \in Nat

VARIABLES
    noBlock, waiting,    \* the fields of TimeTravelSignal
    pc,                  \* the executer
    committing,          \* a thread holds raftOutMutex_: it queues jobs and
                         \* has not yet signalled
    raftOut, execIn,     \* the lists of jobs
    queued,              \* how many jobs were committed
    executed,            \* the jobs executed
    keepRunning,
    spurious             \* history: cvar.wait returned without a notification

signalVars == <<noBlock, waiting>>
vars == <<signalVars, pc, committing, raftOut, execIn, queued, executed, keepRunning, spurious>>

Job == 1..MaxJobs

\* run: at the head of the loop; blocked: in cvar.wait; woken: notified, about
\* to return from it; swap: wait() has returned; execute: working on execIn.
PC == {"run", "blocked", "woken", "swap", "execute", "ended"}

Init ==
    /\ noBlock = FALSE
    /\ waiting = FALSE
    /\ pc = "run"
    /\ committing = FALSE
    /\ raftOut = <<>>
    /\ execIn = <<>>
    /\ queued = 0
    /\ executed = <<>>
    /\ keepRunning = TRUE
    /\ spurious = FALSE

-----------------------------------------------------------------------------
\* A thread that moves CommitIndex locks raftOutMutex_, queues the jobs between
\* LastApplied and CommitIndex (none if the log is too short) ...
Lock ==
    /\ ~committing
    /\ committing' = TRUE
    /\ UNCHANGED <<signalVars, pc, raftOut, execIn, queued, executed, keepRunning, spurious>>

\* Mutation: the loop starts at LastApplied.
FromLastApplied ==
    /\ committing
    /\ queued < MaxJobs
    /\ queued' = queued + 1
    /\ raftOut' = Append(raftOut, queued)
    /\ UNCHANGED <<signalVars, pc, committing, execIn, executed, keepRunning, spurious>>

Queue ==
    /\ committing
    /\ queued < MaxJobs
    /\ queued' = queued + 1
    /\ raftOut' = Append(raftOut, queued + 1)
    /\ UNCHANGED <<signalVars, pc, committing, execIn, executed, keepRunning, spurious>>

\* Mutation: a signal that finds nobody waiting is dropped.
NotRegistered ==
    /\ committing
    /\ committing' = FALSE
    /\ waiting' = FALSE
    /\ pc' = IF pc = "blocked" THEN "woken" ELSE pc
    /\ UNCHANGED <<noBlock, raftOut, execIn, queued, executed, keepRunning, spurious>>

\* ... and signals.  notify_all wakes the executer if it is in cvar.wait.
Signal ==
    /\ committing
    /\ committing' = FALSE
    /\ \/ /\ noBlock
          /\ UNCHANGED <<signalVars, pc>>
       \/ /\ ~noBlock /\ waiting
          /\ waiting' = FALSE
          /\ pc' = IF pc = "blocked" THEN "woken" ELSE pc
          /\ UNCHANGED noBlock
       \/ /\ ~noBlock /\ ~waiting
          /\ noBlock' = TRUE
          /\ UNCHANGED <<waiting, pc>>
    /\ UNCHANGED <<raftOut, execIn, queued, executed, keepRunning, spurious>>

-----------------------------------------------------------------------------
\* The executer finds the switch off at the head of its loop.
End ==
    /\ pc = "run"
    /\ ~keepRunning
    /\ pc' = "ended"
    /\ UNCHANGED <<signalVars, committing, raftOut, execIn, queued, executed, keepRunning, spurious>>

\* Mutation: a signal registered earlier is not looked at.
AlwaysBlock ==
    /\ pc = "run"
    /\ keepRunning
    /\ waiting' = TRUE
    /\ pc' = "blocked"
    /\ UNCHANGED <<noBlock, committing, raftOut, execIn, queued, executed, keepRunning, spurious>>

\* Mutation: the loop does not look at the switch.
WaitRegardless ==
    /\ pc = "run"
    /\ noBlock' = FALSE
    /\ waiting' = ~noBlock
    /\ pc' = IF noBlock THEN "swap" ELSE "blocked"
    /\ UNCHANGED <<committing, raftOut, execIn, queued, executed, keepRunning, spurious>>

\* wait(): return at once, or block.
Wait ==
    /\ pc = "run"
    /\ keepRunning
    /\ \/ /\ waiting                      \* "this shouldn't happen"
          /\ pc' = "swap"
          /\ UNCHANGED signalVars
       \/ /\ ~waiting /\ noBlock
          /\ noBlock' = FALSE
          /\ pc' = "swap"
          /\ UNCHANGED waiting
       \/ /\ ~waiting /\ ~noBlock
          /\ waiting' = TRUE
          /\ pc' = "blocked"
          /\ UNCHANGED noBlock
    /\ UNCHANGED <<committing, raftOut, execIn, queued, executed, keepRunning, spurious>>

\* cvar.wait returns, with miniLock.
Wake ==
    /\ pc = "woken"
    /\ pc' = "swap"
    /\ UNCHANGED <<signalVars, committing, raftOut, execIn, queued, executed, keepRunning, spurious>>

\* cvar.wait has no predicate: it may return without a notification, and the
\* flag waiting stays set.
WakeSpuriously ==
    /\ pc = "blocked"
    /\ pc' = "swap"
    /\ spurious' = TRUE
    /\ UNCHANGED <<signalVars, committing, raftOut, execIn, queued, executed, keepRunning>>

\* Mutation: the list is copied, not swapped.
Copy ==
    /\ pc = "swap"
    /\ ~committing
    /\ execIn' = raftOut
    /\ pc' = "execute"
    /\ UNCHANGED <<signalVars, committing, raftOut, queued, executed, keepRunning, spurious>>

\* Under raftOutMutex_.
Swap ==
    /\ pc = "swap"
    /\ ~committing
    /\ execIn' = raftOut
    /\ raftOut' = execIn
    /\ pc' = "execute"
    /\ UNCHANGED <<signalVars, committing, queued, executed, keepRunning, spurious>>

\* Mutation: the last job of the list is executed first.
ExecuteLast ==
    /\ pc = "execute"
    /\ execIn # <<>>
    /\ executed' = Append(executed, execIn[Len(execIn)])
    /\ execIn' = SubSeq(execIn, 1, Len(execIn) - 1)
    /\ UNCHANGED <<signalVars, pc, committing, raftOut, queued, keepRunning, spurious>>

Execute ==
    /\ pc = "execute"
    /\ execIn # <<>>
    /\ executed' = Append(executed, Head(execIn))
    /\ execIn' = Tail(execIn)
    /\ UNCHANGED <<signalVars, pc, committing, raftOut, queued, keepRunning, spurious>>

Executed ==
    /\ pc = "execute"
    /\ execIn = <<>>
    /\ pc' = "run"
    /\ UNCHANGED <<signalVars, committing, raftOut, execIn, queued, executed, keepRunning, spurious>>

\* stop() turns the switch off and then waits for the executer to end.
Stop ==
    /\ keepRunning
    /\ keepRunning' = FALSE
    /\ UNCHANGED <<signalVars, pc, committing, raftOut, execIn, queued, executed, spurious>>

ExecuterImpl == End \/ Wait \/ Wake \/ WakeSpuriously \/ Swap \/ Execute \/ Executed
Next == Lock \/ Queue \/ Signal \/ ExecuterImpl \/ Stop

Spec == Init /\ [][Next]_vars

\* A thread that holds raftOutMutex_ goes on, and the executer is scheduled.  It
\* gets raftOutMutex_ if that is free again and again: between two commits lies
\* an RPC.  A wakeup without a notification is possible but not owed.
FairSpec ==
    /\ Spec
    /\ WF_vars(Signal)
    /\ WF_vars(End \/ Wait \/ Wake \/ Execute \/ Executed)
    /\ SF_vars(Swap)

-----------------------------------------------------------------------------
\* Types of the executer's state and of its signal.
TypeOK ==
    /\ noBlock \in BOOLEAN
    /\ waiting \in BOOLEAN
    /\ pc \in PC
    /\ committing \in BOOLEAN
    /\ raftOut \in Seq(Job)
    /\ execIn \in Seq(Job)
    /\ queued \in Nat
    /\ executed \in Seq(Job)
    /\ keepRunning \in BOOLEAN
    /\ spurious \in BOOLEAN

\* "the notifying thread can just register the signal (for the future)": the
\* executer does not sleep on a queue of jobs once their thread has signalled.
\* Only a spurious wakeup can break this: the next signal() then finds waiting
\* set and notifies nobody.
NoLostWakeup == pc = "blocked" /\ raftOut # <<>> /\ ~spurious => committing

\* The jobs are executed in the order of commits, none twice and none skipped.
InOrder ==
    LET all == executed \o execIn \o raftOut
    IN  Len(all) = queued /\ \A i \in DOMAIN all : all[i] = i

\* The executer and its lists are a work queue: executerImpl executes the oldest
\* job that was handed over and not executed, and does nothing else to the jobs.
Abstract == INSTANCE WorkQueue WITH Job <- Job, pending <- execIn \o raftOut, done <- executed
ImplementsWorkQueue == Abstract!Spec

\* A committed job is executed eventually, unless the process is being stopped or
\* a spurious wakeup upset the signal.
JobsGetDone ==
    [](keepRunning /\ ~spurious) => \A n \in Job : (queued >= n) ~> (Len(executed) >= n)

\* "single switch to break out of all threads (gracefully)": after stop() the
\* executer ends, so that the join in stop() returns, if commits go on.  Nothing
\* but a commit wakes an executer that is waiting.
StopReturns == ([]<><<Signal>>_vars) => (~keepRunning ~> pc = "ended")
=============================================================================

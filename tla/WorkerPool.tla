----------------------------- MODULE WorkerPool -----------------------------
(***************************************************************************)
(* The pool of goroutines that reads every brand's bars: runScreening-     *)
(* Workers of the daily picks and runWorkers of the strategy ranking have  *)
(* the same design.  A feeder hands the brands out over an unbuffered      *)
(* channel, each worker keeps its own results, and the first error cancels *)
(* the context all of them share (errgroup.WithContext).                   *)
(***************************************************************************)
EXTENDS Naturals, Sequences, FiniteSets, SequencesExt

CONSTANTS Jobs,           \* the brands, in the order the feeder sends them
          WorkerCount,    \* the fixed number of workers
          Eligible,       \* the brands whose bars give a result
          MaxReadFaults   \* bound: reads that fail although nobody cancelled

Workers == 1..WorkerCount

VARIABLES given,      \* how many brands the feeder has sent
          feeding,    \* the channel is open
          job,        \* per worker: the position of its brand, 0 while it receives
          left,       \* the workers whose goroutine has returned
          kept,       \* per worker: the brands of its local results
          cancelled,  \* the shared context is cancelled
          readFaults  \* the failures so far

poolVars == <<given, feeding, job, left, kept, cancelled, readFaults>>

FreshPool ==
    /\ given' = 0 /\ feeding' = TRUE /\ cancelled' = FALSE /\ left' = {}
    /\ job' = [w \in Workers |-> 0] /\ kept' = [w \in Workers |-> <<>>]
    /\ UNCHANGED readFaults

Receiving(w) == w \notin left /\ job[w] = 0
Busy(w) == job[w] # 0
CanHand(w) == feeding /\ given < Len(Jobs) /\ Receiving(w)

\* The channel has no buffer: sending and receiving are one step.  The select
\* may still take this branch after the context was cancelled.
Hand(w) ==
    /\ CanHand(w)
    /\ given' = given + 1
    /\ job' = [job EXCEPT ![w] = given + 1]
    /\ UNCHANGED <<feeding, left, kept, cancelled, readFaults>>

\* Mutant of StopFeeding: the feeder does not look at the context.
StopWhenSent == given = Len(Jobs)

\* The feeder closes the channel when everything is sent, or on cancellation.
StopFeeding == given = Len(Jobs) \/ cancelled

CanClose == feeding /\ StopFeeding

CloseJobs ==
    /\ CanClose
    /\ feeding' = FALSE
    /\ UNCHANGED <<given, job, left, kept, cancelled, readFaults>>

\* A brand without a result is skipped and the worker takes the next one.
KeptWith(w) ==
    IF Jobs[job[w]] \in Eligible THEN Append(kept[w], Jobs[job[w]]) ELSE kept[w]

Work(w) ==
    /\ Busy(w)
    /\ kept' = [kept EXCEPT ![w] = KeptWith(w)]
    /\ job' = [job EXCEPT ![w] = 0]
    /\ UNCHANGED <<given, feeding, left, cancelled, readFaults>>

\* The read fails, of itself or because the context it was given is cancelled.
ReadFails(w) ==
    /\ Busy(w)
    /\ \/ cancelled /\ UNCHANGED readFaults
       \/ ~cancelled /\ readFaults < MaxReadFaults /\ readFaults' = readFaults + 1
    /\ job' = [job EXCEPT ![w] = 0]
    /\ left' = left \cup {w}
    /\ cancelled' = TRUE
    /\ UNCHANGED <<given, feeding, kept>>

CanLeave(w) == ~feeding /\ Receiving(w)

Leave(w) ==
    /\ CanLeave(w)
    /\ left' = left \cup {w}
    /\ UNCHANGED <<given, feeding, job, kept, cancelled, readFaults>>

PoolStep ==
    \/ CloseJobs
    \/ \E w \in Workers : Hand(w) \/ Work(w) \/ ReadFails(w) \/ Leave(w)

\* Some goroutine has a next step: each of these guards is all its step asks for.
SomeoneCanMove ==
    CanClose \/ \E w \in Workers : CanHand(w) \/ Busy(w) \/ CanLeave(w)

\* g.Wait() returns: every goroutine of the group has returned.
Ended == ~feeding /\ left = Workers

\* The local results, one worker's after the other's.
Gathered == FlattenSeq([w \in Workers |-> kept[w]])
=============================================================================

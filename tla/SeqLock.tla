-------------------------------- MODULE SeqLock --------------------------------
(***************************************************************************)
(* SeqlockU64 (starplayer-host-embedded/src/seqlock.rs): a 64-bit value    *)
(* published in two 32-bit halves and a version, which is odd while they   *)
(* are written.  The writer never waits; a reader that has met a write     *)
(* tries again, a bounded number of times.                                 *)
(*                                                                         *)
(* Every access is a step.  Each store is a release and each load an       *)
(* acquire, so neither side's accesses pass each other.  The version does  *)
(* not wrap here: the code's does after 2^31 stores, and only a reader     *)
(* that sleeps through exactly as many between two loads could tell.       *)
(***************************************************************************)
EXTENDS Naturals

CONSTANTS
    Halves,         \* what a half may hold
    Initial,        \* both halves of a fresh slot
    ReadAttempts,   \* READ_ATTEMPTS
    MaxStores       \* bound: stores

ASSUME HalvesAssumption == Initial \in Halves \X Halves
ASSUME AttemptsAssumption == ReadAttempts \in Nat \ {0} /\ MaxStores \in Nat

VARIABLES
    version, low, high,          \* the slot
    writing, next,               \* where the store is, and the value it stores
    reading, attempt,            \* where the load is, and which attempt
    before, seenLow, seenHigh,   \* what it has read
    stored,                      \* the value of the last store that is complete
    answer                       \* the last load's: [sure, value]

slot == <<version, low, high>>
writer == <<writing, next, stored>>
reader == <<reading, attempt, before, seenLow, seenHigh, answer>>
wordVars == <<slot, writer, reader>>

Even(number) == number % 2 = 0

-----------------------------------------------------------------------------
(* SeqlockU64::store. *)

Open ==
    /\ writing = "idle" /\ version < 2 * MaxStores
    /\ version' = version + 1
    /\ next' \in Halves \X Halves
    /\ writing' = "low"
    /\ UNCHANGED <<low, high, stored, reader>>

StoreLow ==
    /\ writing = "low"
    /\ low' = next[1]
    /\ writing' = "high"
    /\ UNCHANGED <<version, high, next, stored, reader>>

StoreHigh ==
    /\ writing = "high"
    /\ high' = next[2]
    /\ writing' = "close"
    /\ UNCHANGED <<version, low, next, stored, reader>>

Close ==
    /\ writing = "close"
    /\ version' = version + 1
    /\ stored' = next
    /\ writing' = "idle"
    /\ UNCHANGED <<low, high, next, reader>>

-----------------------------------------------------------------------------
(* SeqlockU64::load. *)

Begin ==
    /\ reading = "idle"
    /\ attempt' = 1
    /\ reading' = "version"
    /\ UNCHANGED <<slot, writer, before, seenLow, seenHigh, answer>>

ReadVersion ==
    /\ reading = "version"
    /\ before' = version
    /\ reading' = "low"
    /\ UNCHANGED <<slot, writer, attempt, seenLow, seenHigh, answer>>

ReadLow ==
    /\ reading = "low"
    /\ seenLow' = low
    /\ reading' = "high"
    /\ UNCHANGED <<slot, writer, attempt, before, seenHigh, answer>>

ReadHigh ==
    /\ reading = "high"
    /\ seenHigh' = high
    /\ reading' = "check"
    /\ UNCHANGED <<slot, writer, attempt, before, seenLow, answer>>

\* Mutant of Undisturbed: an odd version that has not moved will do.
UnmovedVersion == version = before

Undisturbed == Even(before) /\ version = before

Answer(sure) ==
    /\ answer' = [sure |-> sure, value |-> <<seenLow, seenHigh>>]
    /\ reading' = "idle"
    /\ UNCHANGED attempt

TryAgain == attempt' = attempt + 1 /\ reading' = "version" /\ UNCHANGED answer

\* The halves are whole, or there is another attempt, or they are returned as they are.
Check ==
    /\ reading = "check"
    /\ IF Undisturbed THEN Answer(TRUE)
       ELSE IF attempt < ReadAttempts THEN TryAgain
       ELSE Answer(FALSE)
    /\ UNCHANGED <<slot, writer, before, seenLow, seenHigh>>

-----------------------------------------------------------------------------
WordInit ==
    /\ version = 0 /\ low = Initial[1] /\ high = Initial[2]
    /\ writing = "idle" /\ next = Initial /\ stored = Initial
    /\ reading = "idle" /\ attempt = 1 /\ before = 0
    /\ seenLow = Initial[1] /\ seenHigh = Initial[2]
    /\ answer = [sure |-> TRUE, value |-> Initial]

Store == Open \/ StoreLow \/ StoreHigh \/ Close
Load == Begin \/ ReadVersion \/ ReadLow \/ ReadHigh \/ Check
WordNext == Store \/ Load

WordSpec == WordInit /\ [][WordNext]_wordVars

-----------------------------------------------------------------------------
WordTypeOK ==
    /\ version \in Nat /\ low \in Halves /\ high \in Halves
    /\ writing \in {"idle", "low", "high", "close"}
    /\ next \in Halves \X Halves /\ stored \in Halves \X Halves
    /\ reading \in {"idle", "version", "low", "high", "check"} /\ attempt \in 1 .. ReadAttempts
    /\ before \in Nat /\ seenLow \in Halves /\ seenHigh \in Halves
    /\ answer \in [sure : BOOLEAN, value : Halves \X Halves]

\* The slot is a register: a load that does not give up answers, whatever stores it has
\* overlapped, with the value of the store that was the last one complete at the moment
\* the load is done (SeqlockU64::load; with it "reads back whole").
Abstract == INSTANCE Register WITH value <- stored, got <- answer
IsRegister == Abstract!Spec
================================================================================

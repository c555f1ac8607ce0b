---------------------------- MODULE FactScheduler ----------------------------
(***************************************************************************)
(* core/factExtractionScheduler.ts: utterances are buffered and handed to  *)
(* the extraction in batches, after idleMs of quiet or as soon as          *)
(* maxUtterances have accumulated.  The operators are the steps of its     *)
(* users; the quiet period is only "the timer may fire while it is armed". *)
(***************************************************************************)
EXTENDS Naturals, Sequences

CONSTANT maxUtterances

VARIABLES
  buffer,     \* utterances waiting for an extraction pass
  timerArmed, \* timer # undefined
  batches     \* history: the batches handed to runExtraction

schedulerVars == <<buffer, timerArmed, batches>>

ASSUME SchedulerAssumption == maxUtterances \in Nat \ {0}

SchedulerInit ==
  /\ buffer = <<>>
  /\ timerArmed = FALSE
  /\ batches = <<>>

\* Mutant: the buffer is handed over but not replaced by a fresh one.
flushKeeping(buffered) ==
  /\ timerArmed' = FALSE
  /\ batches' = IF buffered = <<>> THEN batches ELSE Append(batches, buffered)
  /\ buffer' = buffered

\* flush(), called with what the buffer holds by then.
flush(buffered) ==
  /\ timerArmed' = FALSE
  /\ batches' = IF buffered = <<>> THEN batches ELSE Append(batches, buffered)
  /\ buffer' = <<>>

\* Mutant: the quiet-period timer is cleared and never armed again.
onUtteranceUnarmed(u) ==
  LET buffered == Append(buffer, u) IN
    IF Len(buffered) >= maxUtterances
    THEN flush(buffered)
    ELSE /\ buffer' = buffered
         /\ timerArmed' = FALSE
         /\ UNCHANGED batches

\* Mutant: the cap is compared before the utterance is counted.
onUtteranceLateCap(u) ==
  LET buffered == Append(buffer, u) IN
    IF Len(buffer) >= maxUtterances
    THEN flush(buffered)
    ELSE /\ buffer' = buffered
         /\ timerArmed' = TRUE
         /\ UNCHANGED batches

onUtterance(u) ==
  LET buffered == Append(buffer, u) IN
    IF Len(buffered) >= maxUtterances
    THEN flush(buffered)
    ELSE /\ buffer' = buffered
         /\ timerArmed' = TRUE
         /\ UNCHANGED batches

QuietPeriodEnds ==
  /\ timerArmed
  /\ flush(buffer)

\* No utterance waits without a timer to flush it, and none past the cap: a
\* session that goes quiet, or one that never does, still gets its passes.
BufferIsGuarded ==
  /\ timerArmed <=> buffer # <<>>
  /\ Len(buffer) < maxUtterances
=============================================================================

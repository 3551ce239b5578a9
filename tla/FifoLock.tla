------------------------------ MODULE FifoLock ------------------------------
(***************************************************************************)
(* What one FileLockService instance promises its callers inside a         *)
(* process (the comments of src/infrastructure/file-lock-service.ts on     *)
(* acquireLock and _releaseTurn): callers are served one at a time, in the *)
(* order they came, and only the first in line may give up.                *)
(***************************************************************************)
EXTENDS Naturals, Sequences

CONSTANTS Flow, NoFlow

VARIABLES line, holder

vars == <<line, holder>>

InLine(f) == \E i \in 1..Len(line) : line[i] = f

Init == line = <<>> /\ holder = NoFlow

Join(f) ==
  /\ f # holder /\ ~InLine(f)
  /\ line' = Append(line, f)
  /\ UNCHANGED holder

Grant ==
  /\ holder = NoFlow /\ line # <<>>
  /\ holder' = Head(line)
  /\ line' = Tail(line)

GiveUp ==
  /\ line # <<>>
  /\ line' = Tail(line)
  /\ UNCHANGED holder

Release ==
  /\ holder # NoFlow
  /\ holder' = NoFlow
  /\ UNCHANGED line

Next == (\E f \in Flow : Join(f)) \/ Grant \/ GiveUp \/ Release

Spec == Init /\ [][Next]_vars
=============================================================================

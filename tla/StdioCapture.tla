---------------------------- MODULE StdioCapture ----------------------------
(***************************************************************************)
(* Capturing stdout and stderr around a task (utils/stdio-capture.ts): a   *)
(* run, the start of the embedding server, a load of the model.  Captures  *)
(* overlap, and nothing orders their ends.                                 *)
(*                                                                         *)
(* The patched writers (stdout.write, stderr.write, console, fs.writeSync) *)
(* are installed and restored together: `writers' names the capture whose  *)
(* they are.  What they divert and what they let through is left out.      *)
(***************************************************************************)
EXTENDS Naturals, Sequences, FiniteSetsExt

CONSTANTS
  Capture, KeyOf,     \* calls of captureStdio(), and the session each is for
  NoKey,
  Terminal,           \* the writers, and the file behind FD 2, of the process
  LogFile, Closed,    \* what else FD 2 may be
  MaxFrames           \* bound: overlapping captures pile up their frames

VARIABLES
  at,                 \* per call: idle, joined (its task runs in the capture of others) or captured
  capturing,          \* sessionCaptureStates
  depth,              \* unkeyedCaptureDepth
  stack,              \* captureStack
  writers, fd2

captureVars == <<at, capturing, depth, stack, writers, fd2>>

Init ==
  /\ at = [c \in Capture |-> "idle"] /\ capturing = {} /\ depth = 0
  /\ stack = <<>> /\ writers = Terminal /\ fd2 = Terminal

IsAnyLoggerCapturingOutput == depth > 0 \/ capturing # {}

(* A second capture of a session, and one without a session while there is *)
(* any, only runs its task.                                                *)
Joins(c) == IF KeyOf[c] = NoKey THEN IsAnyLoggerCapturingOutput ELSE KeyOf[c] \in capturing

Join(c) ==
  /\ at[c] = "idle" /\ Joins(c) /\ at' = [at EXCEPT ![c] = "joined"]
  /\ UNCHANGED <<capturing, depth, stack, writers, fd2>>

JoinedEnds(c) ==
  /\ at[c] = "joined" /\ at' = [at EXCEPT ![c] = "idle"]
  /\ UNCHANGED <<capturing, depth, stack, writers, fd2>>

(* FD 2 is closed and the log opened in its place; or it is left alone (a  *)
(* pipe, Windows, not FD 2 that the open returned); or the open throws     *)
(* after the close, and nothing remembers that it is to be restored.       *)
Redirected == fd2 # Closed /\ fd2' = LogFile
Untouched == UNCHANGED fd2
LeftClosed == fd2 # Closed /\ fd2' = Closed

Begin(c) ==
  /\ at[c] = "idle" /\ ~Joins(c) /\ Len(stack) < MaxFrames /\ at' = [at EXCEPT ![c] = "captured"]
  /\ IF KeyOf[c] = NoKey THEN depth' = depth + 1 /\ UNCHANGED capturing
     ELSE capturing' = capturing \cup {KeyOf[c]} /\ UNCHANGED depth
  /\ writers' = c
  /\ \E savedFd2 \in {fd2, Closed} :
       /\ IF savedFd2 = Closed THEN Untouched \/ LeftClosed ELSE Redirected
       /\ stack' = Append(stack, [by |-> c, retired |-> FALSE, writers |-> writers, fd2 |-> savedFd2])

(* The frames of an unwind are restored from the top down, so that the     *)
(* lowest one has the last word; only a frame that redirected FD 2 puts    *)
(* it back, and one that finds it closed fails to.                         *)
RestoredFd2(popped) ==
  LET redirected == {i \in DOMAIN popped : popped[i].fd2 # Closed}
  IN IF redirected = {} \/ fd2 = Closed THEN fd2 ELSE popped[Min(redirected)].fd2

Retired(c) == [i \in DOMAIN stack |-> [stack[i] EXCEPT !.retired = (@ \/ stack[i].by = c)]]

(* The frames that stay: up to the last one whose task is still running.   *)
Height(frames) == CHOOSE n \in 0 .. Len(frames) :
  /\ n = 0 \/ ~frames[n].retired
  /\ \A i \in n + 1 .. Len(frames) : frames[i].retired

Cleared(c) ==
  /\ at[c] = "captured" /\ at' = [at EXCEPT ![c] = "idle"]
  /\ IF KeyOf[c] = NoKey THEN depth' = depth - 1 /\ UNCHANGED capturing
     ELSE capturing' = capturing \ {KeyOf[c]} /\ UNCHANGED depth

(* Mutant: a capture that ends restores what it saved, whoever is on top.  *)
EndAtOnce(c) ==
  /\ Cleared(c)
  /\ LET mine == SelectSeq(stack, LAMBDA f : f.by = c)[1]
     IN writers' = mine.writers /\ fd2' = RestoredFd2(<<mine>>)
  /\ stack' = SelectSeq(stack, LAMBDA f : f.by # c)

(* The task is over, or failed: the frame is retired, and the retired ones *)
(* on top of the stack are unwound.                                        *)
End(c) ==
  /\ Cleared(c)
  /\ LET frames == Retired(c)
         popped == SubSeq(frames, Height(frames) + 1, Len(frames))
     IN /\ stack' = SubSeq(frames, 1, Height(frames))
        /\ writers' = (IF popped = <<>> THEN writers ELSE Head(popped).writers)
        /\ fd2' = RestoredFd2(popped)

Next == \E c \in Capture : Join(c) \/ JoinedEnds(c) \/ Begin(c) \/ End(c)

Spec == Init /\ [][Next]_captureVars

-----------------------------------------------------------------------------
(* Whatever the order in which captures end: while the task of one runs,   *)
(* the terminal is not written to; once none runs, the process has its own *)
(* writers back and FD 2 is not the log, and no flag keeps a later capture *)
(* from starting.                                                          *)
StdioComesBack ==
  /\ \A c \in Capture : at[c] = "captured" => writers # Terminal
  /\ (\A c \in Capture : at[c] # "captured")
       => writers = Terminal /\ fd2 # LogFile /\ ~IsAnyLoggerCapturingOutput

-----------------------------------------------------------------------------
(* What makes it so.                                                       *)
StdioSetting == Terminal \notin Capture /\ LogFile \notin {Terminal, Closed}

File == {Terminal, LogFile, Closed}
Frame == [by : Capture, retired : BOOLEAN, writers : Capture \cup {Terminal}, fd2 : File]

StdioTyped ==
  /\ at \in [Capture -> {"idle", "joined", "captured"}] /\ stack \in Seq(Frame)
  /\ writers \in Capture \cup {Terminal} /\ fd2 \in File

(* Whose task runs has a frame that is not retired, and only those; what   *)
(* is retired never is on top.                                             *)
FramesOfTheRunning ==
  /\ \A c \in Capture : at[c] = "captured" => \E i \in 1 .. Len(stack) : stack[i].by = c /\ ~stack[i].retired
  /\ \A i \in 1 .. Len(stack) : ~stack[i].retired => at[stack[i].by] = "captured"
  /\ Len(stack) > 0 => ~stack[Len(stack)].retired

(* Only the lowest frame keeps the terminal's writers.                     *)
LowestKeepsTheWriters ==
  /\ \A i \in 1 .. Len(stack) : stack[i].writers = Terminal <=> i = 1
  /\ writers = Terminal <=> Len(stack) = 0

(* Who saved the log as FD 2 lies above a frame that put the log there.    *)
Below(frames, n) == \E j \in 1 .. Len(frames) : j < n /\ frames[j].fd2 # Closed
LogHasAReason ==
  /\ \A i \in 1 .. Len(stack) : stack[i].fd2 = LogFile => Below(stack, i)
  /\ fd2 = LogFile => Below(stack, Len(stack) + 1)

FlagsAreOfTheRunning ==
  /\ capturing = {KeyOf[c] : c \in {d \in Capture : at[d] = "captured" /\ KeyOf[d] # NoKey}}
  /\ depth = IF \E c \in Capture : at[c] = "captured" /\ KeyOf[c] = NoKey THEN 1 ELSE 0
  /\ \A c, d \in Capture : at[c] = "captured" /\ at[d] = "captured" /\ KeyOf[c] = KeyOf[d] => c = d

StdioInv == StdioTyped /\ FramesOfTheRunning /\ LowestKeepsTheWriters /\ LogHasAReason /\ FlagsAreOfTheRunning
=============================================================================

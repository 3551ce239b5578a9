--------------------------------- MODULE CliRun ---------------------------------
(***************************************************************************)
(* One process of the command line (cli.ts) from its arguments to its exit *)
(* status: a command that uses the engine, and the signals that may reach  *)
(* it at any point.  Two paths end the process: the command returns a code *)
(* after its own bounded shutdown, and the first signal starts a shutdown  *)
(* of its own and exits when that is over.  What the command has printed   *)
(* by then, and what the caller is told about it, is the contract.         *)
(***************************************************************************)
EXTENDS Integers

CONSTANTS Signals, Grace, MaxClock, None

(* What an error says of itself: a research stop always carries the        *)
(* advice to check the API key, a rate limit often names it.               *)
Errors == {{}, {"stopped", "credential"}, {"capacity"}, {"limit"}, {"limit", "credential"}, {"credential"}, {"aborted"}}

VARIABLES
  command,   \* research or knowledge
  pc,        \* parsing, preflight, starting, working, exporting, leaving, printing, flushing, exited
  clock,
  latch,     \* cancellationRequested and cancellationSignal: the first signal, or None
  firstAt,   \* firstSignalAtMs
  cancelable, aborted,  \* activeResearchAbortController is set; it is aborted
  teardown,  \* of the engine: none, underway, over
  escape,    \* of the first signal: none, shutting, flushing
  decided,   \* the command's exit code
  said,      \* what it printed: None or [ok, cancelled, retryable, code]
  warned,    \* history: a signal had arrived when it printed
  status     \* of the process, once exited

cliVars == <<command, pc, clock, latch, firstAt, cancelable, aborted, teardown, escape, decided, said, warned, status>>
sigVars == <<latch, firstAt, escape>>
outVars == <<decided, said, warned>>

Init ==
  /\ command \in {"research", "knowledge"} /\ pc = "parsing" /\ clock = 0
  /\ latch = None /\ firstAt = None /\ cancelable = FALSE /\ aborted = FALSE /\ teardown = "none" /\ escape = "none"
  /\ decided = None /\ said = None /\ warned = FALSE /\ status = None

Say(ok, cancelled, retryable, code) ==
  said' = [ok |-> ok, cancelled |-> cancelled, retryable |-> retryable, code |-> code] /\ warned' = (latch # None)
Refuse(code) == Say(FALSE, FALSE, FALSE, code) /\ decided' = code /\ pc' = "flushing"

-----------------------------------------------------------------------------
(* The command.                                                            *)

(* Bad arguments; a --config file that does not apply.                     *)
Parse ==
  /\ pc = "parsing"
  /\ \/ pc' = "preflight" /\ UNCHANGED outVars
     \/ \E code \in {"usage", "config"} : Refuse(code)
  /\ UNCHANGED <<command, clock, sigVars, cancelable, aborted, teardown, status>>

Unready == {"usage", "config"}

(* No usable model or key; a query nobody can run; a store that is off.    *)
Preflight ==
  /\ pc = "preflight"
  /\ \/ pc' = "starting" /\ cancelable' = TRUE /\ UNCHANGED outVars
     \/ \E code \in Unready : Refuse(code) /\ UNCHANGED cancelable
  /\ UNCHANGED <<command, clock, sigVars, aborted, teardown, status>>

Started ==
  /\ pc = "starting" /\ pc' = "working"
  /\ UNCHANGED <<command, clock, sigVars, cancelable, aborted, teardown, outVars, status>>

(* The `finally' of a command: its controller is gone, the engine goes     *)
(* down, unless it is down already.                                        *)
Leave ==
  /\ pc' = "leaving" /\ cancelable' = FALSE
  /\ teardown' = IF teardown = "none" THEN "underway" ELSE teardown

CancelCode == IF latch # None THEN latch ELSE "cancelled"

(* reportError(): a cancellation first, then a busy machine, a rate limit, *)
(* a setup problem.                                                        *)
ReportError(e) ==
  LET cancelled == latch # None \/ "aborted" \in e
      limit == ~cancelled /\ "limit" \in e
      config == ~cancelled /\ "credential" \in e /\ e \cap {"stopped", "capacity"} = {}
      code == CASE cancelled -> CancelCode
                [] ~cancelled /\ "capacity" \in e -> "tempfail"
                [] config /\ ~limit /\ "capacity" \notin e -> "config"
                [] OTHER -> "software"
  IN  Say(FALSE, cancelled, ~cancelled /\ ("capacity" \in e \/ limit), code) /\ decided' = code

Fails(e) ==
  /\ pc \in {"starting", "working"} /\ ReportError(e) /\ Leave
  /\ UNCHANGED <<command, clock, sigVars, aborted, status>>

(* A run may come back with a report although it was aborted.              *)
Returns ==
  /\ pc = "working"
  /\ IF command = "research" THEN pc' = "exporting" /\ UNCHANGED <<cancelable, teardown>> ELSE Leave
  /\ UNCHANGED <<command, clock, sigVars, aborted, outVars, status>>

Show ==
  LET code == IF latch # None THEN latch ELSE "ok"
  IN Say(TRUE, latch # None, FALSE, code) /\ decided' = code

(* Mutant: whether it was cancelled is settled when the run returns.       *)
ExportEarly ==
  /\ pc = "exporting" /\ Leave /\ Say(TRUE, FALSE, FALSE, "ok") /\ decided' = "ok"
  /\ UNCHANGED <<command, clock, sigVars, aborted, status>>

(* The report has been saved, or was not to be; then the latch is read.    *)
Export ==
  /\ pc = "exporting" /\ Leave /\ Show
  /\ UNCHANGED <<command, clock, sigVars, aborted, status>>

(* safeShutdown() of the command: the engine is down or eight seconds are  *)
(* over.  A search prints only now.                                        *)
Left ==
  /\ pc = "leaving" /\ (teardown = "over" \/ clock = MaxClock) /\ pc' = IF said = None THEN "printing" ELSE "flushing"
  /\ UNCHANGED <<command, clock, sigVars, cancelable, aborted, teardown, outVars, status>>

PrintSearch ==
  /\ pc = "printing" /\ pc' = "flushing" /\ Show
  /\ UNCHANGED <<command, clock, sigVars, cancelable, aborted, teardown, status>>

Exit ==
  /\ pc = "flushing" /\ pc' = "exited" /\ status' = decided
  /\ UNCHANGED <<command, clock, sigVars, cancelable, aborted, teardown, outVars>>

-----------------------------------------------------------------------------
(* The signals and the engine.                                             *)

(* The first one cancels; a copy of it that a launcher forwards within the *)
(* grace is swallowed; one that comes later is a human at a stuck cleanup. *)
Idle == pc \in {"parsing", "preflight"}

Signal(s) ==
  /\ pc # "exited"
  /\ CASE latch = None ->
            /\ latch' = s /\ firstAt' = clock /\ aborted' = cancelable
            /\ escape' = IF Idle THEN "flushing" ELSE "shutting"
            /\ teardown' = IF teardown = "none" /\ ~Idle THEN "underway" ELSE teardown
            /\ UNCHANGED <<pc, status>>
       [] latch # None /\ clock - firstAt <= Grace -> UNCHANGED <<sigVars, aborted, teardown, pc, status>>
       [] OTHER -> pc' = "exited" /\ status' = s /\ UNCHANGED <<sigVars, aborted, teardown>>
  /\ UNCHANGED <<command, clock, cancelable, outVars>>

TornDown ==
  /\ teardown = "underway" /\ pc \notin {"starting", "exited"} /\ teardown' = "over"
  /\ UNCHANGED <<command, pc, clock, sigVars, cancelable, aborted, outVars, status>>

Escape ==
  /\ escape = "shutting" /\ (teardown = "over" \/ clock = MaxClock) /\ escape' = "flushing"
  /\ UNCHANGED <<command, pc, clock, latch, firstAt, cancelable, aborted, teardown, outVars, status>>

EscapeExits ==
  /\ escape = "flushing" /\ pc # "exited" /\ pc' = "exited" /\ status' = latch
  /\ UNCHANGED <<command, clock, sigVars, cancelable, aborted, teardown, outVars>>

Tick ==
  /\ clock < MaxClock /\ pc # "exited" /\ clock' = clock + 1
  /\ UNCHANGED <<command, pc, sigVars, cancelable, aborted, teardown, outVars, status>>

Next ==
  \/ Parse \/ Preflight \/ Started \/ Returns \/ Export \/ Left \/ PrintSearch \/ Exit
  \/ \E e \in Errors : Fails(e)
  \/ \E s \in Signals : Signal(s)
  \/ TornDown \/ Escape \/ EscapeExits \/ Tick

Spec == Init /\ [][Next]_cliVars

-----------------------------------------------------------------------------
(* What the caller reads is what happened.  Whatever a command under way   *)
(* prints after a signal says so, with the code of the first one, and      *)
(* never asks for a retry ("a consumer honouring the latter would re-run   *)
(* the research the user just stopped").  The status is the printed code,  *)
(* unless a signal came after the printing or a second one cut the cleanup *)
(* short; and 0 means a printed report and no signal before it.            *)
ToldWhatHappened ==
  /\ said # None =>
       /\ warned /\ said.code \notin {"usage", "config"} => said.cancelled /\ said.code = latch
       /\ ~(said.cancelled /\ said.retryable)
  /\ status # None =>
       /\ said # None /\ latch = None => status = said.code
       /\ said # None /\ warned /\ said.cancelled => status = said.code \/ clock - firstAt > Grace
       /\ status = "ok" => said # None /\ said.ok /\ ~warned

-----------------------------------------------------------------------------
(* What makes it so.                                                       *)
Code == {"ok", "usage", "config", "tempfail", "software", "cancelled"} \cup Signals
Answer == [ok : BOOLEAN, cancelled : BOOLEAN, retryable : BOOLEAN, code : Code]

(* A signal has no name of an exit code.                                   *)
CliSetting ==
  /\ Grace \in Nat /\ None \notin Signals \cup Answer
  /\ Signals \cap {"ok", "usage", "config", "tempfail", "software", "cancelled"} = {}

Speechless == {"parsing", "preflight", "starting", "working", "exporting", "printing"}
CliTyped ==
  /\ pc \in Speechless \cup {"leaving", "flushing", "exited"}
  /\ said \in Answer \cup {None} /\ latch \in Signals \cup {None} /\ warned \in BOOLEAN
  /\ escape \in {"none", "shutting", "flushing"}
  /\ clock \in Nat /\ (latch # None => firstAt \in Nat)

(* What was said is what was decided, and whoever flushes has said it; a   *)
(* warning is of the signal that is latched.                               *)
CliInv ==
  /\ CliTyped /\ ToldWhatHappened
  /\ pc \in Speechless => said = None
  /\ pc = "flushing" => said # None
  /\ status # None => pc = "exited"
  /\ said # None =>
       /\ decided = said.code
       /\ warned /\ said.cancelled => said.code = latch
       /\ said.code = "ok" => said.ok /\ ~warned
  /\ latch = None => ~warned /\ escape = "none"
=============================================================================

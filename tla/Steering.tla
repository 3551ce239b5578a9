-------------------------------- MODULE Steering --------------------------------
(***************************************************************************)
(* The research runs of one Pi session and the messages its user sends     *)
(* them while they work: the session's record (session-state.ts), the tool *)
(* that executes a run (research-tool-definition.ts), the input hook and   *)
(* the Alt+P handler (index.ts) and the keys that cancel (tui-controller). *)
(* A message is queued for the next round of whichever run asks first, or  *)
(* popped and handed to pi's own queue, which pi delivers when the tools   *)
(* of its turn have returned and empties into the editor on an Esc that    *)
(* reaches it.                                                             *)
(***************************************************************************)
EXTENDS Integers, Sequences, SequencesExt, FiniteSets, Lists

CONSTANTS
  Run,      \* runs of the session, in any order and at the same time
  Message,  \* messages, each typed once and none like another
  Cap       \* MAX_STEERING_MESSAGES

VARIABLES
  tui,       \* the session has panels; a headless one has none
  phase,     \* of a run: none, resolving, checking, running, ended
  accepting, \* runs whose panel takes steering
  cancelled, \* runs whose internal signal is aborted
  parent,    \* runs whose caller's signal is aborted
  deaf,      \* history: it was, before the tool listened to it
  box,       \* steeringMessages, oldest first
  status,    \* of a message: new, queued, active, popped, evicted, dropped, pi
  marked,    \* messages with forwardedToPiAt
  popping,   \* of the Alt+P handler: popped messages it has yet to send
  sent,      \* those it has sent and not marked
  atPi,      \* of a message: no, held, delivered, editor
  heard,     \* history: messages that a run consumed
  excuse     \* history: how a message may leave both sides

steerVars == <<tui, phase, accepting, cancelled, parent, deaf, box, status, marked, popping, sent, atPi, heard, excuse>>
runVars == <<tui, phase, accepting, cancelled, parent, deaf>>
boxVars == <<box, status, marked, heard>>
popVars == <<popping, sent, atPi>>

Init ==
  /\ tui \in BOOLEAN
  /\ phase = [r \in Run |-> "none"] /\ accepting = {} /\ cancelled = {} /\ parent = {} /\ deaf = {}
  /\ box = << >> /\ status = [m \in Message |-> "new"] /\ marked = {}
  /\ popping = << >> /\ sent = {} /\ atPi = [m \in Message |-> "no"] /\ heard = {} /\ excuse = {}

Registered == {r \in Run : phase[r] \in {"checking", "running"}}
Executing == {r \in Run : phase[r] \in {"resolving", "checking", "running"}}
Panels == IF tui THEN Registered ELSE {}
InBox(s) == {m \in Range(box) : status[m] = s}
Go(r, p) == phase' = [phase EXCEPT ![r] = p]
Becomes(ms, s) == status' = [m \in Message |-> IF m \in ms THEN s ELSE status[m]]

-----------------------------------------------------------------------------
(* A run.                                                                  *)

Execute(r) ==
  /\ phase[r] = "none" /\ Go(r, "resolving")
  /\ UNCHANGED <<tui, accepting, cancelled, parent, deaf, boxVars, popVars, excuse>>

(* The model is known: the panel, the failure record and the abort of the  *)
(* run are registered, and what an earlier run forwarded is taken to be    *)
(* delivered.  A run with a panel checks its health before it listens to   *)
(* its caller's signal.                                                    *)
Register(r) ==
  /\ phase[r] = "resolving" /\ Go(r, IF tui THEN "checking" ELSE "running")
  /\ marked' = {}
  /\ excuse' = excuse \cup {m \in marked : atPi[m] = "held"}
  /\ deaf' = IF ~tui /\ r \in parent THEN deaf \cup {r} ELSE deaf
  /\ UNCHANGED <<tui, accepting, cancelled, parent, box, status, heard, popVars>>

HealthPasses(r) ==
  /\ phase[r] = "checking" /\ Go(r, "running")
  /\ deaf' = IF r \in parent THEN deaf \cup {r} ELSE deaf
  /\ UNCHANGED <<tui, accepting, cancelled, parent, boxVars, popVars, excuse>>

(* The observer opens the panel to steering when a round begins and closes *)
(* it when the last one has.                                               *)
Accept(r) ==
  /\ tui /\ phase[r] = "running"
  /\ accepting' = IF r \in accepting THEN accepting \ {r} ELSE accepting \cup {r}
  /\ UNCHANGED <<tui, phase, cancelled, parent, deaf, boxVars, popVars, excuse>>

(* consumeQueuedMessages(): a round takes what is queued.                  *)
Consume(r) ==
  /\ phase[r] = "running" /\ InBox("queued") # {}
  /\ Becomes(InBox("queued"), "active") /\ heard' = heard \cup InBox("queued")
  /\ UNCHANGED <<runVars, box, marked, popVars, excuse>>

(* endResearchSession(), on every way out: the last run of the session     *)
(* leaves only what is still queued.                                       *)
End(r) ==
  LET last == Registered \subseteq {r}
      gone == IF last THEN Range(box) \ InBox("queued") ELSE {}
  IN  /\ phase[r] \in {"resolving", "checking", "running"} /\ Go(r, "ended")
      /\ accepting' = accepting \ {r} /\ cancelled' = cancelled \ {r} /\ parent' = parent \ {r} /\ deaf' = deaf \ {r}
      /\ IF r \in Registered
         THEN /\ box' = Without(box, gone) /\ Becomes(gone, "dropped")
              /\ marked' = marked \ gone
              /\ excuse' = excuse \cup {m \in gone : m \in Range(popping) \/ atPi[m] = "held"}
         ELSE UNCHANGED <<box, status, marked, excuse>>
      /\ UNCHANGED <<tui, heard, popVars>>

-----------------------------------------------------------------------------
(* A message.                                                              *)

(* addSteeringMessage(): a full box loses its oldest queued message, or    *)
(* its oldest active one, and more popped ones than the cap are forgotten. *)
Add(m) ==
  LET live == {x \in Range(box) : status[x] # "popped"}
      oldest(s) == SelectInSeq(box, LAMBDA x : status[x] = s)
      evict == IF Cardinality(live) < Cap THEN {}
               ELSE {box[IF InBox("queued") # {} THEN oldest("queued") ELSE oldest("active")]}
      forget == IF Cardinality(InBox("popped")) > Cap THEN {box[oldest("popped")]} ELSE {}
  IN  /\ box' = Append(Without(box, evict \cup forget), m)
      /\ status' = [x \in Message |-> IF x = m THEN "queued" ELSE IF x \in evict \cup forget THEN "evicted" ELSE status[x]]
      /\ marked' = marked \ forget
      /\ excuse' = excuse \cup evict \cup forget

(* The user steers while a run has a panel: the message is queued if some  *)
(* panel takes it, and else it is pi's.                                    *)
Type(m) ==
  /\ status[m] = "new" /\ Panels # {}
  /\ IF accepting # {} THEN Add(m) /\ UNCHANGED atPi
     ELSE Becomes({m}, "pi") /\ atPi' = [atPi EXCEPT ![m] = "held"] /\ UNCHANGED <<box, marked, excuse>>
  /\ UNCHANGED <<runVars, heard, popping, sent>>

(* Mutant: messages stay queued until pi has taken them.                   *)
PopLate ==
  /\ Panels # {} /\ popping = << >> /\ sent = {} /\ InBox("queued") # {}
  /\ popping' = Within(box, InBox("queued"))
  /\ UNCHANGED <<runVars, boxVars, sent, atPi, excuse>>

(* Alt+P: everything queued is popped at once, then sent one by one.       *)
Pop ==
  /\ Panels # {} /\ popping = << >> /\ sent = {} /\ InBox("queued") # {}
  /\ popping' = Within(box, InBox("queued"))
  /\ Becomes(InBox("queued"), "popped")
  /\ UNCHANGED <<runVars, box, marked, heard, sent, atPi, excuse>>

SendSucceeds ==
  /\ popping # << >> /\ popping' = Tail(popping) /\ sent' = sent \cup {Head(popping)}
  /\ atPi' = [atPi EXCEPT ![Head(popping)] = "held"]
  /\ UNCHANGED <<runVars, boxVars, excuse>>

(* requeuePoppedMessage(), if the session still has the message.           *)
SendFails ==
  /\ popping # << >> /\ popping' = Tail(popping)
  /\ Becomes({Head(popping)} \cap InBox("popped"), "queued")
  /\ UNCHANGED <<runVars, box, marked, heard, sent, atPi, excuse>>

(* markSteeringForwardedToPi(), once everything is sent.                   *)
Mark ==
  /\ popping = << >> /\ sent # {} /\ sent' = {}
  /\ marked' = marked \cup (sent \cap InBox("popped"))
  /\ UNCHANGED <<runVars, box, status, heard, popping, atPi, excuse>>

-----------------------------------------------------------------------------
(* Pi and its keys.                                                        *)

(* The turn goes on when its tools have returned.                          *)
PiDelivers ==
  /\ Executing = {} /\ \E m \in Message : atPi[m] = "held"
  /\ atPi' = [m \in Message |-> IF atPi[m] = "held" THEN "delivered" ELSE atPi[m]]
  /\ UNCHANGED <<runVars, boxVars, popping, sent, excuse>>

(* An abort of the turn reaches a run that listens.                        *)
TurnAborted ==
  /\ parent' = parent \cup Executing
  /\ cancelled' = cancelled \cup {r \in Run : phase[r] = "running" /\ r \notin parent}
                            \cup (IF Panels = {} THEN {} ELSE Registered)

(* Esc: runs with a panel are aborted.  The key stays here if pi is known  *)
(* to hold a popped message; else it goes on to pi, which takes its queue  *)
(* back into the editor and aborts its turn.                               *)
Esc ==
  /\ Executing # {}
  /\ IF Panels # {} /\ marked # {}
     THEN /\ cancelled' = cancelled \cup Registered /\ UNCHANGED <<parent, atPi, excuse>>
     ELSE /\ TurnAborted
          /\ atPi' = [m \in Message |-> IF atPi[m] = "held" THEN "editor" ELSE atPi[m]]
          /\ excuse' = excuse \cup {m \in sent : atPi[m] = "held"}
                              \cup (IF Panels = {} THEN {m \in Message : atPi[m] = "held"} ELSE {})
  /\ UNCHANGED <<tui, phase, accepting, deaf, boxVars, popping, sent>>

(* Ctrl+C over an empty editor: the runs are aborted, pi never sees it.    *)
CtrlC ==
  /\ Panels # {} /\ cancelled' = cancelled \cup Registered
  /\ UNCHANGED <<tui, phase, accepting, parent, deaf, boxVars, popVars, excuse>>

Next ==
  \/ \E r \in Run : Execute(r) \/ Register(r) \/ HealthPasses(r) \/ Accept(r) \/ Consume(r) \/ End(r)
  \/ \E m \in Message : Type(m)
  \/ Pop \/ SendSucceeds \/ SendFails \/ Mark \/ PiDelivers \/ Esc \/ CtrlC

Spec == Init /\ [][Next]_steerVars

-----------------------------------------------------------------------------
(* What the user says is said once: no message is heard by a run and then  *)
(* given to pi as well, and a message that was queued is heard, held or    *)
(* delivered unless it left by one of the ways the code has for it ("so    *)
(* the user's input is never silently lost", session-state.ts): the cap, a *)
(* session that ended under a pop, and an Esc before pi's copy was marked  *)
(* or after the mark went with its run or was cleared by a new one.  And a *)
(* run that was told to stop knows it, unless it was told before it        *)
(* listened.                                                               *)
SteeringIsKept ==
  /\ \A m \in heard : atPi[m] = "no"
  /\ \A m \in Message : \/ status[m] \in {"new", "queued", "active", "pi"} \/ m \in heard \cup excuse
                        \/ atPi[m] \in {"held", "delivered"} \/ (status[m] = "popped" /\ m \in Range(popping))
  /\ \A r \in parent : phase[r] = "running" => r \in cancelled \cup deaf

-----------------------------------------------------------------------------
(* What makes it so.                                                       *)
SteerTyped ==
  /\ phase \in [Run -> {"none", "resolving", "checking", "running", "ended"}]
  /\ box \in Seq(Message) /\ popping \in Seq(Message) /\ heard \subseteq Message
  /\ status \in [Message -> {"new", "queued", "active", "popped", "evicted", "dropped", "pi"}]
  /\ atPi \in [Message -> {"no", "held", "delivered", "editor"}]

(* Where one message is, told from all that knows of it: what pi was not   *)
(* given it does not have; what a run has heard is nobody else's; what is  *)
(* on its way to pi is popped and in the box, or excused; and pi holds     *)
(* what it was typed, sent or known to be sent, or what is excused.        *)
Whereabouts(m) ==
  /\ m \in Range(box) => status[m] \notin {"new", "pi"}
  /\ m \in Range(popping) => /\ atPi[m] = "no" /\ m \notin heard /\ status[m] \in {"popped", "evicted", "dropped"}
                             /\ m \in excuse \/ (status[m] = "popped" /\ m \in Range(box))
  /\ m \in heard => atPi[m] = "no" /\ status[m] \in {"active", "evicted", "dropped"}
  /\ status[m] \in {"new", "queued"} => atPi[m] = "no"
  /\ status[m] = "active" => m \in heard
  /\ m \in sent => status[m] \notin {"new", "pi"}
  /\ m \in sent => atPi[m] # "held" \/ m \in excuse \/ (status[m] = "popped" /\ m \in Range(box))
  /\ atPi[m] = "held" => status[m] = "pi" \/ m \in sent \cup marked \cup excuse
  /\ \/ status[m] \in {"new", "queued", "active", "pi"} \/ m \in heard \cup excuse
     \/ atPi[m] \in {"held", "delivered"} \/ (status[m] = "popped" /\ m \in Range(popping))

Steered ==
  /\ SteerTyped /\ Differing(box) /\ Differing(popping)
  /\ \A m \in Message : Whereabouts(m)
  /\ \A r \in parent : phase[r] = "running" => r \in cancelled \cup deaf
=============================================================================

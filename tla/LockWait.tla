------------------------------ MODULE LockWait ------------------------------
(***************************************************************************)
(* How long one acquireLock() waits: the stall bound, the ceiling, and the *)
(* window after which an unreadable lock may be reclaimed                  *)
(* (src/infrastructure/file-lock-service.ts).  These are clocks of their   *)
(* own, and the code reads the time again between an observation and the   *)
(* decision taken on it; here time is a number of ticks that may advance   *)
(* between any two steps.                                                  *)
(***************************************************************************)
EXTENDS Integers

CONSTANTS
  Peer,         \* other processes that use the lock
  Classes,      \* the configurations locks of the program are made with
  Unidentified, \* UNIDENTIFIED_MAX_STALE_MS
  Delay,        \* lockRetryDelay
  Lag,          \* the latest a due step of the event loop runs
  MayWedge,     \* may a live holder stop beating?
  Horizon       \* bound on the time explored

Config == [lockTimeout : Nat,  \* ticks without progress before giving up; 0: a try-take
           ceiling : Nat,      \* acquireCeilingMs
           staleAfter : Nat,   \* lockStaleThreshold
           liveStale : Nat,    \* liveOwnerStaleThreshold
           beat : Nat]         \* the heartbeat interval, 0 where there is none

VARIABLES
  class,     \* the configuration of this lock
  now,
  owner,     \* "free", "torn" (nobody can read whose it is) or a peer
  mtime,     \* when the lock file was last touched
  beating,   \* is the holder's heartbeat running?
  pc,        \* "try", "decide", "got", or how the wait ended
  since,     \* startTime of the wait
  progress,  \* lastProgressAt
  last,      \* lastSeenUuid and lastSeenMtime
  awaiting,  \* awaitingReclaim, of the current attempt
  due,       \* when the waiter's next step is due
  moved,     \* history: when the lock last moved, as of the last readable look
  first,     \* history: when the waiter first could read it (since, if it has not yet)
  blind      \* history: the current attempt's look at the lock failed

LockTimeout == class.lockTimeout
Ceiling     == class.ceiling
StaleAfter  == class.staleAfter
LiveStale   == class.liveStale
Beat        == class.beat

env == <<class, owner, mtime, beating>>
wait == <<pc, since, progress, last, awaiting, due, moved, first, blind>>
vars == <<now, env, wait>>

Nobody == [uuid |-> "none", mtime |-> 0]

(* The wait begins some time after the lock was last touched.              *)
Init ==
  /\ class \in Classes
  /\ now \in 0..2
  /\ owner \in Peer \cup {"free", "torn"}
  /\ mtime = 0
  /\ beating = (owner \in Peer /\ Beat > 0)
  /\ (beating => now <= Beat)
  /\ pc = "try"
  /\ since = now /\ progress = now /\ due = now
  /\ last = Nobody
  /\ awaiting = FALSE
  /\ moved = 0 /\ first = now /\ blind = FALSE

Waiting == pc \in {"try", "decide"}

-----------------------------------------------------------------------------
(* _unidentifiedStaleThreshold: never shorter than two heartbeats.         *)
UnidentifiedStaleThreshold ==
  IF Beat = 0 THEN Unidentified
  ELSE IF StaleAfter > 2 * Beat THEN StaleAfter ELSE 2 * Beat

(* _shouldReclaim, for an owner that is not provably dead.                 *)
ShouldReclaim(o, age) ==
  IF o = "torn" THEN age > UnidentifiedStaleThreshold ELSE age > LiveStale

AwaitingNothing(o, age) == FALSE        \* mutant: a torn lock is like any other

(* awaitingReclaim: this reclaim is one we will be allowed to perform.     *)
AwaitingReclaim(o, age) ==
  LockTimeout > 0 /\ o = "torn" /\ age <= UnidentifiedStaleThreshold

Moved == last.uuid # "none" /\ (last.uuid # owner \/ mtime > last.mtime)

(* The top of the loop: the absolute ceiling, before anything else.        *)
CeilingReached ==
  /\ pc = "try"
  /\ LockTimeout > 0 /\ now - since >= Ceiling
  /\ pc' = "ceiling"
  /\ UNCHANGED <<now, env, since, progress, last, awaiting, due, moved, first, blind>>

BelowCeiling == ~(LockTimeout > 0 /\ now - since >= Ceiling)

(* The lock path is free: take it.                                         *)
Take ==
  /\ pc = "try" /\ BelowCeiling
  /\ owner = "free"
  /\ pc' = "got"
  /\ UNCHANGED <<now, env, since, progress, last, awaiting, due, moved, first, blind>>

(* It is not: read and stat it, note progress, reclaim it if that is       *)
(* allowed (and try again at once, also when the rename fails), else go on *)
(* to the bounds.                                                          *)
Observe ==
  /\ pc = "try" /\ BelowCeiling
  /\ owner # "free"
  /\ progress' = IF Moved THEN now ELSE progress
  /\ last' = [uuid |-> owner, mtime |-> mtime]
  /\ moved' = mtime /\ blind' = FALSE
  /\ first' = IF last = Nobody THEN now ELSE first
  /\ awaiting' = AwaitingReclaim(owner, now - mtime)
  /\ IF ShouldReclaim(owner, now - mtime)
     THEN owner' \in {"free", owner} /\ beating' = (beating /\ owner' = owner) /\ pc' = "try"
     ELSE pc' = "decide" /\ UNCHANGED <<owner, beating>>
  /\ due' = now
  /\ UNCHANGED <<class, now, mtime, since>>

(* It is not, and the look at it fails (EMFILE, EACCES, EBUSY): that tells *)
(* nothing, so nothing is reclaimed or noted, no reclaim is awaited, and   *)
(* the bounds decide.                                                      *)
LookFails ==
  /\ pc = "try" /\ BelowCeiling
  /\ owner # "free"
  /\ awaiting' = FALSE /\ blind' = TRUE
  /\ pc' = "decide" /\ due' = now
  /\ UNCHANGED <<now, env, since, progress, last, moved, first>>

(* The stall bound, unless a reclaim is coming; then the ceiling; else     *)
(* sleep for the retry delay.  The clock is read anew.                     *)
Decide ==
  /\ pc = "decide"
  /\ IF now - since >= Ceiling
     THEN pc' = "ceiling" /\ UNCHANGED <<due, awaiting, blind>>
     ELSE IF now - progress >= LockTimeout /\ ~awaiting
     THEN pc' = "stalled" /\ UNCHANGED <<due, awaiting, blind>>
     ELSE pc' = "try" /\ due' = now + Delay /\ awaiting' = FALSE /\ blind' = FALSE
  /\ UNCHANGED <<now, env, since, progress, last, moved, first>>

-----------------------------------------------------------------------------
(* A healthy holder's heartbeat is never later than its interval, a due    *)
(* step of the waiter never later than Lag.                                *)
Tick ==
  /\ now < Horizon
  /\ Waiting => now < due + Lag
  /\ beating => now < mtime + Beat
  /\ now' = now + 1
  /\ UNCHANGED <<env, wait>>

Heartbeat ==
  /\ beating
  /\ mtime' = now
  /\ UNCHANGED <<class, now, owner, beating, wait>>

Wedge ==
  /\ MayWedge /\ beating
  /\ beating' = FALSE
  /\ UNCHANGED <<class, now, owner, mtime, wait>>

PeerReleases ==
  /\ owner \in Peer
  /\ owner' = "free" /\ beating' = FALSE
  /\ UNCHANGED <<class, now, mtime, wait>>

PeerTakes(p) ==
  /\ owner = "free"
  /\ owner' = p /\ mtime' = now /\ beating' = (Beat > 0)
  /\ UNCHANGED <<class, now, wait>>

Next ==
  \/ now >= due /\ (CeilingReached \/ Take \/ Observe \/ LookFails \/ Decide)
  \/ Tick \/ Heartbeat \/ Wedge \/ PeerReleases \/ \E p \in Peer : PeerTakes(p)

Spec == Init /\ [][Next]_vars

-----------------------------------------------------------------------------
(* A wait ends neither too early nor too late.  Giving up for a stall      *)
(* means what the error says: when the waiter last could read the lock,    *)
(* nothing had touched it for the whole of lockTimeout, less the time      *)
(* until it could first be read.  The recovery of a torn lock is given up  *)
(* only at a look that failed, which is evidence of nothing (lines         *)
(* 698-702): such a lock cannot show progress, and the window in which it  *)
(* may be reclaimed opens later than the stall bound closes.  And the      *)
(* ceiling is absolute, whatever fails: no wait outlives it by more than   *)
(* one retry, and a try-take does not wait at all: it decides on the spot. *)
WaitIsBounded ==
  /\ pc = "stalled" => /\ now - moved >= LockTimeout - (first - since)
                       /\ LockTimeout > 0 /\ last.uuid = "torn" => blind
  /\ Waiting => IF LockTimeout > 0 THEN now - since <= Ceiling + Delay + Lag ELSE due <= now

-----------------------------------------------------------------------------
(* What makes it so: the inductive invariant, and what it needs of the     *)
(* parameters.                                                             *)
WaitSetting ==
  /\ Classes \subseteq [lockTimeout : Nat, ceiling : Nat, staleAfter : Nat, liveStale : Nat, beat : Nat]
  /\ Unidentified \in Nat /\ Delay \in Nat /\ Lag \in Nat
  /\ {"none", "free", "torn"} \cap Peer = {}

WaitTyped ==
  /\ class \in Classes
  /\ owner \in Peer \cup {"free", "torn"}
  /\ now \in Nat /\ mtime \in 0 .. now
  /\ since \in 0 .. now /\ progress \in since .. now /\ due \in Nat
  /\ last \in [uuid : Peer \cup {"none", "free", "torn"}, mtime : Nat] /\ moved \in Nat
  /\ first \in since .. now /\ blind \in BOOLEAN
  /\ awaiting \in BOOLEAN
  /\ pc \in {"try", "decide", "got", "ceiling", "stalled"}

(* What was seen last, and when that could last have changed.              *)
Looked ==
  /\ last.uuid = "none" => last = Nobody /\ moved = 0 /\ first = since /\ (pc = "decide" => blind)
  /\ last.uuid # "none" => last.mtime = moved
  /\ moved + since =< progress + first
  /\ pc = "decide" /\ LockTimeout > 0 /\ last.uuid = "torn" /\ ~blind => awaiting
  /\ awaiting => LockTimeout > 0

(* The loop runs when it is due, and is due in time.                       *)
Timely ==
  /\ Waiting => now =< due + Lag
  /\ Waiting /\ LockTimeout > 0 => due =< since + Ceiling + Delay
  /\ Waiting /\ LockTimeout = 0 => due =< now
  /\ pc = "stalled" => /\ now - progress >= LockTimeout
                       /\ LockTimeout > 0 /\ last.uuid = "torn" => blind

WaitInv == WaitTyped /\ Looked /\ Timely

(* The bounds are numbers.                                                 *)
Bounds == Delay \in Nat /\ Lag \in Nat /\ LockTimeout \in Nat /\ Ceiling \in Nat
=============================================================================

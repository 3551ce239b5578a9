------------------------------ MODULE FtsIndex ------------------------------
(***************************************************************************)
(* The full-text index of the knowledge store: rebuildFtsIndex() and       *)
(* optimize() of knowledge/store.ts.  Both run at the end of every         *)
(* research run, under one cross-process lock; documents are added and     *)
(* replaced meanwhile without it.  To spare useless rebuilds each process  *)
(* remembers the table version its last rebuild covers.  A handle reads    *)
(* the version it was opened at until it commits something itself, which   *)
(* takes it to the latest one.                                             *)
(***************************************************************************)
EXTENDS Integers, Sequences, FiniteSets

CONSTANTS Maintainer, \* processes that rebuild and optimize
          MaxVersion, \* bound: versions of the table
          MaxDoc      \* bound: documents ever written

VARIABLES docs,     \* docs[v]: the rows of version v of the table, a sequence
          inText, inContent,  \* the documents the two indexes cover
          baseline, \* baseline[p]: lastFtsVersion, 0 for null
          pass,     \* pass[p]: the rebuild or optimize in progress
          written,  \* documents written so far
          swapped   \* history: a replacement met the window of an optimize

ftsVars == <<docs, inText, inContent, baseline, pass, written, swapped>>

version == Len(docs)
rows == docs[version]
Idle == [at |-> "idle", seen |-> 0, docs |-> {}, from |-> 0, count |-> 0, stale |-> FALSE]
Init ==
  /\ docs = <<{1}>> /\ inText = {} /\ inContent = {}
  /\ baseline = [p \in Maintainer |-> 0] /\ pass = [p \in Maintainer |-> Idle]
  /\ written = 1 /\ swapped = FALSE

Free == \A p \in Maintainer : pass[p].at = "idle"       \* withLock
Step(p, new) == pass' = [pass EXCEPT ![p] = new]
End(p) == Step(p, Idle)

Opened(job, v, cached) ==
  [at |-> job, seen |-> v, docs |-> docs[v], from |-> 0, count |-> 0, stale |-> cached]

(* openFreshTable(): the latest version or, when that fails, a cached one. *)
Begin(p, job) ==
  /\ Free /\ version < MaxVersion
  /\ \/ Step(p, Opened(job, version, FALSE))
     \/ \E v \in 1 .. version : Step(p, Opened(job, v, TRUE))
  /\ UNCHANGED <<docs, inText, inContent, baseline, written, swapped>>

(* A commit of p through its handle, rebased on whatever is latest.        *)
Rebased(p, pc) == [at |-> pc, seen |-> version + 1, docs |-> rows, from |-> pass[p].from,
                   count |-> pass[p].count, stale |-> pass[p].stale]
Committed(p, pc) == docs' = Append(docs, rows) /\ Step(p, Rebased(p, pc))

(* What a pass notes of the version it is about to work on.                *)
Marked(p, pc, from, count) ==
  [at |-> pc, seen |-> pass[p].seen, docs |-> pass[p].docs, from |-> from,
   count |-> count, stale |-> pass[p].stale]

CheckVersion(p) ==
  /\ pass[p].at = "rebuild"
  /\ IF pass[p].docs = {} \/ (~pass[p].stale /\ baseline[p] = pass[p].seen)
     THEN End(p)
     ELSE Step(p, Marked(p, "text", pass[p].seen, 0))
  /\ UNCHANGED <<docs, inText, inContent, baseline, written, swapped>>

IndexText(p) ==
  /\ pass[p].at = "text"
  /\ \/ Committed(p, "content") /\ inText' = pass[p].docs
     \/ End(p) /\ UNCHANGED <<inText, docs>>
  /\ UNCHANGED <<inContent, baseline, written, swapped>>

IndexContent(p) ==
  /\ pass[p].at = "content"
  /\ \/ Committed(p, "record") /\ inContent' = pass[p].docs
     \/ End(p) /\ UNCHANGED <<inContent, docs>>
  /\ UNCHANGED <<inText, baseline, written, swapped>>

(* Mutant: the baseline is whatever version is latest by then.             *)
RecordLatest(p) ==
  /\ pass[p].at = "record" /\ End(p) /\ baseline' = [baseline EXCEPT ![p] = version]
  /\ UNCHANGED <<docs, inText, inContent, written, swapped>>

Record(p) ==
  /\ pass[p].at = "record" /\ End(p)
  /\ baseline' = [baseline EXCEPT ![p] = IF pass[p].seen <= pass[p].from + 2
                                         THEN pass[p].seen ELSE pass[p].from]
  /\ UNCHANGED <<docs, inText, inContent, written, swapped>>

(* _optimize(): count and version are read, the table compacted, both read *)
(* again.  `from' = 0 stands for a baseline that was not current.          *)
Sample(p) ==
  /\ pass[p].at = "optimize"
  /\ Step(p, Marked(p, "compact",
       IF ~pass[p].stale /\ baseline[p] # 0 /\ baseline[p] = pass[p].seen
       THEN pass[p].seen ELSE 0, Cardinality(pass[p].docs)))
  /\ UNCHANGED <<docs, inText, inContent, baseline, written, swapped>>

Compact(p) ==
  /\ pass[p].at = "compact"
  /\ \/ Committed(p, "stamp")
     \/ End(p) /\ UNCHANGED docs
  /\ UNCHANGED <<inText, inContent, baseline, written, swapped>>

Stamp(p) ==
  /\ pass[p].at = "stamp" /\ End(p)
  /\ baseline' = [baseline EXCEPT ![p] =
       IF pass[p].from # 0 /\ Cardinality(pass[p].docs) = pass[p].count
       THEN pass[p].seen ELSE @]
  /\ UNCHANGED <<docs, inText, inContent, written, swapped>>

(* addDocuments(), and the delete of what it replaces, by anyone.          *)
AddDoc ==
  /\ written < MaxDoc /\ version < MaxVersion
  /\ written' = written + 1
  /\ docs' = Append(docs, rows \cup {written + 1})
  /\ UNCHANGED <<inText, inContent, baseline, pass, swapped>>

DeleteDoc ==
  /\ version < MaxVersion
  /\ \E d \in rows : docs' = Append(docs, rows \ {d})
  /\ swapped' = (swapped \/ \E p \in Maintainer : pass[p].at \in {"optimize", "compact"})
  /\ UNCHANGED <<inText, inContent, baseline, pass, written>>

Maintain(p) == \/ CheckVersion(p) \/ IndexText(p) \/ IndexContent(p) \/ Record(p)
               \/ Sample(p) \/ Compact(p) \/ Stamp(p)
Next ==
  \/ \E p \in Maintainer, job \in {"rebuild", "optimize"} : Begin(p, job)
  \/ \E p \in Maintainer : Maintain(p)
  \/ AddDoc \/ DeleteDoc

Spec == Init /\ [][Next]_ftsVars

-----------------------------------------------------------------------------
(* A rebuild that is skipped because "the existing FTS index already       *)
(* covers exactly these rows" (store.ts:1338) is skipped rightly: whatever *)
(* was written, replaced, rebuilt and compacted in between by any process, *)
(* every row it sees is in both indexes.  The exception is what the row    *)
(* count cannot tell apart: a row added and another deleted in the window  *)
(* of an optimize.                                                         *)
SkipOnlyWhenCovered ==
  [][\A p \in Maintainer :
       /\ pass[p].at = "rebuild" /\ pass'[p].at = "idle"
       => pass[p].docs \subseteq inText \cap inContent \/ swapped]_ftsVars

-----------------------------------------------------------------------------
(* What makes it so.                                                       *)
Covered(ds) == ds \subseteq inText \cap inContent \/ swapped

Pass == [at : {"idle", "rebuild", "optimize", "text", "content", "record", "compact", "stamp"},
         seen : Nat, docs : SUBSET Nat, from : Nat, count : Nat, stale : BOOLEAN]

FtsTypeOK ==
  /\ docs \in Seq(SUBSET Nat) /\ version >= 1
  /\ \A v \in 1 .. version : IsFiniteSet(docs[v])
  /\ baseline \in [Maintainer -> Nat]
  /\ pass \in [Maintainer -> Pass]
  /\ written \in Nat

(* The lock: at most one pass is under way.                                *)
OnePass == \A p, q \in Maintainer : pass[p].at # "idle" /\ pass[q].at # "idle" => p = q

(* A pass has in hand the rows of a version there is.                      *)
InHand == \A p \in Maintainer : pass[p].at # "idle" =>
            pass[p].seen \in 1 .. version /\ pass[p].docs = docs[pass[p].seen]

(* The heart of it: a baseline that names the latest version, and one that *)
(* names the version a pass was opened at, vouch for the rows.             *)
Vouched ==
  /\ \A p \in Maintainer : baseline[p] <= version /\ (baseline[p] = version => Covered(rows))
  /\ \A p \in Maintainer :
       /\ pass[p].at \in {"rebuild", "optimize"} /\ ~pass[p].stale
       /\ baseline[p] = pass[p].seen
       => Covered(pass[p].docs)

(* A rebuild that nobody committed into has put its rows in both indexes.  *)
Rebuilt == \A p \in Maintainer :
  /\ pass[p].at = "text" => pass[p].from = pass[p].seen
  /\ pass[p].at = "content" =>
       /\ pass[p].seen >= pass[p].from + 1
       /\ pass[p].seen = pass[p].from + 1 => inText = pass[p].docs
  /\ pass[p].at = "record" =>
       /\ pass[p].seen >= pass[p].from + 2
       /\ pass[p].seen = pass[p].from + 2 => inText = pass[p].docs /\ inContent = pass[p].docs

(* The window of an optimize: rows are only added to it, or it is marked.  *)
Window == \A p \in Maintainer :
  /\ pass[p].at = "optimize" /\ ~pass[p].stale /\ ~swapped => pass[p].docs \subseteq rows
  /\ pass[p].at = "compact" /\ pass[p].from # 0 /\ ~swapped =>
       pass[p].docs \subseteq rows /\ Covered(pass[p].docs)
  /\ pass[p].at = "compact" => pass[p].count = Cardinality(pass[p].docs)
  /\ pass[p].at = "stamp" /\ pass[p].from # 0 /\ pass[p].count = Cardinality(pass[p].docs) =>
       Covered(pass[p].docs)

FtsInv == FtsTypeOK /\ OnePass /\ InHand /\ Vouched /\ Rebuilt /\ Window
=============================================================================

------------------------------ MODULE AuditChain ------------------------------
(***************************************************************************)
(* audit/chain.py and store.py's _audit: the ledger of every decision.     *)
(*                                                                         *)
(* Processes append to audit_events inside the transaction whose effect    *)
(* they record, several events at times, and the transaction may still be  *)
(* rolled back.  An event is what is hashed of it (type, actor, entity,    *)
(* payload and time together); SHA-256 is taken as free of collisions: a   *)
(* hash is the pair it is computed from.                                   *)
(***************************************************************************)
EXTENDS Naturals, Sequences, FiniteSets

CONSTANTS
  Processes,  \* the processes that share the database
  Events,     \* what an event may say
  MaxEvents,  \* bound: events a ledger holds
  MaxRewrites \* bound: rows altered outside the program

ASSUME AuditAssumption == MaxEvents \in Nat /\ MaxRewrites \in Nat

VARIABLES
  ledger,   \* the committed rows of audit_events, by sequence
  drafts,   \* drafts[p]: the rows the open transaction of p has added
  inside,   \* the processes inside a transaction
  history,  \* history variable: the ledger, until a row is altered
  altered   \* history variable: the sequences of the rows altered

auditVars == <<ledger, drafts, inside, history, altered>>

GENESIS == <<>>
NoBreak == 0

\* event_hash
EventHash(previous, event) == <<previous, event>>

MakeRow(event, previous, hash) ==
  [event |-> event, previousHash |-> previous, eventHash |-> hash]
Row(previous, event) == MakeRow(event, previous, EventHash(previous, event))

\* What the row after the first n of rows is linked to.
HashAt(rows, n) == IF n = 0 THEN GENESIS ELSE rows[n].eventHash

\* Fault: the row is checked against its own link.
VerifiesAlone(rows, n) == rows[n].eventHash = EventHash(rows[n].previousHash, rows[n].event)

\* One turn of the loop over the rows: the link and the hash are recomputed.
Verifies(rows, n) ==
  /\ rows[n].previousHash = HashAt(rows, n - 1)
  /\ rows[n].eventHash = EventHash(HashAt(rows, n - 1), rows[n].event)

\* verify_chain
VerifyChain(rows) == \A n \in 1 .. Len(rows) : Verifies(rows, n)

\* Fault: the link is not compared, only the hash is recomputed from it.
FindBreakByHash(rows) ==
  LET broken == {n \in 1 .. Len(rows) :
                   rows[n].eventHash # EventHash(rows[n].previousHash, rows[n].event)}
  IN  IF broken = {} THEN NoBreak ELSE CHOOSE n \in broken : \A m \in broken : n <= m

\* find_break: the first row that does not verify.
FindBreak(rows) ==
  LET broken == {n \in 1 .. Len(rows) : ~Verifies(rows, n)}
  IN  IF broken = {} THEN NoBreak ELSE CHOOSE n \in broken : \A m \in broken : n <= m

-----------------------------------------------------------------------------

AuditInit ==
  /\ ledger = <<>> /\ history = <<>> /\ altered = {}
  /\ drafts = [p \in Processes |-> <<>>]
  /\ inside = {}

\* Fault: BEGIN instead of BEGIN IMMEDIATE, which takes no lock.
BeginDeferred(p) ==
  /\ p \notin inside
  /\ inside' = inside \cup {p}
  /\ UNCHANGED <<ledger, drafts, history, altered>>

\* transaction: BEGIN IMMEDIATE, which waits for the writer inside.
Begin(p) ==
  /\ inside = {}
  /\ inside' = {p}
  /\ UNCHANGED <<ledger, drafts, history, altered>>

\* _audit: the last hash is read as the transaction sees it.
Audit(p, event) ==
  LET seen == ledger \o drafts[p]
  IN  /\ p \in inside
      /\ Len(seen) < MaxEvents
      /\ drafts' = [drafts EXCEPT ![p] = Append(@, Row(HashAt(seen, Len(seen)), event))]
      /\ UNCHANGED <<ledger, inside, history, altered>>

Leave(p) ==
  /\ inside' = inside \ {p}
  /\ drafts' = [drafts EXCEPT ![p] = <<>>]

Commit(p) ==
  /\ p \in inside
  /\ ledger' = ledger \o drafts[p]
  /\ history' = IF altered = {} THEN ledger' ELSE history
  /\ Leave(p)
  /\ UNCHANGED altered

\* An exception, or the death of the process.
Rollback(p) ==
  /\ p \in inside
  /\ Leave(p)
  /\ UNCHANGED <<ledger, history, altered>>

\* The database refuses UPDATE and DELETE, so a row is altered from outside: one
\* of its parts, or all of it so that it agrees with itself again.
Versions(row, linked, event) ==
  {MakeRow(event, row.previousHash, row.eventHash),
   MakeRow(row.event, EventHash(row.previousHash, event), row.eventHash),
   MakeRow(row.event, row.previousHash, EventHash(row.eventHash, event)),
   Row(row.previousHash, event), Row(linked, event)}

Rewrite(n, event) ==
  /\ inside = {} /\ n \notin altered /\ Cardinality(altered) < MaxRewrites
  /\ \E version \in Versions(ledger[n], HashAt(ledger, n - 1), event) \ {ledger[n]} :
       ledger' = [ledger EXCEPT ![n] = version]
  /\ altered' = altered \cup {n}
  /\ UNCHANGED <<drafts, inside, history>>

AuditNext ==
  \/ \E p \in Processes :
       Begin(p) \/ Commit(p) \/ Rollback(p) \/ \E event \in Events : Audit(p, event)
  \/ \E n \in 1 .. Len(ledger), event \in Events : Rewrite(n, event)

AuditSpec == AuditInit /\ [][AuditNext]_auditVars

-----------------------------------------------------------------------------
\* Properties

\* Rows and drafts are rows; what was added and not committed is gone with its
\* transaction.
AuditTypeOK ==
  /\ inside \subseteq Processes
  /\ DOMAIN drafts = Processes
  /\ \A p \in Processes \ inside : drafts[p] = <<>>
  /\ Len(history) <= Len(ledger)
  /\ altered \subseteq 1 .. Len(ledger)
  /\ \A n \in 1 .. Len(ledger) : ledger[n].event \in Events

\* However the transactions of several processes interleave and fail, the ledger
\* verifies as long as nobody altered it: verify_chain raises no false alarm.
IntactLedgerVerifies == altered = {} => VerifyChain(ledger)

\* verify_chain: a ledger that verifies and has one row as it was written has
\* every earlier row as it was written.  Nothing is said of the rows after the
\* last one somebody remembers.
PastIsFixed ==
  VerifyChain(ledger) =>
    \A k \in 1 .. Len(history) : ledger[k] = history[k] =>
      \A i \in 1 .. k : ledger[i] = history[i]

\* find_break and verify_chain agree, and the row find_break names was altered or
\* follows one that was.
BreakIsNamed ==
  /\ VerifyChain(ledger) <=> FindBreak(ledger) = NoBreak
  /\ FindBreak(ledger) # NoBreak => {FindBreak(ledger), FindBreak(ledger) - 1} \cap altered # {}
=============================================================================

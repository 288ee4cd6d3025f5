----------------------------- MODULE AuditProofs ------------------------------
(***************************************************************************)
(* The ledger verifies as long as nobody alters it, and one that verifies  *)
(* fixes the past of every row known to be as it was written, for any      *)
(* number of processes, events, rows and alterations.                      *)
(***************************************************************************)
EXTENDS AuditChain, TLAPS, FiniteSetTheorems

\* The ledger, and what each process would make of it by committing now, are
\* sequences of rows; one process is inside a transaction at most, and what it
\* would commit verifies.
IsRow(row) == row = MakeRow(row.event, row.previousHash, row.eventHash)
Rows(S) == /\ \A row \in S : IsRow(row)
           /\ ledger \in Seq(S) /\ drafts \in [Processes -> Seq(S)]

AuditInv ==
  /\ \E S : Rows(S)
  /\ inside \subseteq Processes
  /\ \A p, q \in inside : p = q
  /\ \A p \in Processes \ inside : drafts[p] = <<>>
  /\ altered = {} => /\ VerifyChain(ledger)
                     /\ \A p \in inside : VerifyChain(ledger \o drafts[p])

\* A row appended leaves the rows before it as they verified, and one linked to the
\* last of them verifies itself (_audit).
LEMMA AppendedRow ==
  ASSUME NEW S, NEW rows \in Seq(S), NEW row, NEW n \in 1 .. Len(rows), Verifies(rows, n)
  PROVE  Verifies(Append(rows, row), n)
<1>1. Append(rows, row)[n] = rows[n]
  OBVIOUS
<1>2. HashAt(Append(rows, row), n - 1) = HashAt(rows, n - 1)
  <2>1. n - 1 = 0 \/ n - 1 \in 1 .. Len(rows)
    OBVIOUS
  <2>. QED
    BY <2>1 DEF HashAt
<1>. QED
  BY <1>1, <1>2 DEF Verifies

LEMMA LinkedRow ==
  ASSUME NEW S, NEW rows \in Seq(S), NEW event
  PROVE  Verifies(Append(rows, Row(HashAt(rows, Len(rows)), event)), Len(rows) + 1)
<1>. DEFINE row == Row(HashAt(rows, Len(rows)), event)
            more == Append(rows, row)
<1>1. more[Len(rows) + 1] = row /\ (Len(rows) + 1) - 1 = Len(rows)
  OBVIOUS
<1>2. HashAt(more, Len(rows)) = HashAt(rows, Len(rows))
  <2>1. Len(rows) = 0 \/ Len(rows) \in 1 .. Len(rows)
    OBVIOUS
  <2>2. \A n \in 1 .. Len(rows) : more[n] = rows[n]
    OBVIOUS
  <2>. QED
    BY <2>1, <2>2 DEF HashAt
<1>. HIDE DEF more
<1>3. Verifies(more, Len(rows) + 1)
  BY <1>1, <1>2 DEF Verifies, Row, MakeRow
<1>. QED
  BY <1>3 DEF more

\* So it extends a chain.
LEMMA LinkedRowVerifies ==
  ASSUME NEW S, NEW rows \in Seq(S), VerifyChain(rows), NEW event
  PROVE  VerifyChain(Append(rows, Row(HashAt(rows, Len(rows)), event)))
<1>. DEFINE row == Row(HashAt(rows, Len(rows)), event)
<1>1. \A n \in 1 .. Len(Append(rows, row)) : n \in 1 .. Len(rows) \/ n = Len(rows) + 1
  OBVIOUS
<1>2. Verifies(Append(rows, row), Len(rows) + 1)
  BY LinkedRow
<1>. HIDE DEF row
<1>3. \A n \in 1 .. Len(rows) : Verifies(Append(rows, row), n)
  BY AppendedRow DEF VerifyChain
<1>4. VerifyChain(Append(rows, row))
  BY <1>1, <1>2, <1>3 DEF VerifyChain
<1>. QED
  BY <1>4 DEF row

\* Rows of one kind are rows of a wider one.
LEMMA WiderRows ==
  ASSUME NEW S, NEW T, S \subseteq T, NEW rows \in Seq(S)
  PROVE  rows \in Seq(T)
OBVIOUS

LEMMA AuditInit_Inv ==
  ASSUME AuditInit PROVE AuditInv
<1>1. Rows({})
  BY DEF AuditInit, Rows
<1>2. VerifyChain(<<>>)
  BY DEF VerifyChain
<1> QED
  BY <1>1, <1>2 DEF AuditInit, AuditInv

LEMMA BeginKeeps ==
  ASSUME AuditInv, NEW p \in Processes, Begin(p) PROVE AuditInv'
<1>1. \E S : Rows(S)'
  BY DEF AuditInv, Rows, Begin
<1>2. drafts[p] = <<>>
  BY DEF AuditInv, Begin
<1>3. ledger \o <<>> = ledger
  BY DEF AuditInv, Rows
<1>4. altered' = {} => VerifyChain(ledger') /\ \A q \in inside' : VerifyChain(ledger' \o drafts'[q])
  BY <1>2, <1>3 DEF AuditInv, Begin
<1> QED
  BY <1>1, <1>4 DEF AuditInv, Begin

LEMMA AuditKeeps ==
  ASSUME AuditInv, NEW p \in Processes, NEW event \in Events, Audit(p, event) PROVE AuditInv'
<1> DEFINE seen == ledger \o drafts[p]
           row == Row(HashAt(seen, Len(seen)), event)
<1>1. PICK S : Rows(S)
  BY DEF AuditInv
<1>2. p \in inside /\ inside' = inside /\ ledger' = ledger /\ altered' = altered
  BY DEF Audit
<1>3. drafts' = [drafts EXCEPT ![p] = Append(@, row)]
  BY DEF Audit
<1>4. seen \in Seq(S) /\ drafts[p] \in Seq(S) /\ ledger \in Seq(S)
  BY <1>1 DEF Rows
<1>5. \E T : Rows(T)'
  <2> DEFINE T == S \cup {row}
  <2>1. S \subseteq T /\ row \in T /\ \A r \in T : IsRow(r)
    BY <1>1 DEF Rows, IsRow, Row, MakeRow
  <2> HIDE DEF T, row
  <2>2. ledger \in Seq(T) /\ \A q \in Processes : drafts[q] \in Seq(T)
    BY <1>1, <2>1, WiderRows DEF Rows
  <2>3. drafts' \in [Processes -> Seq(T)]
    BY <1>1, <1>3, <2>1, <2>2 DEF Rows
  <2> QED
    BY <1>2, <2>1, <2>2, <2>3 DEF Rows
<1>6. ledger' \o drafts'[p] = Append(seen, row)
  <2> HIDE DEF row
  <2>1. drafts'[p] = Append(drafts[p], row)
    BY <1>1, <1>3 DEF Rows
  <2>2. ledger \o Append(drafts[p], row) = Append(ledger \o drafts[p], row)
    BY <1>4
  <2> QED
    BY <1>2, <2>1, <2>2
<1>7. altered = {} => VerifyChain(Append(seen, row))
  <2>1. altered = {} => VerifyChain(seen)
    BY <1>2 DEF AuditInv
  <2> QED
    BY <1>4, <2>1, LinkedRowVerifies
<1>8. \A q \in Processes \ inside : drafts'[q] = <<>>
  BY <1>1, <1>2, <1>3 DEF AuditInv, Rows
<1>9. altered = {} => \A q \in inside' : VerifyChain(ledger' \o drafts'[q])
  <2>1. \A q \in inside' : q = p
    BY <1>2 DEF AuditInv
  <2> QED
    BY <1>6, <1>7, <2>1
<1> QED
  BY <1>2, <1>5, <1>8, <1>9 DEF AuditInv

LEMMA CommitKeeps ==
  ASSUME AuditInv, NEW p \in Processes, Commit(p) PROVE AuditInv'
<1>1. PICK S : Rows(S)
  BY DEF AuditInv
<1>2. /\ p \in inside /\ inside' = inside \ {p} /\ ledger' = ledger \o drafts[p]
      /\ drafts' = [drafts EXCEPT ![p] = <<>>] /\ altered' = altered
  BY DEF Commit, Leave
<1>3. inside' = {}
  BY <1>2 DEF AuditInv
<1>4. Rows(S)'
  BY <1>1, <1>2 DEF Rows
<1>5. \A q \in Processes : drafts'[q] = <<>>
  BY <1>1, <1>2 DEF AuditInv, Rows
<1>6. altered' = {} => VerifyChain(ledger')
  BY <1>2 DEF AuditInv
<1> QED
  BY <1>3, <1>4, <1>5, <1>6 DEF AuditInv

LEMMA RollbackKeeps ==
  ASSUME AuditInv, NEW p \in Processes, Rollback(p) PROVE AuditInv'
<1>1. PICK S : Rows(S)
  BY DEF AuditInv
<1>2. /\ p \in inside /\ inside' = inside \ {p} /\ ledger' = ledger
      /\ drafts' = [drafts EXCEPT ![p] = <<>>] /\ altered' = altered
  BY DEF Rollback, Leave
<1>3. inside' = {}
  BY <1>2 DEF AuditInv
<1>4. Rows(S)'
  BY <1>1, <1>2 DEF Rows
<1>5. \A q \in Processes : drafts'[q] = <<>>
  BY <1>1, <1>2 DEF AuditInv, Rows
<1> QED
  BY <1>2, <1>3, <1>4, <1>5 DEF AuditInv

LEMMA RewriteKeeps ==
  ASSUME AuditInv, NEW n \in 1 .. Len(ledger), NEW event \in Events, Rewrite(n, event)
  PROVE  AuditInv'
<1>1. PICK S : Rows(S)
  BY DEF AuditInv
<1>2. PICK version : IsRow(version) /\ ledger' = [ledger EXCEPT ![n] = version]
  BY DEF Rewrite, Versions, IsRow, Row, MakeRow
<1>3. inside' = inside /\ drafts' = drafts /\ n \in altered'
  BY DEF Rewrite
<1>4. \E T : Rows(T)'
  <2> DEFINE T == S \cup {version}
  <2>1. S \subseteq T /\ version \in T /\ \A row \in T : IsRow(row)
    BY <1>1, <1>2 DEF Rows
  <2> HIDE DEF T
  <2>2. ledger \in Seq(T) /\ drafts \in [Processes -> Seq(T)]
    BY <1>1, <2>1, WiderRows DEF Rows
  <2>3. ledger' \in Seq(T)
    BY <1>2, <2>1, <2>2
  <2> QED
    BY <1>3, <2>1, <2>2, <2>3 DEF Rows
<1> QED
  BY <1>3, <1>4 DEF AuditInv

LEMMA AuditNext_Inv ==
  ASSUME AuditInv, [AuditNext]_auditVars PROVE AuditInv'
<1>1. CASE UNCHANGED auditVars
  BY <1>1 DEF auditVars, AuditInv, Rows
<1>2. ASSUME NEW p \in Processes, Begin(p) PROVE AuditInv'
  BY <1>2, BeginKeeps
<1>3. ASSUME NEW p \in Processes, Commit(p) PROVE AuditInv'
  BY <1>3, CommitKeeps
<1>4. ASSUME NEW p \in Processes, Rollback(p) PROVE AuditInv'
  BY <1>4, RollbackKeeps
<1>5. ASSUME NEW p \in Processes, NEW event \in Events, Audit(p, event) PROVE AuditInv'
  BY <1>5, AuditKeeps
<1>6. ASSUME NEW n \in 1 .. Len(ledger), NEW event \in Events, Rewrite(n, event) PROVE AuditInv'
  BY <1>6, RewriteKeeps
<1> QED
  BY <1>1, <1>2, <1>3, <1>4, <1>5, <1>6 DEF AuditNext

\* _audit under `transaction`: as long as no row is altered from outside,
\* verify_chain returns True, however processes interleave and fail.
THEOREM IntactLedger == AuditSpec => []IntactLedgerVerifies
<1>1. AuditInit => AuditInv
  BY AuditInit_Inv
<1>2. AuditInv /\ [AuditNext]_auditVars => AuditInv'
  BY AuditNext_Inv
<1>3. AuditInv => IntactLedgerVerifies
  BY DEF AuditInv, IntactLedgerVerifies
<1> QED
  BY <1>1, <1>2, <1>3, PTL DEF AuditSpec

-----------------------------------------------------------------------------

\* Induction between two numbers, as a fact about sets: what is closed under the
\* next number reaches the upper one.  Otherwise i |-> i + 1 on the set, and i |-> i
\* off it, would map d .. k into d + 1 .. k with no two images alike.
LEMMA StepsReach ==
  ASSUME NEW D, NEW d \in Nat, NEW k \in Nat, d <= k, d \in D,
         \A i \in d .. k : i \in D /\ i < k => i + 1 \in D
  PROVE  k \in D
<1>1. SUFFICES ASSUME k \notin D PROVE FALSE
  OBVIOUS
<1> DEFINE f == [i \in d .. k |-> IF i \in D THEN i + 1 ELSE i]
<1>2. f \in [d .. k -> (d + 1) .. k]
  <2>1. SUFFICES ASSUME NEW i \in d .. k PROVE f[i] \in (d + 1) .. k
    OBVIOUS
  <2>2. CASE i \in D
    BY <1>1, <2>2
  <2>3. CASE i \notin D
    BY <2>3
  <2> QED
    BY <2>2, <2>3
<1>3. \A i, j \in d .. k : i # j => f[i] # f[j]
  BY <1>1
<1>4. /\ IsFiniteSet(d .. k) /\ IsFiniteSet((d + 1) .. k)
      /\ Cardinality((d + 1) .. k) < Cardinality(d .. k)
  <2>1. d \in Int /\ d + 1 \in Int /\ k \in Int
    OBVIOUS
  <2>2. IsFiniteSet(d .. k) /\ Cardinality(d .. k) = IF d > k THEN 0 ELSE k - d + 1
    BY <2>1, FS_Interval
  <2>3. /\ IsFiniteSet((d + 1) .. k)
        /\ Cardinality((d + 1) .. k) = IF d + 1 > k THEN 0 ELSE k - (d + 1) + 1
    BY <2>1, FS_Interval
  <2> QED
    BY <2>2, <2>3
<1> HIDE DEF f
<1> QED
  BY <1>2, <1>3, <1>4, FS_PigeonHole

\* The argument for a hash chain: rows that verify and agree in one place agree
\* in every place before it, since a row names the hash of the row before it and
\* that hash names the row.
LEMMA SameRowSamePast ==
  ASSUME NEW S, \A row \in S : IsRow(row),
         NEW a \in Seq(S), NEW b \in Seq(S), VerifyChain(a), VerifyChain(b),
         NEW k \in Nat, k \in 1 .. Len(a), k \in 1 .. Len(b), a[k] = b[k]
  PROVE  \A i \in 1 .. k : a[i] = b[i]
<1> DEFINE Differ == {i \in 1 .. k : a[i] # b[i]}
<1>1. ASSUME NEW i \in 1 .. k, i < k, a[i + 1] = b[i + 1]
      PROVE  a[i] = b[i]
  <2>1. /\ i \in 1 .. Len(a) /\ i \in 1 .. Len(b)
        /\ i + 1 \in 1 .. Len(a) /\ i + 1 \in 1 .. Len(b)
    BY <1>1
  <2>2. Verifies(a, i) /\ Verifies(b, i) /\ Verifies(a, i + 1) /\ Verifies(b, i + 1)
    BY <2>1 DEF VerifyChain
  <2>3. a[i].eventHash = b[i].eventHash
    BY <1>1, <2>1, <2>2 DEF Verifies, HashAt
  <2>4. a[i].event = b[i].event /\ a[i].previousHash = b[i].previousHash
    BY <2>2, <2>3 DEF Verifies, EventHash
  <2>5. IsRow(a[i]) /\ IsRow(b[i])
    BY <2>1
  <2> QED
    BY <2>3, <2>4, <2>5 DEF IsRow
<1>2. SUFFICES ASSUME NEW d \in 1 .. k, a[d] # b[d] PROVE FALSE
  OBVIOUS
<1>3. d \in Nat /\ d <= k /\ d \in Differ
  BY <1>2
<1>4. \A i \in d .. k : i \in Differ /\ i < k => i + 1 \in Differ
  BY <1>1, <1>3
<1>5. k \notin Differ
  OBVIOUS
<1> HIDE DEF Differ
<1> QED
  BY <1>3, <1>4, <1>5, StepsReach

\* What is remembered of the ledger before it was first altered is a chain of rows
\* that the ledger has not become shorter than.
HistoryInv ==
  /\ \E S : Rows(S) /\ history \in Seq(S)
  /\ VerifyChain(history)
  /\ Len(history) <= Len(ledger)
  /\ altered = {} => history = ledger

LEMMA AuditInit_HistoryInv == AuditInit => HistoryInv
<1>. SUFFICES ASSUME AuditInit PROVE HistoryInv
  OBVIOUS
<1>1. Rows({}) /\ history \in Seq({})
  BY DEF AuditInit, Rows
<1>2. VerifyChain(<<>>) /\ Len(<<>>) <= Len(<<>>)
  BY DEF VerifyChain
<1>. QED
  BY <1>1, <1>2 DEF AuditInit, HistoryInv

LEMMA AuditNext_HistoryInv ==
  ASSUME AuditInv, AuditInv', HistoryInv, [AuditNext]_auditVars
  PROVE  HistoryInv'
<1>1. PICK S : Rows(S) /\ history \in Seq(S)
  BY DEF HistoryInv
<1>2. PICK U : Rows(U)'
  BY DEF AuditInv
<1> DEFINE T == S \cup U
<1>3. S \subseteq T /\ U \subseteq T /\ \A row \in T : IsRow(row)
  BY <1>1, <1>2 DEF Rows
<1> HIDE DEF T
<1>4. Rows(T)' /\ history \in Seq(T)
  <2>1. ledger' \in Seq(T) /\ \A p \in Processes : drafts'[p] \in Seq(T)
    BY <1>2, <1>3, WiderRows DEF Rows
  <2>2. drafts' \in [Processes -> Seq(T)]
    BY <1>2, <2>1 DEF Rows
  <2> QED
    BY <1>1, <1>3, <2>1, <2>2, WiderRows DEF Rows
<1>5. CASE UNCHANGED auditVars
  BY <1>4, <1>5 DEF HistoryInv, auditVars
<1>6. ASSUME NEW p \in Processes, Begin(p) \/ Rollback(p) PROVE HistoryInv'
  BY <1>4, <1>6 DEF HistoryInv, Begin, Rollback
<1>7. ASSUME NEW p \in Processes, NEW event \in Events, Audit(p, event) PROVE HistoryInv'
  BY <1>4, <1>7 DEF HistoryInv, Audit
<1>8. ASSUME NEW p \in Processes, Commit(p) PROVE HistoryInv'
  <2>1. /\ altered' = altered /\ ledger' = ledger \o drafts[p]
        /\ history' = IF altered = {} THEN ledger' ELSE history
    BY <1>8 DEF Commit
  <2>2. Len(ledger') = Len(ledger) + Len(drafts[p]) /\ Len(drafts[p]) \in Nat /\ Len(ledger) \in Nat
    BY <1>1, <2>1 DEF Rows
  <2>3. CASE altered = {}
    <3>1. history' = ledger' /\ VerifyChain(ledger')
      BY <2>1, <2>3 DEF AuditInv
    <3>2. Len(history') <= Len(ledger')
      BY <1>4, <3>1 DEF Rows
    <3>3. history' \in Seq(T)
      BY <1>4, <3>1 DEF Rows
    <3>4. VerifyChain(history')
      BY <3>1
    <3> QED
      BY <1>4, <3>1, <3>2, <3>3, <3>4 DEF HistoryInv
  <2>4. CASE altered # {}
    <3>1. history' = history /\ Len(history) \in Nat
      BY <1>1, <2>1, <2>4
    <3>2. Len(history') <= Len(ledger')
      BY <2>2, <3>1 DEF HistoryInv
    <3> QED
      BY <1>4, <2>1, <2>4, <3>1, <3>2 DEF HistoryInv
  <2> QED
    BY <2>3, <2>4
<1>9. ASSUME NEW n \in 1 .. Len(ledger), NEW event \in Events, Rewrite(n, event)
      PROVE  HistoryInv'
  <2>1. PICK version : ledger' = [ledger EXCEPT ![n] = version]
    BY <1>9 DEF Rewrite
  <2>2. Len(ledger') = Len(ledger)
    BY <1>1, <1>4, <2>1 DEF Rows
  <2>3. history' = history /\ altered' # {}
    BY <1>9 DEF Rewrite
  <2> QED
    BY <1>4, <2>2, <2>3 DEF HistoryInv
<1> QED
  BY <1>5, <1>6, <1>7, <1>8, <1>9 DEF AuditNext

LEMMA HistoryInv_PastIsFixed ==
  ASSUME HistoryInv PROVE PastIsFixed
<1>1. PICK S : Rows(S) /\ history \in Seq(S)
  BY DEF HistoryInv
<1>2. SUFFICES ASSUME VerifyChain(ledger), NEW k \in 1 .. Len(history), ledger[k] = history[k]
               PROVE  \A i \in 1 .. k : ledger[i] = history[i]
  BY DEF PastIsFixed
<1>3. k \in Nat /\ k \in 1 .. Len(ledger)
  BY <1>1, <1>2 DEF HistoryInv, Rows
<1> QED
  BY <1>1, <1>2, <1>3, SameRowSamePast DEF HistoryInv, Rows

\* verify_chain: whatever is altered outside the program, a ledger that verifies
\* and has one row as it was written has every row before it as it was written.
THEOREM FixedPast == AuditSpec => []PastIsFixed
<1>1. AuditInit => AuditInv /\ HistoryInv
  BY AuditInit_Inv, AuditInit_HistoryInv
<1>2. (AuditInv /\ HistoryInv) /\ [AuditNext]_auditVars => (AuditInv /\ HistoryInv)'
  BY AuditNext_Inv, AuditNext_HistoryInv
<1>3. HistoryInv => PastIsFixed
  BY HistoryInv_PastIsFixed
<1> QED
  BY <1>1, <1>2, <1>3, PTL DEF AuditSpec

-----------------------------------------------------------------------------

\* A row is of an event that may happen, in the ledger and in every draft, and only
\* rows of the ledger are altered.
Eventful(rows) == \A n \in 1 .. Len(rows) : rows[n].event \in Events
EventInv ==
  /\ Eventful(ledger) /\ \A p \in Processes : Eventful(drafts[p])
  /\ altered \subseteq 1 .. Len(ledger)

\* Appended to and joined, they stay so.
LEMMA EventfulAppend ==
  ASSUME NEW S, NEW rows \in Seq(S), Eventful(rows), NEW row, row.event \in Events
  PROVE  Eventful(Append(rows, row))
<1>1. /\ Len(Append(rows, row)) = Len(rows) + 1 /\ Append(rows, row)[Len(rows) + 1] = row
      /\ \A n \in 1 .. Len(rows) : Append(rows, row)[n] = rows[n]
  OBVIOUS
<1>. QED
  BY <1>1 DEF Eventful

LEMMA EventfulJoin ==
  ASSUME NEW S, NEW a \in Seq(S), NEW b \in Seq(S), Eventful(a), Eventful(b)
  PROVE  Eventful(a \o b)
<1>1. /\ Len(a \o b) = Len(a) + Len(b) /\ Len(a) \in Nat /\ Len(b) \in Nat
      /\ \A n \in 1 .. Len(a) + Len(b) :
           (a \o b)[n] = IF n <= Len(a) THEN a[n] ELSE b[n - Len(a)]
  OBVIOUS
<1>. SUFFICES ASSUME NEW n \in 1 .. Len(a) + Len(b) PROVE (a \o b)[n].event \in Events
  BY <1>1 DEF Eventful
<1>2. CASE n <= Len(a)
  BY <1>1, <1>2 DEF Eventful
<1>3. CASE ~(n <= Len(a))
  <2>1. n - Len(a) \in 1 .. Len(b)
    BY <1>1, <1>3
  <2>. QED
    BY <1>1, <1>3, <2>1 DEF Eventful
<1>. QED
  BY <1>2, <1>3

LEMMA AuditNext_EventInv ==
  ASSUME AuditInv, EventInv, [AuditNext]_auditVars
  PROVE  EventInv'
<1>1. PICK S : Rows(S)
  BY DEF AuditInv
<1>2. CASE UNCHANGED auditVars
  BY <1>2 DEF EventInv, Eventful, auditVars
<1>3. ASSUME NEW p \in Processes, Begin(p) PROVE EventInv'
  BY <1>3 DEF EventInv, Eventful, Begin
<1>4. Eventful(<<>>)
  BY DEF Eventful
<1>5. ASSUME NEW p \in Processes, Rollback(p) PROVE EventInv'
  <2>1. /\ ledger' = ledger /\ altered' = altered /\ drafts'[p] = <<>>
        /\ \A q \in Processes : q # p => drafts'[q] = drafts[q]
    BY <1>1, <1>5 DEF Rollback, Leave, Rows
  <2>. QED
    BY <1>4, <2>1 DEF EventInv, Eventful
<1>6. ASSUME NEW p \in Processes, Commit(p) PROVE EventInv'
  <2>1. /\ ledger' = ledger \o drafts[p] /\ altered' = altered /\ drafts'[p] = <<>>
        /\ \A q \in Processes : q # p => drafts'[q] = drafts[q]
    BY <1>1, <1>6 DEF Commit, Leave, Rows
  <2>2. Eventful(ledger \o drafts[p])
    BY <1>1, EventfulJoin DEF EventInv, Rows
  <2>3. Len(ledger) \in Nat /\ Len(ledger) <= Len(ledger \o drafts[p])
    BY <1>1 DEF Rows
  <2>. QED
    BY <1>4, <2>1, <2>2, <2>3 DEF EventInv, Eventful
<1>7. ASSUME NEW p \in Processes, NEW event \in Events, Audit(p, event) PROVE EventInv'
  <2>. DEFINE seen == ledger \o drafts[p]
              row == Row(HashAt(seen, Len(seen)), event)
  <2>1. row.event \in Events
    BY DEF Row, MakeRow
  <2>2. drafts' = [drafts EXCEPT ![p] = Append(@, row)]
    BY <1>7 DEF Audit
  <2>. HIDE DEF row
  <2>3. Eventful(Append(drafts[p], row))
    BY <1>1, <2>1, EventfulAppend DEF EventInv, Rows
  <2>4. /\ ledger' = ledger /\ altered' = altered /\ drafts'[p] = Append(drafts[p], row)
        /\ \A q \in Processes : q # p => drafts'[q] = drafts[q]
    BY <1>1, <1>7, <2>2 DEF Audit, Rows
  <2>. QED
    BY <2>3, <2>4 DEF EventInv, Eventful
<1>8. ASSUME NEW n \in 1 .. Len(ledger), NEW event \in Events, Rewrite(n, event)
      PROVE  EventInv'
  <2>1. ledger[n].event \in Events
    BY DEF EventInv, Eventful
  <2>2. PICK version : version.event \in Events /\ ledger' = [ledger EXCEPT ![n] = version]
    BY <1>8, <2>1 DEF Rewrite, Versions, Row, MakeRow
  <2>3. /\ Len(ledger') = Len(ledger) /\ ledger'[n] = version
        /\ \A m \in 1 .. Len(ledger) : m # n => ledger'[m] = ledger[m]
    BY <1>1, <2>2 DEF Rows
  <2>4. drafts' = drafts /\ altered' = altered \cup {n}
    BY <1>8 DEF Rewrite
  <2>. QED
    BY <2>2, <2>3, <2>4 DEF EventInv, Eventful
<1>. QED
  BY <1>2, <1>3, <1>5, <1>6, <1>7, <1>8 DEF AuditNext

LEMMA AuditInit_EventInv == AuditInit => EventInv
  BY DEF AuditInit, EventInv, Eventful

\* What was added and not committed is gone with its transaction; the ledger holds
\* events, is no shorter than what is remembered of it, and nothing else is altered.
THEOREM AuditTyped == AuditSpec => []AuditTypeOK
<1>1. AuditInit => AuditInv /\ HistoryInv /\ EventInv
  BY AuditInit_Inv, AuditInit_HistoryInv, AuditInit_EventInv
<1>2. (AuditInv /\ HistoryInv /\ EventInv) /\ [AuditNext]_auditVars
        => (AuditInv /\ HistoryInv /\ EventInv)'
  BY AuditNext_Inv, AuditNext_HistoryInv, AuditNext_EventInv
<1>3. AuditInv /\ HistoryInv /\ EventInv => AuditTypeOK
  BY DEF AuditInv, HistoryInv, EventInv, Eventful, AuditTypeOK, Rows
<1>. QED
  BY <1>1, <1>2, <1>3, PTL DEF AuditSpec

-----------------------------------------------------------------------------

\* A set of numbers from 1 to k that is not empty has a least one: below it, one
\* number after the other is smaller than all of them.
LEMMA LeastOfSome ==
  ASSUME NEW k \in Nat, NEW S, S \subseteq 1 .. k, S # {}
  PROVE  \E n \in S : \A m \in S : n <= m
<1>. DEFINE Below == {i \in 0 .. k : \A m \in S : i < m}
<1>1. SUFFICES ASSUME \A n \in S : \E m \in S : m < n PROVE FALSE
  OBVIOUS
<1>2. 0 \in Nat /\ 0 <= k /\ 0 \in Below
  OBVIOUS
<1>3. \A i \in 0 .. k : i \in Below /\ i < k => i + 1 \in Below
  <2>1. SUFFICES ASSUME NEW i \in 0 .. k, \A m \in S : i < m, i < k, NEW m \in S
                 PROVE  i + 1 < m
    OBVIOUS
  <2>2. PICK l \in S : l < m
    BY <1>1
  <2>3. i < l /\ l \in Nat /\ m \in Nat
    BY <2>1, <2>2
  <2>. QED
    BY <2>2, <2>3
<1>4. k \notin Below
  <2>1. PICK m \in S : m \in 1 .. k
    OBVIOUS
  <2>. QED
    BY <2>1
<1>. HIDE DEF Below
<1>. QED
  BY <1>2, <1>3, <1>4, StepsReach

\* find_break returns nothing for a chain that verifies and else the first row that
\* does not, whatever the rows are.
LEMMA FindBreakFinds ==
  ASSUME NEW S, NEW rows \in Seq(S)
  PROVE  \/ VerifyChain(rows) /\ FindBreak(rows) = NoBreak
         \/ /\ FindBreak(rows) \in 1 .. Len(rows) /\ ~Verifies(rows, FindBreak(rows))
            /\ \A n \in 1 .. Len(rows) : ~Verifies(rows, n) => FindBreak(rows) <= n
<1>. DEFINE broken == {n \in 1 .. Len(rows) : ~Verifies(rows, n)}
<1>1. FindBreak(rows) = IF broken = {} THEN NoBreak
                                       ELSE CHOOSE n \in broken : \A m \in broken : n <= m
  BY DEF FindBreak
<1>2. CASE broken = {}
  BY <1>1, <1>2 DEF VerifyChain
<1>3. CASE broken # {}
  <2>1. Len(rows) \in Nat /\ broken \subseteq 1 .. Len(rows)
    OBVIOUS
  <2>. HIDE DEF broken
  <2>2. \E n \in broken : \A m \in broken : n <= m
    BY <1>3, <2>1, LeastOfSome
  <2>3. FindBreak(rows) \in broken /\ \A m \in broken : FindBreak(rows) <= m
    BY <1>1, <1>3, <2>2
  <2>. QED
    BY <2>3 DEF broken
<1>. QED
  BY <1>2, <1>3

\* A row verifies unless it was altered or follows one that was, in the ledger and
\* in what the process inside would make of it.
SoundButAltered(rows) ==
  \A n \in 1 .. Len(rows) : n \notin altered /\ n - 1 \notin altered => Verifies(rows, n)
BreakInv ==
  /\ SoundButAltered(ledger)
  /\ \A p \in inside : SoundButAltered(ledger \o drafts[p])

LEMMA AuditNext_BreakInv ==
  ASSUME AuditInv, BreakInv, [AuditNext]_auditVars
  PROVE  BreakInv'
<1>1. PICK S : Rows(S)
  BY DEF AuditInv
<1>2. CASE UNCHANGED auditVars
  BY <1>2 DEF BreakInv, SoundButAltered, auditVars
<1>3. ASSUME NEW p \in Processes, Begin(p) PROVE BreakInv'
  <2>1. inside' = {p} /\ ledger' = ledger /\ drafts' = drafts /\ altered' = altered
    BY <1>3 DEF Begin
  <2>2. drafts[p] = <<>> /\ ledger \o <<>> = ledger
    BY <1>1, <1>3 DEF AuditInv, Begin, Rows
  <2>. QED
    BY <2>1, <2>2 DEF BreakInv, SoundButAltered
<1>4. ASSUME NEW p \in Processes, Rollback(p) PROVE BreakInv'
  <2>1. inside' = {} /\ ledger' = ledger /\ altered' = altered
    BY <1>4 DEF AuditInv, Rollback, Leave
  <2>. QED
    BY <2>1 DEF BreakInv, SoundButAltered
<1>5. ASSUME NEW p \in Processes, Commit(p) PROVE BreakInv'
  <2>1. inside' = {} /\ ledger' = ledger \o drafts[p] /\ altered' = altered /\ p \in inside
    BY <1>5 DEF AuditInv, Commit, Leave
  <2>. QED
    BY <2>1 DEF BreakInv, SoundButAltered
<1>6. ASSUME NEW p \in Processes, NEW event \in Events, Audit(p, event) PROVE BreakInv'
  <2>. DEFINE seen == ledger \o drafts[p]
              row == Row(HashAt(seen, Len(seen)), event)
  <2>1. /\ p \in inside /\ inside' = inside /\ ledger' = ledger /\ altered' = altered
        /\ drafts'[p] = Append(drafts[p], row)
    BY <1>1, <1>6 DEF Audit, Rows
  <2>2. seen \in Seq(S) /\ drafts[p] \in Seq(S) /\ ledger \in Seq(S)
    BY <1>1 DEF Rows
  <2>3. Verifies(Append(seen, row), Len(seen) + 1)
    BY <2>2, LinkedRow
  <2>. HIDE DEF row
  <2>4. ledger \o Append(drafts[p], row) = Append(seen, row)
    BY <2>2
  <2>5. SoundButAltered(seen)
    BY <2>1 DEF BreakInv
  <2>. HIDE DEF seen
  <2>6. \A n \in 1 .. Len(Append(seen, row)) : n \in 1 .. Len(seen) \/ n = Len(seen) + 1
    BY <2>2
  <2>7. SoundButAltered(Append(seen, row))
    BY <2>2, <2>3, <2>5, <2>6, AppendedRow DEF SoundButAltered
  <2>8. \A q \in inside : q = p
    BY <2>1 DEF AuditInv
  <2>. QED
    BY <2>1, <2>4, <2>7, <2>8 DEF BreakInv, SoundButAltered
<1>7. ASSUME NEW n \in 1 .. Len(ledger), NEW event \in Events, Rewrite(n, event)
      PROVE  BreakInv'
  <2>1. PICK version : ledger' = [ledger EXCEPT ![n] = version]
    BY <1>7 DEF Rewrite
  <2>2. inside' = {} /\ altered' = altered \cup {n}
    BY <1>7 DEF Rewrite
  <2>3. /\ Len(ledger') = Len(ledger) /\ Len(ledger) \in Nat
        /\ \A m \in 1 .. Len(ledger) : m # n => ledger'[m] = ledger[m]
    BY <1>1, <2>1 DEF Rows
  <2>4. ASSUME NEW m \in 1 .. Len(ledger), m # n, m - 1 # n, Verifies(ledger, m)
        PROVE  Verifies(ledger', m)
    <3>1. m - 1 = 0 \/ m - 1 \in 1 .. Len(ledger)
      BY <2>3
    <3>2. HashAt(ledger', m - 1) = HashAt(ledger, m - 1)
      BY <2>3, <2>4, <3>1 DEF HashAt
    <3>. QED
      BY <2>3, <2>4, <3>2 DEF Verifies
  <2>. QED
    BY <2>2, <2>3, <2>4 DEF BreakInv, SoundButAltered
<1>. QED
  BY <1>2, <1>3, <1>4, <1>5, <1>6, <1>7 DEF AuditNext

LEMMA AuditInit_BreakInv == AuditInit => BreakInv
  BY DEF AuditInit, BreakInv, SoundButAltered

\* find_break names a row exactly when verify_chain fails, and the row it names was
\* altered or follows one that was, however many rows were altered and to what.
THEOREM BreakNamed == AuditSpec => []BreakIsNamed
<1>1. AuditInit => AuditInv /\ BreakInv
  BY AuditInit_Inv, AuditInit_BreakInv
<1>2. (AuditInv /\ BreakInv) /\ [AuditNext]_auditVars => (AuditInv /\ BreakInv)'
  BY AuditNext_Inv, AuditNext_BreakInv
<1>3. ASSUME AuditInv, BreakInv PROVE BreakIsNamed
  <2>1. PICK S : ledger \in Seq(S)
    BY <1>3 DEF AuditInv, Rows
  <2>2. CASE VerifyChain(ledger) /\ FindBreak(ledger) = NoBreak
    BY <2>2 DEF BreakIsNamed
  <2>3. CASE FindBreak(ledger) \in 1 .. Len(ledger) /\ ~Verifies(ledger, FindBreak(ledger))
    <3>1. FindBreak(ledger) # NoBreak /\ ~VerifyChain(ledger)
      BY <2>3 DEF NoBreak, VerifyChain
    <3>2. FindBreak(ledger) \in altered \/ FindBreak(ledger) - 1 \in altered
      BY <1>3, <2>3 DEF BreakInv, SoundButAltered
    <3>. QED
      BY <3>1, <3>2 DEF BreakIsNamed
  <2>. QED
    BY <2>1, <2>2, <2>3, FindBreakFinds
<1>. QED
  BY <1>1, <1>2, <1>3, PTL DEF AuditSpec
=============================================================================

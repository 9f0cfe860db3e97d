-------------------------- MODULE DiagnosticsProofs --------------------------
(***************************************************************************)
(* Proofs about Diagnostics for any tasks, targets, limits and times, and  *)
(* any number of errors and kills.                                         *)
(***************************************************************************)
EXTENDS Diagnostics, FiniteSetTheorems, WellFoundedInduction, TLAPS

\* A set of numbers that is not empty has a least one, and Min returns it.
LEMMA MinOfNats ==
  ASSUME NEW S \in SUBSET Nat, S # {}
  PROVE  Min(S) \in S /\ \A n \in S : Min(S) <= n
<1> DEFINE R == OpToRel(<, Nat)
<1>1. \A i, j \in Nat : <<i, j>> \in R <=> i < j
  BY DEF OpToRel
<1>2. IsWellFoundedOn(R, Nat)
  BY NatLessThanWellFounded
<1> HIDE DEF R
<1>3. PICK m \in S : \A n \in S : <<n, m>> \notin R
  BY <1>2, WFMin
<1>4. \A n \in S : n \in Nat /\ m \in Nat /\ ~(n < m)
  BY <1>1, <1>3
<1>5. \A n \in S : m <= n
  BY <1>4
<1> QED
  BY <1>4, <1>5 DEF Min

-----------------------------------------------------------------------------
(* The rows that a limit leaves. *)

\* Rows are told apart by the numbers of their reports.
Identified(X) == \A r \in X : r.id \in Nat /\ \A s \in X : r.id = s.id => r = s

\* A set within the limit is left alone.
LEMMA NewestKeepsAll ==
  ASSUME NEW X, IsFiniteSet(X), Identified(X), NEW n \in Nat, Cardinality(X) <= n
  PROVE  Newest(X, n) = X
<1> SUFFICES ASSUME NEW r \in X
             PROVE  Cardinality({s \in X : s.id > r.id}) < n
  BY DEF Newest
<1> DEFINE Y == {s \in X : s.id > r.id}
<1>1. Y \in SUBSET (X \ {r})
  BY DEF Identified
<1>2. /\ IsFiniteSet(X \ {r}) /\ Cardinality(X \ {r}) = Cardinality(X) - 1
      /\ Cardinality(X) \in Nat
  BY FS_RemoveElement, FS_CardinalityType
<1>3. Cardinality(Y) <= Cardinality(X \ {r}) /\ IsFiniteSet(Y)
  BY <1>1, <1>2, FS_Subset
<1>4. Cardinality(Y) \in Nat
  BY <1>3, FS_CardinalityType
<1> HIDE DEF Y
<1>5. Cardinality(Y) < n
  BY <1>2, <1>3, <1>4
<1> QED
  BY <1>5 DEF Y

\* Every set of rows has an oldest one.
LEMMA OldestExists ==
  ASSUME NEW X, Identified(X), X # {}
  PROVE  \E d \in X : \A r \in X \ {d} : d.id < r.id
<1> DEFINE S == {r.id : r \in X}
<1>1. S \in SUBSET Nat /\ S # {}
  BY DEF Identified
<1>2. Min(S) \in S /\ \A n \in S : Min(S) <= n
  BY <1>1, MinOfNats
<1>3. PICK d \in X : d.id = Min(S)
  BY <1>2
<1>4. \A r \in X : d.id <= r.id /\ d.id \in Nat /\ r.id \in Nat /\ (r.id = d.id => r = d)
  BY <1>2, <1>3 DEF Identified
<1>5. \A r \in X \ {d} : d.id < r.id
  BY <1>4
<1> QED
  BY <1>5

\* A set that is one over the limit loses its oldest row.
LEMMA NewestDropsOldest ==
  ASSUME NEW X, IsFiniteSet(X), Identified(X), NEW n \in Nat, Cardinality(X) = n + 1
  PROVE  \E d \in X : /\ Newest(X, n) = X \ {d}
                      /\ Cardinality(X \ {d}) = n
                      /\ \A r \in X \ {d} : d.id < r.id
<1>1. X # {}
  BY FS_EmptySet
<1>2. PICK d \in X : \A r \in X \ {d} : d.id < r.id
  BY <1>1, OldestExists
<1>3. IsFiniteSet(X \ {d}) /\ Cardinality(X \ {d}) = n
  BY FS_RemoveElement
<1>4. d.id \in Nat
  BY DEF Identified
<1>5. {s \in X : s.id > d.id} = X \ {d}
  <2>1. ~(d.id > d.id)
    BY <1>4
  <2>2. \A s \in X \ {d} : s.id > d.id
    BY <1>2, <1>4 DEF Identified
  <2> QED
    BY <2>1, <2>2
<1>6. d \notin Newest(X, n)
  BY <1>3, <1>5 DEF Newest
<1>7. ASSUME NEW r \in X \ {d}
      PROVE  r \in Newest(X, n)
  <2> DEFINE Y == {s \in X : s.id > r.id}
             Z == (X \ {d}) \ {r}
  <2>1. d.id < r.id /\ r.id \in Nat /\ d.id \in Nat
    BY <1>2, <1>4 DEF Identified
  <2>2. ~(d.id > r.id) /\ ~(r.id > r.id)
    BY <2>1
  <2>3. Y \in SUBSET Z
    BY <2>2
  <2>4. IsFiniteSet(Z) /\ Cardinality(Z) = n - 1
    BY <1>3, FS_RemoveElement
  <2>5. IsFiniteSet(Y) /\ Cardinality(Y) <= Cardinality(Z)
    BY <2>3, <2>4, FS_Subset
  <2>6. Cardinality(Y) \in Nat
    BY <2>5, FS_CardinalityType
  <2> HIDE DEF Y, Z
  <2>7. Cardinality(Y) < n
    BY <2>4, <2>5, <2>6
  <2> QED
    BY <2>7 DEF Newest, Y
<1>8. Newest(X, n) = X \ {d}
  BY <1>6, <1>7 DEF Newest
<1> QED
  BY <1>2, <1>3, <1>8

\* A batch that is not empty has a newest report, so Current is one of it.
LEMMA CurrentInBatch ==
  ASSUME IsFiniteSet(batch), Identified(batch), batch # {}, NEW m \in Nat,
         \A r \in batch : r.id <= m
  PROVE  Current \in batch
<1> DEFINE S == {m - r.id : r \in batch}
<1>1. \A r \in batch : r.id \in Nat /\ m - r.id \in Nat
  BY DEF Identified
<1>2. S \in SUBSET Nat /\ S # {}
  BY <1>1
<1>3. Min(S) \in S /\ \A n \in S : Min(S) <= n
  BY <1>2, MinOfNats
<1>4. PICK c \in batch : m - c.id = Min(S)
  BY <1>3
<1>5. \A r \in batch : m - c.id <= m - r.id
  BY <1>3, <1>4
<1>6. \A r \in batch : ~(r.id > c.id)
  BY <1>1, <1>5
<1>7. {s \in batch : s.id > c.id} = {}
  BY <1>6
<1>8. c \in Newest(batch, 1)
  BY <1>7, FS_EmptySet DEF Newest
<1> QED
  BY <1>8 DEF Current

\* A report that the retention leaves.
Alive(r) == r.created + Retention >= clock

\* What is left when a row is stored: everything that is alive, or all of it
\* but the oldest, when the row is new and the table was full.
LEMMA SavedEffect ==
  ASSUME IsFiniteSet(rows), Cardinality(rows) <= MaxReports, Identified(rows),
         NEW row, row.id \in Nat
  PROVE  LET X == {r \in (rows \ {r \in rows : r.id = row.id}) \cup {row} : Alive(r)}
         IN  /\ IsFiniteSet(Saved(row))
             /\ \/ Saved(row) = X /\ Cardinality(X) <= MaxReports
                \/ /\ \A r \in rows : r.id # row.id
                   /\ \E d \in X : /\ Saved(row) = X \ {d}
                                   /\ Cardinality(X \ {d}) = MaxReports
                                   /\ \A r \in X \ {d} : d.id < r.id
<1> DEFINE old == {r \in rows : r.id = row.id}
           all == (rows \ old) \cup {row}
           X == {r \in all : Alive(r)}
<1>0. MaxReports \in Nat /\ Cardinality(rows) \in Nat
  BY NumbersAssumption, FS_CardinalityType
<1>1. /\ IsFiniteSet(rows \ old) /\ Cardinality(rows \ old) <= Cardinality(rows)
      /\ Cardinality(rows \ old) \in Nat
      /\ Cardinality(rows \ old) = Cardinality(rows) => old = {}
  <2>1. rows \ old \in SUBSET rows
    OBVIOUS
  <2>2. rows = rows \ old => old = {}
    OBVIOUS
  <2> QED
    BY <2>1, <2>2, FS_Subset, FS_CardinalityType
<1>2. /\ IsFiniteSet(all) /\ Cardinality(all) \in Nat
      /\ Cardinality(all) <= Cardinality(rows \ old) + 1
  <2> DEFINE rest == rows \ old
  <2>1. IsFiniteSet(rest) /\ Cardinality(rest) \in Nat
    BY <1>1
  <2> HIDE DEF rest
  <2>2. /\ IsFiniteSet(rest \cup {row})
        /\ Cardinality(rest \cup {row}) = IF row \in rest THEN Cardinality(rest) ELSE Cardinality(rest) + 1
    BY <2>1, FS_AddElement
  <2>3. IsFiniteSet(rest \cup {row}) /\ Cardinality(rest \cup {row}) <= Cardinality(rest) + 1
    BY <2>1, <2>2
  <2>4. Cardinality(rest \cup {row}) \in Nat
    BY <2>3, FS_CardinalityType
  <2> QED
    BY <2>3, <2>4 DEF rest
<1>3. Identified(all)
  BY DEF Identified
<1>4. X \in SUBSET all
  OBVIOUS
<1>5. /\ IsFiniteSet(X) /\ Cardinality(X) <= Cardinality(all) /\ Cardinality(X) \in Nat
  BY <1>2, <1>4, FS_Subset, FS_CardinalityType
<1>6. Identified(X)
  BY <1>3, <1>4 DEF Identified
<1>7. Saved(row) = Newest(X, MaxReports)
  BY DEF Saved, Alive
<1>8. Newest(X, MaxReports) \in SUBSET X
  BY DEF Newest
<1>9. IsFiniteSet(Saved(row))
  BY <1>5, <1>7, <1>8, FS_Subset
<1> HIDE DEF old, X, all
<1>10. CASE Cardinality(X) <= MaxReports
  <2>1. Saved(row) = X
    BY <1>0, <1>5, <1>6, <1>7, <1>10, NewestKeepsAll
  <2> QED
    BY <2>1, <1>9, <1>10 DEF X, all, old
<1>11. CASE ~(Cardinality(X) <= MaxReports)
  <2>1. Cardinality(X) = MaxReports + 1 /\ Cardinality(rows \ old) = Cardinality(rows)
    BY <1>0, <1>1, <1>2, <1>5, <1>11
  <2>2. \A r \in rows : r.id # row.id
    BY <2>1, <1>1 DEF old
  <2>3. \E d \in X : /\ Newest(X, MaxReports) = X \ {d}
                     /\ Cardinality(X \ {d}) = MaxReports
                     /\ \A r \in X \ {d} : d.id < r.id
    BY <2>1, <1>0, <1>5, <1>6, NewestDropsOldest
  <2> QED
    BY <2>2, <2>3, <1>7, <1>9 DEF X, all, old
<1> QED
  BY <1>10, <1>11

-----------------------------------------------------------------------------
(* The inductive invariant. *)

Triggers == {"evidence", "gap", "oom", "pressure"}

Calls == [pc : {"idle", "waiting", "holding", "done"}, scope : Scopes,
          trigger : Triggers \cup {""}, at : 0 .. MaxTime, created : 0 .. MaxTime, id : Nat]

\* The table, the mails queued about it and the batch that run has read of it.
StoreTypes ==
  /\ clock \in 0 .. MaxTime /\ made \in Nat
  /\ rows \subseteq Rows /\ IsFiniteSet(rows) /\ Cardinality(rows) <= MaxReports
  /\ batch \subseteq Rows /\ IsFiniteSet(batch)
  /\ mailed \subseteq 1 .. made

\* Captures and the lock.
CallTypes ==
  /\ lock \in Callers \cup {NoTask}
  /\ call \in [Callers -> Calls]
  /\ \A c \in Callers :
       /\ call[c].pc = "holding" <=> lock = c
       /\ call[c].at <= clock
       /\ call[c].pc \in {"waiting", "holding"} => call[c].trigger \in Triggers

\* What the service keeps of the samples.
LoopTypes ==
  /\ step \in {"idle", "finish", "save", "sample", "gap", "oom", "mail", "pressure"}
  /\ missing \in 0 .. clock \cup {NoTime}
  /\ gapMails \in 0 .. 1 /\ gapTold \in BOOLEAN
  /\ oomTodo \subseteq Targets /\ pressure \in 0 .. Sustained
  /\ sample.oom \subseteq Targets /\ faults \in Nat
  /\ oomMail \in [Targets -> Nat \cup {NoTime}] /\ oomTold = oomMail

\* run is in a capture exactly where it waits for one, and in the one it asked
\* for there.
LoopCall ==
  /\ step \notin {"gap", "mail", "pressure"} => call[Loop] = NoCall
  /\ step = "gap" => call[Loop].trigger = "gap" /\ call[Loop].pc # "idle"
  /\ step = "pressure" => call[Loop].trigger = "pressure" /\ call[Loop].pc # "idle"
  /\ step = "mail" => /\ call[Loop].trigger = "oom" /\ call[Loop].pc # "idle"
                      /\ call[Loop].scope \in Targets

\* An outage is marked as told when its alarm was queued, and no alarm is on
\* its way for one that is.
GapOnce ==
  /\ gapMails = IF gapTold THEN 1 ELSE 0
  /\ step = "gap" => ~gapTold
  /\ step \notin {"oom", "mail"} => oomTodo = {}

\* Reports are numbered in the order of their times, also those that run has
\* read and a capture has deleted since.
Numbered ==
  \A r, s \in rows \cup batch :
    /\ r.id = s.id => r = s
    /\ r.id < s.id => r.created <= s.created

\* A deleted report stays deleted: it is too old, or the table is full of
\* newer ones.
Gone(b) == ~Alive(b) \/ (Cardinality(rows) = MaxReports /\ \A r \in rows : b.id < r.id)

\* run completes what is in the table, or what cannot come back into it, and
\* has queued the mail of the report it is about to complete.
BatchOK ==
  /\ \A b \in batch : b.state = "collecting" /\ (b \in rows \/ Gone(b))
  /\ step = "save" => batch # {} /\ (EmailReports => Current.id \in mailed)

\* The capture that holds the lock is the newest, and its cooldown check still
\* holds, although run may have saved rows since.
HolderOK ==
  \A c \in Callers : call[c].pc = "holding" =>
    /\ call[c].id = made /\ made > 0 /\ call[c].created <= clock
    /\ \A r \in rows \cup batch : r.id < made /\ r.created <= call[c].created
    /\ call[c].trigger # "oom" =>
         \A r \in rows : r.scope = call[c].scope => call[c].created >= r.created + Cooldown

StoreInv == StoreTypes /\ Numbered /\ BatchOK /\ HolderOK /\ ReportBooks

DiagInv == StoreInv /\ CallTypes /\ LoopTypes /\ LoopCall /\ GapOnce

-----------------------------------------------------------------------------
(* Steps that leave the table alone. *)

\* Rows stay rows when time passes and reports are made.
LEMMA RowsGrow ==
  ASSUME clock \in Nat, clock' \in Nat, clock <= clock', made \in Nat, made' \in Nat, made <= made'
  PROVE  /\ Rows \subseteq Rows'
         /\ 1 .. made \subseteq 1 .. made'
         /\ \A r \in Rows : r.id \in 1 .. made /\ r.id \in Nat /\ r.created \in 0 .. clock /\ r.created \in Nat
<1>1. 0 .. clock \subseteq 0 .. clock' /\ 1 .. made \subseteq 1 .. made'
  OBVIOUS
<1> QED
  BY <1>1 DEF Rows

\* Facts about a row that its type gives.
LEMMA RowFacts ==
  ASSUME StoreTypes, NEW r \in rows \cup batch
  PROVE  /\ r \in Rows /\ r.id \in Nat /\ r.id \in 1 .. made /\ r.created \in Nat
         /\ r.created <= clock /\ clock \in Nat /\ Retention \in Nat /\ r.id <= made /\ made \in Nat
BY NumbersAssumption DEF StoreTypes, Rows

\* What captures and run do between their statements leaves the books alone,
\* as long as nobody takes the lock or queues a mail.
LEMMA StoreKept ==
  ASSUME StoreInv, CallTypes, UNCHANGED <<rows, mailed, made>>, batch' = batch \/ batch' = {},
         clock' \in 0 .. MaxTime, clock <= clock',
         \A c \in Callers : call'[c].pc = "holding" => call'[c] = call[c],
         step' = "save" => step = "save" /\ batch' = batch
  PROVE  StoreInv'
<1>1. /\ clock \in Nat /\ clock' \in Nat /\ made \in Nat /\ made' \in Nat /\ made <= made'
      /\ Retention \in Nat
  BY NumbersAssumption DEF StoreInv, StoreTypes
<1>2. Rows \subseteq Rows'
  BY <1>1, RowsGrow
<1>3. StoreTypes'
  BY <1>2, FS_EmptySet DEF StoreInv, StoreTypes
<1>4. batch' \subseteq batch
  OBVIOUS
<1>5. Numbered'
  BY <1>4 DEF StoreInv, Numbered
<1>6. BatchOK'
  <2>1. \A b \in batch : ~Alive(b) => ~(b.created + Retention >= clock')
    BY <1>1, RowFacts DEF Alive, StoreInv
  <2>2. \A b \in batch' : b.state = "collecting" /\ (b \in rows' \/ Gone(b)')
    BY <2>1, <1>4 DEF StoreInv, BatchOK, Gone, Alive
  <2>3. step' = "save" => batch' # {} /\ (EmailReports => Current'.id \in mailed')
    BY DEF StoreInv, BatchOK, Current, Newest
  <2> QED
    BY <2>2, <2>3 DEF BatchOK
<1>7. HolderOK'
  <2> SUFFICES ASSUME NEW c \in Callers, call'[c].pc = "holding"
               PROVE  /\ call[c].id = made /\ made > 0 /\ call[c].created <= clock'
                      /\ \A r \in rows \cup batch : r.id < made /\ r.created <= call[c].created
                      /\ call[c].trigger # "oom" =>
                           \A r \in rows : r.scope = call[c].scope =>
                                             call[c].created >= r.created + Cooldown
    BY <1>4 DEF HolderOK
  <2>1. call[c].pc = "holding"
    OBVIOUS
  <2>2. /\ call[c].id = made /\ made > 0 /\ call[c].created <= clock
        /\ \A r \in rows \cup batch : r.id < made /\ r.created <= call[c].created
        /\ call[c].trigger # "oom" =>
             \A r \in rows : r.scope = call[c].scope => call[c].created >= r.created + Cooldown
    BY <2>1 DEF StoreInv, HolderOK
  <2>3. call[c].created \in 0 .. MaxTime
    BY DEF CallTypes, Calls
  <2>4. call[c].created <= clock'
    BY <2>2, <2>3, <1>1, NumbersAssumption
  <2> QED
    BY <2>2, <2>4
<1>8. ReportBooks'
  BY DEF StoreInv, ReportBooks, OneReportPerCooldown, CompleteMeansMailed
<1> QED
  BY <1>3, <1>5, <1>6, <1>7, <1>8 DEF StoreInv

-----------------------------------------------------------------------------
(* Steps that change the table, the batch or the mails. *)

\* Rows are told apart by their numbers.
LEMMA RowsIdentified ==
  ASSUME StoreInv
  PROVE  Identified(rows) /\ Identified(batch)
BY RowFacts DEF StoreInv, Numbered, Identified

\* A capture that gets the lock is the newest report and keeps its distance.
LEMMA EnterStore ==
  ASSUME DiagInv, NEW c \in Callers, Enter(c)
  PROVE  StoreInv'
<1>1. /\ made' = made + 1 /\ lock = NoTask /\ call[c].pc = "waiting"
      /\ UNCHANGED <<rows, mailed, batch, step, clock>>
      /\ ~Cooling(call[c].scope, call[c].trigger, call[c].at)
      /\ call' = [call EXCEPT ![c].pc = "holding", ![c].created = clock, ![c].id = made']
  BY DEF Enter, loopVars, worldVars
<1>2. call \in [Callers -> Calls] /\ call[c] \in Calls
  BY DEF DiagInv, CallTypes
<1>3. /\ call'[c].pc = "holding" /\ call'[c].created = clock /\ call'[c].id = made'
      /\ call'[c].scope = call[c].scope /\ call'[c].trigger = call[c].trigger
      /\ \A d \in Callers \ {c} : call'[d] = call[d]
  BY <1>1, <1>2 DEF Calls
<1>4. /\ clock \in Nat /\ made \in Nat /\ made' \in Nat /\ Cooldown \in Nat
      /\ made <= made' /\ clock <= clock
  BY <1>1, NumbersAssumption DEF DiagInv, StoreInv, StoreTypes
<1>5. StoreTypes'
  <2>1. Rows \subseteq Rows' /\ 1 .. made \subseteq 1 .. made'
    BY <1>1, <1>4, RowsGrow
  <2> QED
    BY <2>1, <1>1, <1>4 DEF DiagInv, StoreInv, StoreTypes
<1>6. \A d \in Callers : call'[d].pc = "holding" => d = c
  BY <1>1, <1>3, NamesAssumption DEF DiagInv, CallTypes
<1>7. \A r \in rows \cup batch : r.id < made' /\ r.created <= clock
  BY <1>1, <1>4, RowFacts DEF DiagInv, StoreInv
<1>8. call[c].trigger # "oom" =>
        \A r \in rows : r.scope = call[c].scope => clock >= r.created + Cooldown
  <2>1. call[c].at <= clock /\ call[c].at \in Nat
    <3>1. call[c].at \in 0 .. MaxTime
      BY <1>2 DEF Calls
    <3>2. call[c].at <= clock
      BY DEF DiagInv, CallTypes
    <3> QED
      BY <3>1, <3>2, NumbersAssumption
  <2>2. ASSUME call[c].trigger # "oom", NEW r \in rows, r.scope = call[c].scope
        PROVE  clock >= r.created + Cooldown
    <3>1. ~(call[c].at < r.created + Cooldown)
      BY <2>2, <1>1 DEF Cooling
    <3>2. r.created \in Nat
      BY RowFacts DEF DiagInv, StoreInv
    <3> QED
      BY <3>1, <3>2, <2>1, <1>4
  <2> QED
    BY <2>2
<1>9. HolderOK'
  <2> SUFFICES ASSUME NEW d \in Callers, call'[d].pc = "holding"
               PROVE  /\ call'[d].id = made' /\ made' > 0 /\ call'[d].created <= clock
                      /\ \A r \in rows \cup batch : r.id < made' /\ r.created <= call'[d].created
                      /\ call'[d].trigger # "oom" =>
                           \A r \in rows : r.scope = call'[d].scope =>
                                             call'[d].created >= r.created + Cooldown
    BY <1>1 DEF HolderOK
  <2>1. d = c
    BY <1>6
  <2>2. made' > 0 /\ clock <= clock
    BY <1>1, <1>4
  <2> QED
    BY <2>1, <2>2, <1>3, <1>7, <1>8
<1>10. Numbered' /\ BatchOK' /\ ReportBooks'
  BY <1>1 DEF DiagInv, StoreInv, Numbered, BatchOK, Gone, Alive, Current, Newest, ReportBooks,
              OneReportPerCooldown, CompleteMeansMailed
<1> QED
  BY <1>5, <1>9, <1>10 DEF StoreInv

\* The rows that run reads are in the table.
LEMMA StartPassStore ==
  ASSUME DiagInv, StartPass
  PROVE  StoreInv'
<1>1. /\ batch' \subseteq Collecting /\ step' = "finish"
      /\ UNCHANGED <<rows, made, mailed, call, clock>>
  BY DEF StartPass, Newest, storeVars, callVars, worldVars
<1>2. batch' \subseteq rows /\ \A b \in batch' : b.state = "collecting"
  BY <1>1 DEF Collecting
<1>3. StoreTypes'
  <2>1. IsFiniteSet(batch')
    BY <1>2, FS_Subset DEF DiagInv, StoreInv, StoreTypes
  <2> QED
    BY <2>1, <1>1, <1>2 DEF DiagInv, StoreInv, StoreTypes, Rows
<1>4. Numbered' /\ BatchOK' /\ HolderOK' /\ ReportBooks'
  BY <1>1, <1>2 DEF DiagInv, StoreInv, Numbered, BatchOK, HolderOK, ReportBooks,
              OneReportPerCooldown, CompleteMeansMailed
<1> QED
  BY <1>3, <1>4 DEF StoreInv

\* The mail of the report that comes next is queued; mails of reports in the
\* table are not forgotten.
LEMMA MailReportStore ==
  ASSUME DiagInv, MailReport
  PROVE  StoreInv'
<1>1. /\ batch # {} /\ step' = "save" /\ UNCHANGED <<rows, made, batch, call, clock>>
      /\ mailed' = IF EmailReports THEN (mailed \cap {r.id : r \in rows}) \cup {Current.id} ELSE mailed
  BY DEF MailReport, callVars, worldVars
<1>2. Current \in batch
  <2>1. made \in Nat /\ IsFiniteSet(batch) /\ \A r \in batch : r.id <= made
    BY RowFacts DEF DiagInv, StoreInv, StoreTypes
  <2> QED
    BY <2>1, <1>1, RowsIdentified, CurrentInBatch DEF DiagInv
<1>3. StoreTypes'
  <2>1. Current.id \in 1 .. made
    BY <1>2, RowFacts DEF DiagInv, StoreInv
  <2> QED
    BY <2>1, <1>1 DEF DiagInv, StoreInv, StoreTypes, Rows
<1>4. BatchOK'
  <2>1. Current' = Current
    BY <1>1 DEF Current, Newest
  <2> QED
    BY <2>1, <1>1 DEF DiagInv, StoreInv, BatchOK, Gone, Alive
<1>5. Numbered' /\ HolderOK' /\ ReportBooks'
  BY <1>1 DEF DiagInv, StoreInv, Numbered, HolderOK, ReportBooks,
              OneReportPerCooldown, CompleteMeansMailed
<1> QED
  BY <1>3, <1>4, <1>5 DEF StoreInv

\* When the limit takes a row from a table, the table is full of newer ones.
LEMMA SaveStore ==
  ASSUME DiagInv, NEW c \in Callers, Save(c)
  PROVE  StoreInv'
<1> DEFINE due == DueAt(call[c].created)
           row == [id |-> call[c].id, scope |-> call[c].scope,
                   trigger |-> call[c].trigger, created |-> call[c].created,
                   due |-> due, state |-> "collecting"]
           X == {r \in rows \cup {row} : Alive(r)}
<1>1. /\ call[c].pc = "holding" /\ rows' = Saved(row) /\ lock' = NoTask
      /\ call' = [call EXCEPT ![c] = Returned(c)]
      /\ UNCHANGED <<made, mailed, batch, step, clock>>
  BY DEF Save, loopVars, worldVars
<1>2. /\ call \in [Callers -> Calls] /\ call[c] \in Calls /\ lock = c
      /\ call[c].trigger \in Triggers
  BY <1>1 DEF DiagInv, CallTypes
<1>3. /\ call[c].id = made /\ made > 0 /\ call[c].created <= clock
      /\ \A r \in rows \cup batch : r.id < made /\ r.created <= call[c].created
      /\ call[c].trigger # "oom" =>
           \A r \in rows : r.scope = call[c].scope => call[c].created >= r.created + Cooldown
  BY <1>1 DEF DiagInv, StoreInv, HolderOK
<1>4. /\ clock \in Nat /\ made \in Nat /\ MaxTime \in Nat /\ After \in Nat /\ MaxReports \in Nat
      /\ Retention \in Nat /\ call[c].created \in Nat
  <2>1. call[c].created \in 0 .. MaxTime
    BY <1>2 DEF Calls
  <2> QED
    BY <2>1, NumbersAssumption DEF DiagInv, StoreInv, StoreTypes
<1>5. due \in 0 .. MaxTime
  <2> DEFINE S == {call[c].created + After, MaxTime}
  <2>1. S \in SUBSET Nat /\ S # {} /\ MaxTime \in S
    BY <1>4
  <2> HIDE DEF S
  <2>2. Min(S) \in S /\ Min(S) <= MaxTime
    BY <2>1, MinOfNats
  <2>3. Min(S) \in Nat
    BY <2>1, <2>2
  <2>4. Min(S) \in 0 .. MaxTime
    BY <2>2, <2>3, <1>4
  <2> QED
    BY <2>4 DEF S, DueAt
<1> HIDE DEF due
<1>6. /\ row.id = made /\ row.scope = call[c].scope /\ row.trigger = call[c].trigger
      /\ row.created = call[c].created /\ row.state = "collecting"
  BY <1>3
<1>7. row \in Rows
  <2>0. call[c].scope \in Scopes
    BY <1>2 DEF Calls
  <2>1. made \in 1 .. made /\ call[c].created \in 0 .. clock /\ call[c].scope \in Scopes
    BY <2>0, <1>3, <1>4
  <2> QED
    BY <2>1, <1>2, <1>3, <1>5 DEF Rows, Triggers
<1> HIDE DEF row
<1>8. \A r \in rows : r.id # row.id
  BY <1>3, <1>4, <1>6, RowFacts DEF DiagInv, StoreInv
<1>9. /\ IsFiniteSet(rows')
      /\ \/ rows' = X /\ Cardinality(X) <= MaxReports
         \/ \E d \in X : /\ rows' = X \ {d}
                        /\ Cardinality(X \ {d}) = MaxReports
                        /\ \A r \in X \ {d} : d.id < r.id
  <2>1. {r \in rows : r.id = row.id} = {}
    BY <1>8
  <2>2. (rows \ {r \in rows : r.id = row.id}) \cup {row} = rows \cup {row}
    BY <2>1
  <2>3. row.id \in Nat /\ IsFiniteSet(rows) /\ Cardinality(rows) <= MaxReports /\ Identified(rows)
    BY <1>4, <1>6, RowsIdentified DEF DiagInv, StoreInv, StoreTypes
  <2> QED
    BY <2>2, <2>3, <1>1, SavedEffect
<1>10. rows' \subseteq rows \cup {row} /\ \A r \in X : Alive(r) /\ r \in rows \cup {row}
  BY <1>9
<1>11. StoreTypes'
  <2>1. rows' \subseteq Rows /\ Cardinality(rows') <= MaxReports
    <3>1. rows \subseteq Rows
      BY DEF DiagInv, StoreInv, StoreTypes
    <3>2. rows' \subseteq Rows
      BY <3>1, <1>7, <1>10
    <3>3. Cardinality(rows') <= MaxReports
      <4>1. CASE rows' = X /\ Cardinality(X) <= MaxReports
        BY <4>1
      <4>2. CASE \E d \in X : rows' = X \ {d} /\ Cardinality(X \ {d}) = MaxReports
        <5>1. Cardinality(rows') = MaxReports
          BY <4>2
        <5> QED
          BY <5>1, <1>4
      <4> QED
        BY <4>1, <4>2, <1>9
    <3> QED
      BY <3>2, <3>3
  <2> QED
    BY <2>1, <1>1, <1>9 DEF DiagInv, StoreInv, StoreTypes, Rows
<1>12. Numbered'
  <2> SUFFICES ASSUME NEW r \in rows \cup batch \cup {row}, NEW s \in rows \cup batch \cup {row}
               PROVE  (r.id = s.id => r = s) /\ (r.id < s.id => r.created <= s.created)
    BY <1>1, <1>10 DEF Numbered
  <2>1. CASE r \in rows \cup batch /\ s \in rows \cup batch
    BY <2>1 DEF DiagInv, StoreInv, Numbered
  <2>2. CASE r = row /\ s = row
    BY <2>2, <1>4, <1>6
  <2>3. CASE r = row /\ s \in rows \cup batch
    <3>1. s.id < made /\ s.id \in Nat
      BY <2>3, <1>3, RowFacts DEF DiagInv, StoreInv
    <3> QED
      BY <3>1, <2>3, <1>4, <1>6
  <2>4. CASE r \in rows \cup batch /\ s = row
    <3>1. r.id < made /\ r.id \in Nat /\ r.created <= call[c].created
      BY <2>4, <1>3, RowFacts DEF DiagInv, StoreInv
    <3> QED
      BY <3>1, <2>4, <1>4, <1>6
  <2> QED
    BY <2>1, <2>2, <2>3, <2>4
<1>13. ASSUME NEW b \in batch
       PROVE  b \in rows' \/ Gone(b)'
  <2>1. Alive(b)' <=> Alive(b)
    BY <1>1 DEF Alive
  <2>2. CASE ~Alive(b)
    BY <2>1, <2>2 DEF Gone
  <2>3. CASE Alive(b) /\ b \in rows
    <3>1. b \in X
      BY <2>3
    <3> QED
      BY <3>1, <1>9 DEF Gone
  <2>4. CASE Alive(b) /\ b \notin rows
    <3>1. Cardinality(rows) = MaxReports /\ \A r \in rows : b.id < r.id
      BY <2>4 DEF DiagInv, StoreInv, BatchOK, Gone
    <3>2. ASSUME NEW r \in rows \cup {row}
          PROVE  Alive(r) /\ b.id < r.id
      <4>1. b.id < made /\ b.created <= call[c].created /\ b.created \in Nat /\ b.created + Retention >= clock
        BY <1>3, <2>4, RowFacts DEF DiagInv, StoreInv, Alive
      <4>2. CASE r = row
        BY <4>1, <4>2, <1>4, <1>6 DEF Alive
      <4>3. CASE r \in rows
        <5>1. b.id < r.id
          BY <4>3, <3>1
        <5>2. b.created <= r.created
          BY <4>3, <5>1 DEF DiagInv, StoreInv, Numbered
        <5>3. r.created \in Nat
          BY <4>3, RowFacts DEF DiagInv, StoreInv
        <5> QED
          BY <4>1, <5>1, <5>2, <5>3, <1>4 DEF Alive
      <4> QED
        BY <4>2, <4>3
    <3>3. X = rows \cup {row}
      BY <3>2
    <3>4. Cardinality(X) = MaxReports + 1
      <4>1. row \notin rows /\ IsFiniteSet(rows)
        BY <1>8 DEF DiagInv, StoreInv, StoreTypes
      <4> QED
        BY <4>1, <3>1, <3>3, FS_AddElement
    <3>5. Cardinality(rows') = MaxReports
      <4>1. ~(Cardinality(X) <= MaxReports)
        BY <3>4, <1>4
      <4> QED
        BY <4>1, <1>9
    <3>6. \A r \in rows' : b.id < r.id
      BY <3>2, <1>10
    <3> QED
      BY <3>5, <3>6 DEF Gone
  <2> QED
    BY <2>2, <2>3, <2>4
<1>14. BatchOK'
  <2>1. Current' = Current
    BY <1>1 DEF Current, Newest
  <2> QED
    BY <2>1, <1>1, <1>13 DEF DiagInv, StoreInv, BatchOK
<1>15. HolderOK'
  <2>1. \A d \in Callers : call'[d].pc # "holding"
    BY <1>1, <1>2, NamesAssumption DEF DiagInv, CallTypes, Returned, NoCall, Calls
  <2> QED
    BY <2>1 DEF HolderOK
<1>16. OneReportPerCooldown'
  <2> SUFFICES ASSUME NEW r \in rows \cup {row}, NEW s \in rows \cup {row},
                      r.scope = s.scope, r.id < s.id, s.trigger # "oom"
               PROVE  s.created >= r.created + Cooldown
    BY <1>10 DEF OneReportPerCooldown
  <2>1. CASE r \in rows /\ s \in rows
    BY <2>1 DEF DiagInv, StoreInv, ReportBooks, OneReportPerCooldown
  <2>2. CASE r = row
    <3>1. ~(made < s.id)
      <4>1. s.id <= made /\ s.id \in Nat
        BY <1>4, <1>6, RowFacts DEF DiagInv, StoreInv
      <4> QED
        BY <4>1, <1>4
    <3> QED
      BY <3>1, <2>2, <1>6
  <2>3. CASE r \in rows /\ s = row
    BY <2>3, <1>3, <1>6
  <2> QED
    BY <2>1, <2>2, <2>3
<1>17. CompleteMeansMailed'
  BY <1>1, <1>6, <1>10 DEF DiagInv, StoreInv, ReportBooks, CompleteMeansMailed
<1> QED
  BY <1>11, <1>12, <1>14, <1>15, <1>16, <1>17 DEF StoreInv, ReportBooks

\* What the completion of a report leaves: the rows alive, one of them now
\* complete; a report that was deleted meanwhile does not come back.
LEMMA CompletionEffect ==
  ASSUME DiagInv, SaveReport
  PROVE  LET done == [Current EXCEPT !.state = "complete"]
             R == IF Current \in rows THEN (rows \ {Current}) \cup {done} ELSE rows
         IN  /\ rows' = {r \in R : Alive(r)}
             /\ IsFiniteSet(rows') /\ Cardinality(rows') <= MaxReports
<1> DEFINE done == [Current EXCEPT !.state = "complete"]
           old == {r \in rows : r.id = done.id}
           X == {r \in (rows \ old) \cup {done} : Alive(r)}
<1>1. /\ step = "save" /\ rows' = Saved(done) /\ UNCHANGED clock
  BY DEF SaveReport, worldVars
<1>2. batch # {}
  BY <1>1 DEF DiagInv, StoreInv, BatchOK
<1>3. Current \in batch
  <2>1. made \in Nat /\ IsFiniteSet(batch) /\ \A r \in batch : r.id <= made
    BY RowFacts DEF DiagInv, StoreInv, StoreTypes
  <2> QED
    BY <2>1, <1>2, RowsIdentified, CurrentInBatch DEF DiagInv
<1>4. /\ Current \in Rows /\ Current.id \in Nat /\ Current.created \in Nat
      /\ MaxReports \in Nat
  BY <1>3, RowFacts, NumbersAssumption DEF DiagInv, StoreInv
<1>5. done.id = Current.id /\ done.created = Current.created
  BY <1>4 DEF Rows
<1> HIDE DEF done
<1>6. Alive(done) <=> Alive(Current)
  BY <1>5 DEF Alive
<1>7. \A r \in rows : r.id = done.id <=> r = Current
  BY <1>3, <1>5 DEF DiagInv, StoreInv, Numbered
<1>8. IsFiniteSet(rows) /\ Cardinality(rows) <= MaxReports /\ Identified(rows) /\ done.id \in Nat
  BY <1>4, <1>5, RowsIdentified DEF DiagInv, StoreInv, StoreTypes
<1>9. /\ IsFiniteSet(rows')
      /\ \/ rows' = X /\ Cardinality(X) <= MaxReports
         \/ /\ \A r \in rows : r.id # done.id
            /\ \E d \in X : /\ rows' = X \ {d}
                            /\ Cardinality(X \ {d}) = MaxReports
                            /\ \A r \in X \ {d} : d.id < r.id
  BY <1>1, <1>8, SavedEffect
<1>10. CASE Current \in rows
  <2>1. old = {Current}
    BY <1>7, <1>10
  <2>2. rows' = X /\ Cardinality(X) <= MaxReports
    BY <1>9, <1>7, <1>10
  <2> QED
    BY <2>1, <2>2, <1>9, <1>10 DEF done
<1>11. CASE Current \notin rows
  <2>1. old = {} /\ \A r \in rows : r # done
    BY <1>7, <1>11
  <2>2. X = {r \in rows \cup {done} : Alive(r)}
    BY <2>1
  <2>3. Gone(Current)
    BY <1>3, <1>11 DEF DiagInv, StoreInv, BatchOK
  <2> HIDE DEF X, old
  <2>4. CASE ~Alive(Current)
    <3>1. X = {r \in rows : Alive(r)}
      BY <2>2, <2>4, <1>6
    <3>2. rows' = X
      <4> SUFFICES ASSUME NEW d \in X, Cardinality(X \ {d}) = MaxReports
                   PROVE  FALSE
        BY <1>9
      <4>1. d \in rows /\ X \ {d} \in SUBSET (rows \ {d})
        BY <3>1
      <4>2. IsFiniteSet(rows \ {d}) /\ Cardinality(rows \ {d}) = Cardinality(rows) - 1
        BY <4>1, <1>8, FS_RemoveElement
      <4>3. Cardinality(X \ {d}) <= Cardinality(rows \ {d}) /\ Cardinality(rows) \in Nat
        BY <4>1, <4>2, <1>8, FS_Subset, FS_CardinalityType
      <4> QED
        BY <4>2, <4>3, <1>4, <1>8
    <3>3. Cardinality(rows') <= MaxReports
      <4>1. X \in SUBSET rows
        BY <3>1
      <4>2. Cardinality(X) <= Cardinality(rows) /\ IsFiniteSet(X)
        BY <4>1, <1>8, FS_Subset
      <4>3. Cardinality(X) \in Nat /\ Cardinality(rows) \in Nat
        BY <4>2, <1>8, FS_CardinalityType
      <4> QED
        BY <4>2, <4>3, <3>2, <1>4, <1>8
    <3> QED
      BY <3>1, <3>2, <3>3, <1>9, <1>11
  <2>5. CASE Alive(Current)
    <3>1. Cardinality(rows) = MaxReports /\ \A r \in rows : Current.id < r.id
      BY <2>3, <2>5 DEF Gone
    <3>2. ASSUME NEW r \in rows
          PROVE  Alive(r)
      <4>1. Current.created <= r.created
        BY <3>1, <1>3 DEF DiagInv, StoreInv, Numbered
      <4>2. r.created \in Nat /\ clock \in Nat /\ Retention \in Nat
        BY RowFacts DEF DiagInv, StoreInv
      <4> QED
        BY <4>1, <4>2, <1>4, <2>5 DEF Alive
    <3>3. X = rows \cup {done}
      BY <3>2, <2>2, <2>5, <1>6
    <3>4. Cardinality(X) = MaxReports + 1
      BY <3>1, <3>3, <2>1, <1>8, FS_AddElement
    <3>5. PICK d \in X : rows' = X \ {d} /\ \A r \in X \ {d} : d.id < r.id
      <4>1. ~(Cardinality(X) <= MaxReports)
        BY <3>4, <1>4
      <4> QED
        BY <4>1, <1>9
    <3>6. d = done
      <4> SUFFICES ASSUME d \in rows PROVE FALSE
        BY <3>3
      <4>1. done \in X \ {d}
        BY <3>3, <2>1
      <4>2. d.id < done.id /\ done.id < d.id /\ d.id \in Nat
        BY <4>1, <3>1, <3>5, <1>5, RowFacts DEF DiagInv, StoreInv
      <4> QED
        BY <4>2, <1>8
    <3>7. rows' = rows
      BY <3>3, <3>5, <3>6, <2>1
    <3> QED
      BY <3>2, <3>7, <1>8, <1>11
  <2> QED
    BY <2>4, <2>5
<1> QED
  BY <1>10, <1>11

\* A completed report takes the place of its row and has its mail; the
\* capture in progress, if there is one, keeps its distance.
LEMMA SaveReportStore ==
  ASSUME DiagInv, SaveReport
  PROVE  StoreInv'
<1> DEFINE b == Current
           done == [Current EXCEPT !.state = "complete"]
           R == IF b \in rows THEN (rows \ {b}) \cup {done} ELSE rows
<1>1. /\ step = "save" /\ batch' = batch \ {b} /\ step' = "finish"
      /\ UNCHANGED <<made, mailed, call, lock, clock>>
  BY DEF SaveReport, callVars, worldVars
<1>2. batch # {} /\ (EmailReports => b.id \in mailed)
  BY <1>1 DEF DiagInv, StoreInv, BatchOK
<1>3. b \in batch
  <2>1. made \in Nat /\ IsFiniteSet(batch) /\ \A r \in batch : r.id <= made
    BY RowFacts DEF DiagInv, StoreInv, StoreTypes
  <2> QED
    BY <2>1, <1>2, RowsIdentified, CurrentInBatch DEF DiagInv
<1>4. /\ rows' = {r \in R : Alive(r)}
      /\ IsFiniteSet(rows') /\ Cardinality(rows') <= MaxReports
  BY CompletionEffect
<1>5. b \in Rows
  BY <1>3, RowFacts DEF DiagInv, StoreInv
<1>6. /\ done \in Rows /\ done.id = b.id /\ done.created = b.created /\ done.scope = b.scope
      /\ done.trigger = b.trigger
  BY <1>5 DEF Rows
<1> HIDE DEF done, b
<1>7. \A r \in R : \E o \in rows : o.id = r.id /\ o.created = r.created /\ o.scope = r.scope /\ o.trigger = r.trigger
  BY <1>6
<1>8. rows' \subseteq R /\ \A r \in rows' : r \in rows \/ (r = done /\ b \in rows)
  BY <1>4
<1>9. StoreTypes'
  <2>1. rows \subseteq Rows /\ batch \subseteq Rows
    BY DEF DiagInv, StoreInv, StoreTypes
  <2>2. rows' \subseteq Rows /\ batch' \subseteq Rows
    BY <2>1, <1>1, <1>6, <1>8
  <2>3. IsFiniteSet(batch')
    BY <1>1, FS_RemoveElement DEF DiagInv, StoreInv, StoreTypes
  <2> QED
    BY <2>2, <2>3, <1>1, <1>4 DEF DiagInv, StoreInv, StoreTypes, Rows
<1>10. \A r \in (rows \ {b}) \cup (batch \ {b}) : r.id # b.id
  BY <1>3 DEF DiagInv, StoreInv, Numbered
<1>11. \A r \in rows' \cup batch' : r \in (rows \ {b}) \cup (batch \ {b}) \/ r = done
  BY <1>1, <1>4
<1>12. Numbered'
  <2> SUFFICES ASSUME NEW r \in rows' \cup batch', NEW s \in rows' \cup batch'
               PROVE  (r.id = s.id => r = s) /\ (r.id < s.id => r.created <= s.created)
    BY DEF Numbered
  <2>1. \A x, y \in rows \cup batch : (x.id = y.id => x = y) /\ (x.id < y.id => x.created <= y.created)
    BY DEF DiagInv, StoreInv, Numbered
  <2>2. CASE r # done /\ s # done
    BY <2>1, <2>2, <1>11
  <2>3. CASE r = done /\ s = done
    BY <2>3, <1>3, <2>1, <1>6
  <2>4. CASE r = done /\ s # done
    <3>1. s \in (rows \ {b}) \cup (batch \ {b}) /\ s.id # b.id
      BY <2>4, <1>10, <1>11
    <3> QED
      BY <3>1, <2>4, <2>1, <1>3, <1>6
  <2>5. CASE r # done /\ s = done
    <3>1. r \in (rows \ {b}) \cup (batch \ {b}) /\ r.id # b.id
      BY <2>5, <1>10, <1>11
    <3> QED
      BY <3>1, <2>5, <2>1, <1>3, <1>6
  <2> QED
    BY <2>2, <2>3, <2>4, <2>5
<1>13. ASSUME NEW a \in batch, a # b
       PROVE  a \in rows' \/ Gone(a)'
  <2>1. Alive(a)' <=> Alive(a)
    BY <1>1 DEF Alive
  <2>2. CASE ~Alive(a)
    BY <2>1, <2>2 DEF Gone
  <2>3. CASE Alive(a) /\ a \in rows
    <3>1. a \in R
      BY <2>3, <1>13
    <3> QED
      BY <3>1, <2>3, <1>4
  <2>4. CASE Alive(a) /\ a \notin rows
    <3>1. Cardinality(rows) = MaxReports /\ \A r \in rows : a.id < r.id
      BY <2>4 DEF DiagInv, StoreInv, BatchOK, Gone
    <3>2. \A r \in rows : Alive(r)
      <4> SUFFICES ASSUME NEW r \in rows PROVE Alive(r)
        OBVIOUS
      <4>1. a.created <= r.created
        BY <3>1 DEF DiagInv, StoreInv, Numbered
      <4>2. /\ r.created \in Nat /\ a.created \in Nat /\ clock \in Nat /\ Retention \in Nat
        BY RowFacts DEF DiagInv, StoreInv
      <4> QED
        BY <4>1, <4>2, <2>4 DEF Alive
    <3>3. \A r \in R : Alive(r) /\ a.id < r.id
      <4>1. b \in rows => Alive(done) /\ a.id < done.id
        BY <3>1, <3>2, <1>6 DEF Alive
      <4> QED
        BY <4>1, <3>1, <3>2
    <3>4. rows' = R
      BY <3>3, <1>4
    <3>5. Cardinality(R) = MaxReports
      <4>1. CASE b \notin rows
        BY <4>1, <3>1
      <4>2. CASE b \in rows
        <5>1. done \notin rows \ {b}
          BY <1>6, <1>10
        <5>2. /\ IsFiniteSet(rows) /\ IsFiniteSet(rows \ {b})
              /\ Cardinality(rows \ {b}) = Cardinality(rows) - 1
          BY <4>2, FS_RemoveElement DEF DiagInv, StoreInv, StoreTypes
        <5>3. Cardinality((rows \ {b}) \cup {done}) = Cardinality(rows \ {b}) + 1
          BY <5>1, <5>2, FS_AddElement
        <5>4. Cardinality(rows) \in Nat
          BY <5>2, FS_CardinalityType
        <5> QED
          BY <4>2, <5>2, <5>3, <5>4, <3>1
      <4> QED
        BY <4>1, <4>2
    <3> QED
      BY <3>3, <3>4, <3>5 DEF Gone
  <2> QED
    BY <2>2, <2>3, <2>4
<1>14. BatchOK'
  BY <1>1, <1>13 DEF DiagInv, StoreInv, BatchOK
<1>15. HolderOK'
  <2> SUFFICES ASSUME NEW c \in Callers, call[c].pc = "holding"
               PROVE  /\ call[c].id = made /\ made > 0 /\ call[c].created <= clock
                      /\ \A r \in rows' \cup batch' : r.id < made /\ r.created <= call[c].created
                      /\ call[c].trigger # "oom" =>
                           \A r \in rows' : r.scope = call[c].scope =>
                                              call[c].created >= r.created + Cooldown
    BY <1>1 DEF HolderOK
  <2>1. /\ call[c].id = made /\ made > 0 /\ call[c].created <= clock
        /\ \A r \in rows \cup batch : r.id < made /\ r.created <= call[c].created
        /\ call[c].trigger # "oom" =>
             \A r \in rows : r.scope = call[c].scope => call[c].created >= r.created + Cooldown
    BY DEF DiagInv, StoreInv, HolderOK
  <2>2. \A r \in rows' \cup batch' : r.id < made /\ r.created <= call[c].created
    BY <2>1, <1>3, <1>6, <1>11
  <2>3. call[c].trigger # "oom" =>
          \A r \in rows' : r.scope = call[c].scope => call[c].created >= r.created + Cooldown
    BY <2>1, <1>6, <1>8
  <2> QED
    BY <2>1, <2>2, <2>3
<1>16. OneReportPerCooldown'
  <2> SUFFICES ASSUME NEW r \in rows', NEW s \in rows',
                      r.scope = s.scope, r.id < s.id, s.trigger # "oom"
               PROVE  s.created >= r.created + Cooldown
    BY DEF OneReportPerCooldown
  <2>1. PICK o \in rows : o.id = r.id /\ o.created = r.created /\ o.scope = r.scope /\ o.trigger = r.trigger
    BY <1>7, <1>8
  <2>2. PICK p \in rows : p.id = s.id /\ p.created = s.created /\ p.scope = s.scope /\ p.trigger = s.trigger
    BY <1>7, <1>8
  <2>3. p.created >= o.created + Cooldown
    BY <2>1, <2>2 DEF DiagInv, StoreInv, ReportBooks, OneReportPerCooldown
  <2> QED
    BY <2>1, <2>2, <2>3
<1>17. CompleteMeansMailed'
  BY <1>1, <1>2, <1>6, <1>8 DEF DiagInv, StoreInv, ReportBooks, CompleteMeansMailed
<1> QED
  BY <1>9, <1>12, <1>14, <1>15, <1>16, <1>17 DEF StoreInv, ReportBooks

-----------------------------------------------------------------------------
(* Captures, the lock and the samples. *)

\* A capture that is replaced by one of the right type, in step with the lock.
LEMMA CallReplaced ==
  ASSUME CallTypes, NEW c \in Callers, NEW r \in Calls, call' = [call EXCEPT ![c] = r],
         clock' = clock, r.at <= clock,
         r.pc \in {"waiting", "holding"} => r.trigger \in Triggers,
         lock' \in Callers \cup {NoTask}, r.pc = "holding" <=> lock' = c,
         \A d \in Callers \ {c} : lock = d <=> lock' = d
  PROVE  /\ CallTypes'
         /\ call'[c] = r
         /\ \A d \in Callers \ {c} : call'[d] = call[d]
<1>1. /\ call \in [Callers -> Calls]
      /\ \A d \in Callers : /\ call[d].pc = "holding" <=> lock = d
                            /\ call[d].at <= clock
                            /\ call[d].pc \in {"waiting", "holding"} => call[d].trigger \in Triggers
  BY DEF CallTypes
<1>2. /\ call' \in [Callers -> Calls] /\ call'[c] = r
      /\ \A d \in Callers \ {c} : call'[d] = call[d]
  BY <1>1
<1>3. ASSUME NEW d \in Callers
      PROVE  /\ call'[d].pc = "holding" <=> lock' = d
             /\ call'[d].at <= clock'
             /\ call'[d].pc \in {"waiting", "holding"} => call'[d].trigger \in Triggers
  <2>1. CASE d = c
    BY <2>1, <1>2
  <2>2. CASE d # c
    <3>1. call'[d] = call[d] /\ (lock = d <=> lock' = d)
      BY <2>2, <1>2
    <3>2. /\ call[d].pc = "holding" <=> lock = d
          /\ call[d].at <= clock
          /\ call[d].pc \in {"waiting", "holding"} => call[d].trigger \in Triggers
      BY <1>1
    <3> QED
      BY <3>1, <3>2
  <2> QED
    BY <2>1, <2>2
<1> QED
  BY <1>2, <1>3 DEF CallTypes

\* Time passes by the captures.
LEMMA CallsKept ==
  ASSUME CallTypes, UNCHANGED <<lock, call>>, clock \in Nat, clock' \in Nat, clock <= clock'
  PROVE  CallTypes'
<1>1. \A c \in Callers : call[c].at <= clock /\ call[c].at \in 0 .. MaxTime
  BY DEF CallTypes, Calls
<1>2. \A c \in Callers : call[c].at <= clock'
  BY <1>1, NumbersAssumption
<1> QED
  BY <1>2 DEF CallTypes

\* The captures that are asked for, and none.
LEMMA CallKinds ==
  /\ NoCall \in Calls /\ NoCall.pc = "idle" /\ NoCall.at = 0 /\ NoCall.trigger = ""
  /\ \A s \in Scopes, t \in Triggers, at \in 0 .. MaxTime :
       /\ Asking(s, t, at) \in Calls /\ Asking(s, t, at).pc = "waiting"
       /\ Asking(s, t, at).at = at /\ Asking(s, t, at).trigger = t /\ Asking(s, t, at).scope = s
<1>1. 0 \in 0 .. MaxTime /\ 0 \in Nat /\ Server \in Scopes
  BY NumbersAssumption DEF Scopes
<1> QED
  BY <1>1 DEF NoCall, Asking, Calls, Triggers

\* The capture of run that has returned keeps what it was asked.
LEMMA ReturnedKind ==
  ASSUME CallTypes, 0 <= clock, NEW c \in Callers
  PROVE  /\ Returned(c) \in Calls /\ Returned(c).pc \in {"idle", "done"} /\ Returned(c).at <= clock
         /\ c = Loop => /\ Returned(c).pc = "done" /\ Returned(c).scope = call[c].scope
                        /\ Returned(c).trigger = call[c].trigger
         /\ c # Loop => Returned(c) = NoCall
<1>1. call[c] \in Calls /\ call[c].at <= clock
  BY DEF CallTypes
<1>2. CASE c = Loop
  <2>1. Returned(c) = [call[c] EXCEPT !.pc = "done"]
    BY <1>2 DEF Returned
  <2> QED
    BY <2>1, <1>1, <1>2 DEF Calls
<1>3. CASE c # Loop
  BY <1>3, CallKinds DEF Returned
<1> QED
  BY <1>2, <1>3

\* The part of the invariant that is not about the table.
FlowInv == CallTypes /\ LoopTypes /\ LoopCall /\ GapOnce

\* Steps of captures leave the place of run alone.
LEMMA CaptureFlow ==
  ASSUME DiagInv, NEW c \in Callers,
         (\E s \in Targets, at \in 0 .. MaxTime : c \in Tasks /\ Ask(c, s, at))
         \/ CoolDown(c) \/ Enter(c) \/ Save(c) \/ CallFails(c)
  PROVE  FlowInv'
<1>1. /\ CallTypes /\ LoopTypes /\ LoopCall /\ GapOnce
      /\ call \in [Callers -> Calls] /\ call[c] \in Calls /\ lock \in Callers \cup {NoTask}
      /\ \A d \in Callers : call[d].pc = "holding" <=> lock = d
  BY DEF DiagInv, CallTypes
<1>2. clock \in Nat /\ clock \in 0 .. MaxTime /\ 0 <= clock /\ made \in Nat
  BY NumbersAssumption DEF DiagInv, StoreInv, StoreTypes
<1>3. UNCHANGED <<clock, step, missing, gapTold, gapMails, oomTodo, pressure, oomMail, oomTold, sample>>
  BY DEF Ask, CoolDown, Enter, Save, CallFails, loopVars, gapVars, oomVars, worldVars
<1>4. LoopTypes' /\ GapOnce'
  <2>1. faults' = faults \/ faults' = faults + 1
    BY DEF Ask, CoolDown, Enter, Save, CallFails, worldVars
  <2>2. faults' \in Nat
    BY <2>1, <1>1 DEF LoopTypes
  <2> QED
    BY <2>2, <1>1, <1>3 DEF LoopTypes, GapOnce
<1>5. /\ CallTypes'
      /\ \A d \in Callers \ {c} : call'[d] = call[d]
      /\ c = Loop => /\ call[c].pc # "idle" /\ call'[c].pc # "idle"
                     /\ call'[c].trigger = call[c].trigger /\ call'[c].scope = call[c].scope
  <2>1. ASSUME NEW s \in Targets, NEW at \in 0 .. MaxTime, c \in Tasks, Ask(c, s, at)
        PROVE  <1>5!1 /\ <1>5!2 /\ c # Loop
    <3>1. /\ call[c].pc = "idle" /\ at <= clock /\ UNCHANGED lock
          /\ call' = [call EXCEPT ![c] = Asking(s, "evidence", at)]
      BY <2>1 DEF Ask
    <3> DEFINE r == Asking(s, "evidence", at)
    <3>2. r \in Calls /\ r.pc = "waiting" /\ r.at = at /\ r.trigger \in Triggers
      <4>1. s \in Scopes /\ "evidence" \in Triggers
        BY DEF Scopes, Triggers
      <4>2. 0 \in 0 .. MaxTime /\ 0 \in Nat
        BY NumbersAssumption
      <4> QED
        BY <4>1, <4>2 DEF Asking, Calls
    <3>3. c # Loop /\ lock # c
      BY <2>1, <3>1, <1>1, NamesAssumption
    <3> HIDE DEF r
    <3>4. /\ call' = [call EXCEPT ![c] = r] /\ clock' = clock /\ r.at <= clock
          /\ lock' \in Callers \cup {NoTask} /\ r.pc # "holding" /\ lock' # c /\ lock' = lock
      BY <3>1, <3>2, <3>3, <1>1, <1>3 DEF r
    <3>5. (r.pc = "holding" <=> lock' = c) /\ \A d \in Callers \ {c} : lock = d <=> lock' = d
      BY <3>4
    <3> QED
      BY <3>2, <3>3, <3>4, <3>5, <1>1, CallReplaced
  <2>2. CASE CoolDown(c) \/ Save(c)
    <3>1. /\ call' = [call EXCEPT ![c] = Returned(c)] /\ call[c].pc \in {"waiting", "holding"}
          /\ lock' = NoTask /\ \A d \in Callers \ {c} : lock # d
      BY <2>2, <1>1, NamesAssumption DEF CoolDown, Save
    <3>2. /\ Returned(c) \in Calls /\ Returned(c).pc \in {"idle", "done"} /\ Returned(c).at <= clock
          /\ c = Loop => /\ Returned(c).pc = "done" /\ Returned(c).scope = call[c].scope
                         /\ Returned(c).trigger = call[c].trigger
      BY <1>1, <1>2, ReturnedKind
    <3>3. NoTask # c /\ \A d \in Callers : d # NoTask
      BY NamesAssumption
    <3> QED
      BY <3>1, <3>2, <3>3, <1>1, <1>3, CallReplaced
  <2>3. CASE Enter(c)
    <3> DEFINE r == [call[c] EXCEPT !.pc = "holding", !.created = clock, !.id = made']
    <3>1. /\ call' = [call EXCEPT ![c] = r] /\ call[c].pc = "waiting" /\ lock = NoTask /\ lock' = c
          /\ made' = made + 1
      BY <2>3 DEF Enter
    <3>2. /\ r \in Calls /\ r.pc = "holding" /\ r.at = call[c].at /\ r.trigger = call[c].trigger
          /\ r.scope = call[c].scope
      <4>1. made' \in Nat /\ clock \in 0 .. MaxTime
        BY <1>2, <3>1
      <4> QED
        BY <4>1, <1>1 DEF Calls
    <3>3. call[c].at <= clock /\ call[c].trigger \in Triggers
      BY <3>1, <1>1 DEF CallTypes
    <3>4. \A d \in Callers : d # NoTask
      BY NamesAssumption
    <3> HIDE DEF r
    <3> QED
      BY <3>1, <3>2, <3>3, <3>4, <1>1, <1>3, CallReplaced
  <2>4. CASE CallFails(c)
    <3>1. /\ c \in Tasks /\ call' = [call EXCEPT ![c] = NoCall]
          /\ lock' = IF lock = c THEN NoTask ELSE lock
      BY <2>4 DEF CallFails
    <3>2. c # Loop /\ \A d \in Callers : d # NoTask
      BY <3>1, NamesAssumption
    <3>3. /\ lock' \in Callers \cup {NoTask} /\ lock' # c
          /\ \A d \in Callers \ {c} : lock = d <=> lock' = d
      BY <3>1, <3>2, <1>1
    <3>4. NoCall \in Calls /\ NoCall.at <= clock /\ NoCall.pc = "idle"
      BY <1>2, CallKinds
    <3> QED
      BY <3>1, <3>2, <3>3, <3>4, <1>1, <1>3, CallReplaced
  <2> QED
    BY <2>1, <2>2, <2>3, <2>4
<1>6. LoopCall'
  <2>1. CASE c # Loop
    <3>1. call'[Loop] = call[Loop]
      BY <2>1, <1>5 DEF Callers
    <3> QED
      BY <3>1, <1>1, <1>3 DEF LoopCall
  <2>2. CASE c = Loop
    BY <2>2, <1>1, <1>3, <1>5, CallKinds DEF LoopCall
  <2> QED
    BY <2>1, <2>2
<1> QED
  BY <1>4, <1>5, <1>6 DEF FlowInv

\* Where run does not hold the lock, it may start a capture or drop one.
LEMMA RunAsks ==
  ASSUME DiagInv, clock' = clock, lock' = lock, call[Loop].pc # "holding",
         NEW s \in Scopes, NEW t \in Triggers, NEW r \in {NoCall, Asking(s, t, clock)},
         call' = [call EXCEPT ![Loop] = r]
  PROVE  CallTypes' /\ call'[Loop] = r
<1>1. /\ CallTypes /\ clock \in 0 .. MaxTime /\ clock \in Nat /\ Loop \in Callers
  BY NumbersAssumption DEF DiagInv, StoreInv, StoreTypes, Callers
<1>2. r \in Calls /\ r.pc \in {"idle", "waiting"} /\ r.at <= clock /\ (r.pc = "waiting" => r.trigger \in Triggers)
  <2>1. 0 \in 0 .. MaxTime /\ 0 \in Nat /\ 0 <= clock /\ Server \in Scopes
    BY <1>1, NumbersAssumption DEF Scopes
  <2>2. CASE r = NoCall
    BY <2>1, <2>2 DEF NoCall, Calls
  <2>3. CASE r = Asking(s, t, clock)
    <3>1. /\ r = [pc |-> "waiting", scope |-> s, trigger |-> t, at |-> clock, created |-> 0, id |-> 0]
          /\ t \in Triggers \cup {""}
      BY <2>3 DEF Asking
    <3>2. r \in Calls
      BY <3>1, <2>1, <1>1 DEF Calls
    <3>3. r.at = clock /\ r.pc = "waiting" /\ r.trigger = t
      BY <3>1
    <3>4. r.at <= clock
      BY <3>3, <1>1
    <3>5. r.pc \in {"idle", "waiting"} /\ r.trigger \in Triggers
      BY <3>3
    <3> QED
      BY <3>2, <3>4, <3>5
  <2> QED
    BY <2>2, <2>3
<1>3. lock # Loop /\ lock \in Callers \cup {NoTask}
  BY <1>1 DEF CallTypes
<1>4. (r.pc = "holding" <=> lock' = Loop) /\ \A d \in Callers \ {Loop} : lock = d <=> lock' = d
  BY <1>2, <1>3
<1> QED
  BY <1>1, <1>2, <1>3, <1>4, CallReplaced

\* The places that run does not leave alone keep what it knows.
LEMMA RunFlow ==
  ASSUME DiagInv, LoopStep \/ PassFails
  PROVE  FlowInv'
<1>1. /\ CallTypes /\ LoopTypes /\ LoopCall /\ GapOnce
      /\ clock \in 0 .. MaxTime /\ clock \in Nat /\ Server \in Scopes /\ Loop \in Callers
      /\ {"evidence", "gap", "oom", "pressure"} = Triggers
  BY NumbersAssumption DEF DiagInv, StoreInv, StoreTypes, Scopes, Callers, Triggers
<1>2. /\ UNCHANGED <<clock, sample>> /\ faults' \in Nat
  <2>1. faults' = faults \/ faults' = faults + 1
    BY DEF LoopStep, PassFails, StartPass, MailReport, SaveReport, ReportsDone, SampleMissing,
           MailGap, SampleKnown, SampleNew, AskOom, MailOom, OomDone, EndPass, worldVars
  <2>2. faults' \in Nat
    BY <2>1, <1>1 DEF LoopTypes
  <2>3. UNCHANGED <<clock, sample>>
    BY DEF LoopStep, PassFails, StartPass, MailReport, SaveReport, ReportsDone, SampleMissing,
           MailGap, SampleKnown, SampleNew, AskOom, MailOom, OomDone, EndPass, worldVars
  <2> QED
    BY <2>2, <2>3
<1>3. ASSUME UNCHANGED callVars
      PROVE  CallTypes'
  <2>1. clock' \in Nat /\ clock <= clock'
    BY <1>1, <1>2
  <2> QED
    BY <1>3, <2>1, <1>1, CallsKept DEF callVars
<1>4. CASE StartPass \/ MailReport \/ SaveReport \/ ReportsDone
  <2>1. /\ UNCHANGED <<call, missing, gapTold, gapMails, oomTodo, pressure, oomMail, oomTold>>
        /\ step \in {"idle", "finish", "save"} /\ step' \in {"finish", "save", "sample"}
        /\ UNCHANGED callVars
    BY <1>4 DEF StartPass, MailReport, SaveReport, ReportsDone, callVars, gapVars, oomVars
  <2>2. LoopTypes'
    BY <2>1, <1>1, <1>2 DEF LoopTypes
  <2>3. LoopCall' /\ GapOnce'
    BY <2>1, <1>1 DEF LoopCall, GapOnce
  <2> QED
    BY <2>1, <2>2, <2>3, <1>3 DEF FlowInv
<1>5. CASE SampleMissing
  <2>1. /\ step = "sample" /\ missing' = Since /\ UNCHANGED <<lock, gapTold, gapMails, oomTodo, pressure, oomMail, oomTold>>
        /\ call[Loop] = NoCall /\ oomTodo = {}
    BY <1>5, <1>1 DEF SampleMissing, oomVars, LoopCall, GapOnce
  <2>2. missing' \in 0 .. clock' \cup {NoTime}
    BY <2>1, <1>1, <1>2 DEF Since, LoopTypes
  <2>3. CASE step' = "gap" /\ ~gapTold /\ call' = [call EXCEPT ![Loop] = Asking(Server, "gap", clock)]
    <3>1. call[Loop].pc # "holding"
      BY <2>1, CallKinds
    <3>2. CallTypes' /\ call'[Loop] = Asking(Server, "gap", clock)
      BY <3>1, <2>1, <2>3, <1>1, <1>2, RunAsks
    <3>3. call'[Loop].trigger = "gap" /\ call'[Loop].pc = "waiting"
      BY <3>2 DEF Asking
    <3>4. LoopTypes'
      BY <2>1, <2>2, <2>3, <1>1, <1>2 DEF LoopTypes
    <3>5. LoopCall' /\ GapOnce'
      BY <3>3, <2>1, <2>3, <1>1 DEF LoopCall, GapOnce
    <3> QED
      BY <3>2, <3>4, <3>5 DEF FlowInv
  <2>4. CASE step' = "idle" /\ UNCHANGED call
    <3>1. LoopTypes'
      BY <2>1, <2>2, <2>4, <1>1, <1>2 DEF LoopTypes
    <3>2. LoopCall' /\ GapOnce'
      BY <2>1, <2>4, <1>1 DEF LoopCall, GapOnce
    <3> QED
      BY <3>1, <3>2, <2>1, <2>4, <1>3 DEF FlowInv, callVars
  <2> QED
    BY <2>3, <2>4, <1>5 DEF SampleMissing
<1>6. ASSUME call[Loop].pc = "done", call' = [call EXCEPT ![Loop] = NoCall], lock' = lock
      PROVE  CallTypes' /\ call'[Loop] = NoCall
  <2>1. "gap" \in Triggers
    BY <1>1
  <2> QED
    BY <1>6, <2>1, <1>1, <1>2, RunAsks
<1>7. CASE MailGap
  <2>1. /\ step = "gap" /\ step' = "idle" /\ gapTold' = TRUE /\ gapMails' = gapMails + 1
        /\ call[Loop].pc = "done" /\ call' = [call EXCEPT ![Loop] = NoCall]
        /\ UNCHANGED <<lock, missing, oomTodo, pressure, oomMail, oomTold>>
    BY <1>7 DEF MailGap, oomVars
  <2>2. gapMails = 0 /\ oomTodo = {}
    BY <2>1, <1>1 DEF GapOnce, LoopTypes
  <2>3. gapMails' = 1
    BY <2>1, <2>2
  <2>4. LoopTypes'
    BY <2>1, <2>3, <1>1, <1>2 DEF LoopTypes
  <2>5. CallTypes' /\ call'[Loop] = NoCall
    BY <2>1, <1>6
  <2>6. LoopCall' /\ GapOnce'
    BY <2>1, <2>2, <2>5 DEF LoopCall, GapOnce
  <2> QED
    BY <2>4, <2>5, <2>6 DEF FlowInv
<1>8. CASE SampleKnown \/ SampleNew
  <2>1. /\ step = "sample" /\ step' \in {"idle", "oom"} /\ UNCHANGED callVars
        /\ missing' = NoTime /\ gapTold' = FALSE /\ gapMails' = 0
        /\ UNCHANGED <<pressure, oomMail, oomTold>>
        /\ oomTodo' = oomTodo \/ (oomTodo' = sample.oom /\ step' = "oom")
    BY <1>8 DEF SampleKnown, SampleNew, oomVars
  <2>2. call[Loop] = NoCall /\ oomTodo = {} /\ call' = call
    BY <2>1, <1>1 DEF LoopCall, GapOnce, callVars
  <2>3. LoopTypes'
    <3>1. oomTodo' \subseteq Targets
      BY <2>1, <2>2, <1>1 DEF LoopTypes
    <3>2. missing' \in 0 .. clock' \cup {NoTime}
      BY <2>1
    <3>3. gapMails' \in 0 .. 1
      BY <2>1
    <3>4. gapTold' \in BOOLEAN
      BY <2>1
    <3> QED
      BY <3>1, <3>2, <3>3, <3>4, <2>1, <1>1, <1>2 DEF LoopTypes
  <2>4. LoopCall' /\ GapOnce'
    BY <2>1, <2>2 DEF LoopCall, GapOnce
  <2> QED
    BY <2>1, <2>3, <2>4, <1>3 DEF FlowInv
<1>9. ASSUME NEW t \in Targets, AskOom(t)
      PROVE  FlowInv'
  <2>1. /\ step = "oom" /\ step' = "mail" /\ call[Loop].pc = "idle" /\ oomTodo' = oomTodo \ {t}
        /\ call' = [call EXCEPT ![Loop] = Asking(t, "oom", clock)]
        /\ UNCHANGED <<lock, missing, gapTold, gapMails, pressure, oomMail, oomTold>>
    BY <1>9 DEF AskOom, gapVars
  <2>2. t \in Scopes /\ "oom" \in Triggers
    BY <1>1 DEF Scopes
  <2>3. CallTypes' /\ call'[Loop] = Asking(t, "oom", clock)
    BY <2>1, <2>2, <1>2, RunAsks
  <2>4. call'[Loop].trigger = "oom" /\ call'[Loop].pc = "waiting" /\ call'[Loop].scope = t
    BY <2>3 DEF Asking
  <2>5. LoopTypes'
    BY <2>1, <1>1, <1>2 DEF LoopTypes
  <2>6. LoopCall' /\ GapOnce'
    BY <2>1, <2>4, <1>1 DEF LoopCall, GapOnce
  <2> QED
    BY <2>3, <2>5, <2>6 DEF FlowInv
<1>10. CASE MailOom
  <2> DEFINE t == call[Loop].scope
  <2>1. /\ step = "mail" /\ step' = "oom" /\ call[Loop].pc = "done"
        /\ call' = [call EXCEPT ![Loop] = NoCall]
        /\ oomMail' = (IF Quiet(t) THEN [oomMail EXCEPT ![t] = clock] ELSE oomMail)
        /\ oomTold' = (IF Quiet(t) THEN [oomTold EXCEPT ![t] = clock] ELSE oomTold)
        /\ UNCHANGED <<lock, missing, gapTold, gapMails, oomTodo, pressure>>
    BY <1>10 DEF MailOom, gapVars
  <2>2. t \in Targets
    BY <2>1, <1>1 DEF LoopCall
  <2> HIDE DEF t
  <2>3. oomMail' \in [Targets -> Nat \cup {NoTime}] /\ oomTold' = oomMail'
    BY <2>1, <2>2, <1>1 DEF LoopTypes
  <2>4. LoopTypes'
    BY <2>1, <2>3, <1>1, <1>2 DEF LoopTypes
  <2>5. CallTypes' /\ call'[Loop] = NoCall
    BY <2>1, <1>6
  <2>6. LoopCall' /\ GapOnce'
    BY <2>1, <2>5, <1>1 DEF LoopCall, GapOnce
  <2> QED
    BY <2>4, <2>5, <2>6 DEF FlowInv
<1>11. CASE OomDone
  <2>1. /\ step = "oom" /\ oomTodo = {} /\ call[Loop].pc = "idle" /\ pressure' = Pressure
        /\ UNCHANGED <<lock, missing, gapTold, gapMails, oomTodo, oomMail, oomTold>>
    BY <1>11 DEF OomDone, gapVars
  <2>2. Pressure \in 0 .. Sustained
    <3>1. pressure + 1 \in Nat /\ Sustained \in Nat /\ 0 \in 0 .. Sustained
      BY <1>1, NumbersAssumption DEF LoopTypes
    <3> DEFINE S == {pressure + 1, Sustained}
    <3>2. S \in SUBSET Nat /\ S # {}
      BY <3>1
    <3>3. Min(S) \in S /\ Min(S) <= Sustained
      BY <3>2, MinOfNats
    <3>4. Min(S) \in 0 .. Sustained
      BY <3>1, <3>2, <3>3
    <3> QED
      BY <3>1, <3>4 DEF Pressure
  <2>3. CASE step' = "pressure" /\ call' = [call EXCEPT ![Loop] = Asking(Server, "pressure", clock)]
    <3>1. "pressure" \in Triggers
      BY <1>1
    <3>2. CallTypes' /\ call'[Loop] = Asking(Server, "pressure", clock)
      BY <3>1, <2>1, <2>3, <1>1, <1>2, RunAsks
    <3>3. call'[Loop].trigger = "pressure" /\ call'[Loop].pc = "waiting"
      BY <3>2 DEF Asking
    <3>4. LoopTypes'
      BY <2>1, <2>2, <2>3, <1>1, <1>2 DEF LoopTypes
    <3>5. LoopCall' /\ GapOnce'
      BY <3>3, <2>1, <2>3, <1>1 DEF LoopCall, GapOnce
    <3> QED
      BY <3>2, <3>4, <3>5 DEF FlowInv
  <2>4. CASE step' = "idle" /\ UNCHANGED call
    <3>1. LoopTypes'
      BY <2>1, <2>2, <2>4, <1>1, <1>2 DEF LoopTypes
    <3>2. LoopCall' /\ GapOnce'
      BY <2>1, <2>4, <1>1 DEF LoopCall, GapOnce
    <3> QED
      BY <3>1, <3>2, <2>1, <2>4, <1>3 DEF FlowInv, callVars
  <2> QED
    BY <2>3, <2>4, <1>11 DEF OomDone
<1>12. CASE EndPass
  <2>1. /\ step = "pressure" /\ step' = "idle" /\ call[Loop].pc = "done"
        /\ call' = [call EXCEPT ![Loop] = NoCall]
        /\ UNCHANGED <<lock, missing, gapTold, gapMails, oomTodo, pressure, oomMail, oomTold>>
    BY <1>12 DEF EndPass, gapVars, oomVars
  <2>2. LoopTypes'
    BY <2>1, <1>1, <1>2 DEF LoopTypes
  <2>3. CallTypes' /\ call'[Loop] = NoCall
    BY <2>1, <1>6
  <2>4. LoopCall' /\ GapOnce'
    BY <2>1, <2>3, <1>1 DEF LoopCall, GapOnce
  <2> QED
    BY <2>2, <2>3, <2>4 DEF FlowInv
<1>13. CASE PassFails
  <2>1. /\ step' = "idle" /\ oomTodo' = {} /\ call' = [call EXCEPT ![Loop] = NoCall]
        /\ lock' = (IF lock = Loop THEN NoTask ELSE lock)
        /\ UNCHANGED <<missing, gapTold, gapMails, pressure, oomMail, oomTold>>
    BY <1>13 DEF PassFails, gapVars
  <2>2. LoopTypes'
    BY <2>1, <1>1, <1>2 DEF LoopTypes
  <2>3. CallTypes' /\ call'[Loop] = NoCall
    <3>1. \A d \in Callers : d # NoTask
      BY NamesAssumption
    <3>2. lock \in Callers \cup {NoTask} /\ 0 <= clock
      BY <1>1 DEF CallTypes
    <3>3. NoCall \in Calls /\ NoCall.at <= clock /\ NoCall.pc = "idle"
      BY <3>2, CallKinds
    <3>4. /\ lock' \in Callers \cup {NoTask} /\ lock' # Loop
          /\ \A d \in Callers \ {Loop} : lock = d <=> lock' = d
      BY <2>1, <3>1, <3>2, <1>1
    <3>5. NoCall.pc = "holding" <=> lock' = Loop
      BY <3>3, <3>4
    <3> QED
      BY <2>1, <3>3, <3>4, <3>5, <1>1, <1>2, CallReplaced
  <2>4. LoopCall' /\ GapOnce'
    BY <2>1, <2>3, <1>1 DEF LoopCall, GapOnce
  <2> QED
    BY <2>2, <2>3, <2>4 DEF FlowInv
<1> QED
  BY <1>4, <1>5, <1>7, <1>8, <1>9, <1>10, <1>11, <1>12, <1>13 DEF LoopStep

\* A kill of the service forgets all but the table and the mails; the agent
\* and time take nothing away.
LEMMA WorldFlow ==
  ASSUME DiagInv,
         Crash \/ (\E oom \in SUBSET Targets : Sample(oom)) \/ Tick \/ UNCHANGED vars
  PROVE  FlowInv'
<1>1. /\ CallTypes /\ LoopTypes /\ LoopCall /\ GapOnce
      /\ clock \in 0 .. MaxTime /\ clock \in Nat /\ 0 <= clock /\ Loop \in Callers
  BY NumbersAssumption DEF DiagInv, StoreInv, StoreTypes, Callers
<1>2. CASE Crash
  <2>1. /\ lock' = NoTask /\ call' = [c \in Callers |-> NoCall] /\ step' = "idle"
        /\ missing' = NoTime /\ gapTold' = FALSE /\ gapMails' = 0
        /\ oomTodo' = {} /\ pressure' = 0
        /\ oomMail' = [t \in Targets |-> NoTime] /\ oomTold' = [t \in Targets |-> NoTime]
        /\ UNCHANGED <<clock, sample>> /\ faults' = faults + 1
    BY <1>2 DEF Crash, Memory
  <2>2. CallTypes'
    <3>1. NoCall \in Calls /\ NoCall.pc = "idle" /\ NoCall.at <= clock
      BY <1>1, CallKinds
    <3>2. call' \in [Callers -> Calls] /\ \A c \in Callers : call'[c] = NoCall /\ c # NoTask
      BY <2>1, <3>1, NamesAssumption
    <3>3. \A c \in Callers : /\ call'[c].pc = "holding" <=> lock' = c
                             /\ call'[c].at <= clock'
                             /\ call'[c].pc \in {"waiting", "holding"} => call'[c].trigger \in Triggers
      BY <2>1, <3>1, <3>2
    <3>4. lock' \in Callers \cup {NoTask}
      BY <2>1
    <3> QED
      BY <3>2, <3>3, <3>4 DEF CallTypes
  <2>3. LoopTypes'
    <3>1. 0 \in 0 .. Sustained /\ 0 \in 0 .. 1
      BY NumbersAssumption
    <3>2. oomMail' \in [Targets -> Nat \cup {NoTime}] /\ oomTold' = oomMail'
      BY <2>1
    <3>3. faults' \in Nat /\ sample'.oom \subseteq Targets
      BY <2>1, <1>1 DEF LoopTypes
    <3>4. missing' \in 0 .. clock' \cup {NoTime} /\ gapMails' \in 0 .. 1 /\ pressure' \in 0 .. Sustained
      BY <2>1, <3>1
    <3>5. gapTold' \in BOOLEAN
      BY <2>1
    <3>6. oomTodo' \subseteq Targets /\ step' \in {"idle"}
      BY <2>1
    <3> QED
      BY <3>2, <3>3, <3>4, <3>5, <3>6 DEF LoopTypes
  <2>4. LoopCall' /\ GapOnce'
    BY <2>1, <1>1 DEF LoopCall, GapOnce
  <2> QED
    BY <2>2, <2>3, <2>4 DEF FlowInv
<1>3. ASSUME UNCHANGED <<callVars, step, missing, gapTold, gapMails, oomTodo, pressure, oomMail, oomTold, faults>>,
             clock' \in Nat, clock <= clock', sample'.oom \subseteq Targets
      PROVE  FlowInv'
  <2>1. CallTypes'
    BY <1>3, <1>1, CallsKept DEF callVars
  <2>2. missing' \in 0 .. clock' \cup {NoTime}
    BY <1>3, <1>1 DEF LoopTypes
  <2>3. LoopTypes'
    BY <1>3, <2>2, <1>1 DEF LoopTypes
  <2>4. LoopCall' /\ GapOnce'
    BY <1>3, <1>1 DEF LoopCall, GapOnce, callVars
  <2> QED
    BY <2>1, <2>3, <2>4 DEF FlowInv
<1>4. ASSUME NEW oom \in SUBSET Targets, Sample(oom)
      PROVE  FlowInv'
  <2>1. /\ UNCHANGED <<callVars, step, missing, gapTold, gapMails, oomTodo, pressure, oomMail, oomTold, faults>>
        /\ clock' = clock /\ sample'.oom = oom
    BY <1>4 DEF Sample, loopVars, gapVars, oomVars
  <2>2. clock' \in Nat /\ clock <= clock'
    BY <2>1, <1>1
  <2> QED
    BY <2>1, <2>2, <1>3
<1>5. CASE Tick
  <2>1. /\ UNCHANGED <<callVars, step, missing, gapTold, gapMails, oomTodo, pressure, oomMail, oomTold, faults>>
        /\ clock' = clock + 1 /\ sample' = sample
    BY <1>5 DEF Tick, loopVars, gapVars, oomVars
  <2>2. clock' \in Nat /\ clock <= clock' /\ sample'.oom \subseteq Targets
    BY <2>1, <1>1 DEF LoopTypes
  <2> QED
    BY <2>1, <2>2, <1>3
<1>6. CASE UNCHANGED vars
  <2>1. /\ UNCHANGED <<callVars, step, missing, gapTold, gapMails, oomTodo, pressure, oomMail, oomTold, faults>>
        /\ UNCHANGED <<clock, sample>>
    BY <1>6 DEF vars, loopVars, gapVars, oomVars, worldVars
  <2>2. clock' \in Nat /\ clock <= clock' /\ sample'.oom \subseteq Targets
    BY <2>1, <1>1 DEF LoopTypes
  <2> QED
    BY <2>1, <2>2, <1>3
<1> QED
  BY <1>2, <1>4, <1>5, <1>6

-----------------------------------------------------------------------------
(* The invariant holds at the start and in every step. *)

\* An empty table and nobody at work.
LEMMA DiagInit == Init => DiagInv
<1> SUFFICES ASSUME Init PROVE DiagInv
  OBVIOUS
<1>1. /\ clock = 0 /\ rows = {} /\ made = 0 /\ mailed = {} /\ batch = {} /\ step = "idle"
      /\ lock = NoTask /\ call = [c \in Callers |-> NoCall] /\ Loop \in Callers
      /\ 0 \in 0 .. MaxTime /\ MaxReports \in Nat /\ 0 <= MaxReports
  BY NumbersAssumption DEF Init, Callers
<1>2. NoCall \in Calls /\ NoCall.pc = "idle" /\ NoCall.at = 0
  BY CallKinds
<1>3. \A c \in Callers : call[c] = NoCall /\ c # NoTask
  BY <1>1, NamesAssumption
<1>4. CallTypes
  <2>1. call \in [Callers -> Calls] /\ lock \in Callers \cup {NoTask}
    BY <1>1, <1>2
  <2>2. \A c \in Callers : /\ call[c].pc = "holding" <=> lock = c
                           /\ call[c].at <= clock
                           /\ call[c].pc \in {"waiting", "holding"} => call[c].trigger \in Triggers
    BY <1>1, <1>2, <1>3
  <2> QED
    BY <2>1, <2>2 DEF CallTypes
<1>5. StoreTypes
  <2>1. IsFiniteSet({}) /\ Cardinality({}) = 0
    BY FS_EmptySet
  <2> QED
    BY <1>1, <2>1 DEF StoreTypes
<1>6. Numbered /\ BatchOK /\ ReportBooks
  BY <1>1 DEF Numbered, BatchOK, ReportBooks, OneReportPerCooldown, CompleteMeansMailed
<1>7. HolderOK
  BY <1>2, <1>3 DEF HolderOK
<1>8. LoopTypes
  <2>1. 0 \in 0 .. Sustained /\ 0 \in 0 .. 1 /\ 0 \in Nat
    BY NumbersAssumption
  <2>2. gapTold \in BOOLEAN
    BY DEF Init
  <2>3. oomMail \in [Targets -> Nat \cup {NoTime}] /\ oomTold = oomMail
    BY DEF Init
  <2> QED
    BY <2>1, <2>2, <2>3 DEF Init, LoopTypes
<1>9. LoopCall /\ GapOnce
  BY <1>1, <1>3 DEF LoopCall, GapOnce, Init
<1> QED
  BY <1>4, <1>5, <1>6, <1>7, <1>8, <1>9 DEF DiagInv, StoreInv

\* What run does while it is not at the table leaves the table alone.
LEMMA RunStore ==
  ASSUME DiagInv, LoopStep \/ PassFails
  PROVE  StoreInv'
<1>1. /\ StoreInv /\ CallTypes /\ LoopCall /\ clock \in 0 .. MaxTime /\ clock <= clock
      /\ Loop \in Callers /\ call \in [Callers -> Calls]
  BY NumbersAssumption DEF DiagInv, StoreInv, StoreTypes, CallTypes, Callers
<1>2. CASE StartPass
  BY <1>2, StartPassStore
<1>3. CASE MailReport
  BY <1>3, MailReportStore
<1>4. CASE SaveReport
  BY <1>4, SaveReportStore
<1>5. CASE ReportsDone \/ SampleKnown \/ SampleNew
  <2>1. /\ UNCHANGED <<rows, mailed, made, batch, clock, call>> /\ step' # "save"
    BY <1>5 DEF ReportsDone, SampleKnown, SampleNew, storeVars, callVars, worldVars
  <2> QED
    BY <2>1, <1>1, StoreKept
<1>6. ASSUME NEW r, call' = [call EXCEPT ![Loop] = r], r.pc # "holding",
             UNCHANGED <<rows, mailed, made, clock>>, batch' = batch \/ batch' = {}, step' # "save"
      PROVE  StoreInv'
  <2>1. \A c \in Callers : call'[c].pc = "holding" => call'[c] = call[c]
    BY <1>6, <1>1
  <2> QED
    BY <2>1, <1>1, <1>6, StoreKept
<1>7. NoCall.pc # "holding"
  BY DEF NoCall
<1>8. CASE SampleMissing
  <2>1. /\ UNCHANGED <<rows, mailed, made, clock>> /\ batch' = batch /\ step' # "save"
        /\ call' = call \/ call' = [call EXCEPT ![Loop] = Asking(Server, "gap", clock)]
    BY <1>8 DEF SampleMissing, storeVars, worldVars
  <2>2. CASE call' = call
    BY <2>1, <2>2, <1>1, StoreKept
  <2>3. CASE call' = [call EXCEPT ![Loop] = Asking(Server, "gap", clock)]
    <3>1. Asking(Server, "gap", clock).pc # "holding"
      BY DEF Asking
    <3> QED
      BY <2>1, <2>3, <3>1, <1>6
  <2> QED
    BY <2>1, <2>2, <2>3
<1>9. CASE MailGap \/ MailOom \/ EndPass \/ PassFails
  <2>1. /\ UNCHANGED <<rows, mailed, made, clock>> /\ (batch' = batch \/ batch' = {}) /\ step' # "save"
        /\ call' = [call EXCEPT ![Loop] = NoCall]
    BY <1>9 DEF MailGap, MailOom, EndPass, PassFails, storeVars, worldVars
  <2> QED
    BY <2>1, <1>6, <1>7
<1>10. ASSUME NEW t \in Targets, AskOom(t)
       PROVE  StoreInv'
  <2>1. /\ UNCHANGED <<rows, mailed, made, clock>> /\ batch' = batch /\ step' # "save"
        /\ call' = [call EXCEPT ![Loop] = Asking(t, "oom", clock)]
    BY <1>10 DEF AskOom, storeVars, worldVars
  <2>2. Asking(t, "oom", clock).pc # "holding"
    BY DEF Asking
  <2> QED
    BY <2>1, <2>2, <1>6
<1>11. CASE OomDone
  <2>1. /\ UNCHANGED <<rows, mailed, made, clock>> /\ batch' = batch /\ step' # "save"
        /\ call' = call \/ call' = [call EXCEPT ![Loop] = Asking(Server, "pressure", clock)]
    BY <1>11 DEF OomDone, storeVars, worldVars
  <2>2. CASE call' = call
    BY <2>1, <2>2, <1>1, StoreKept
  <2>3. CASE call' = [call EXCEPT ![Loop] = Asking(Server, "pressure", clock)]
    <3>1. Asking(Server, "pressure", clock).pc # "holding"
      BY DEF Asking
    <3> QED
      BY <2>1, <2>3, <3>1, <1>6
  <2> QED
    BY <2>1, <2>2, <2>3
<1> QED
  BY <1>2, <1>3, <1>4, <1>5, <1>8, <1>9, <1>10, <1>11 DEF LoopStep

\* Statements of a capture other than Enter and Save leave it alone, too.
LEMMA CaptureStore ==
  ASSUME DiagInv, NEW c \in Callers,
         (\E s \in Targets, at \in 0 .. MaxTime : Ask(c, s, at))
         \/ CoolDown(c) \/ Enter(c) \/ Save(c) \/ CallFails(c)
  PROVE  StoreInv'
<1>1. /\ StoreInv /\ CallTypes /\ clock \in 0 .. MaxTime /\ clock <= clock /\ 0 <= clock
      /\ call \in [Callers -> Calls]
  BY NumbersAssumption DEF DiagInv, StoreInv, StoreTypes, CallTypes
<1>2. ASSUME NEW r, call' = [call EXCEPT ![c] = r], r.pc # "holding",
             UNCHANGED <<rows, mailed, made, clock, batch, step>>
      PROVE  StoreInv'
  <2>1. \A d \in Callers : call'[d].pc = "holding" => call'[d] = call[d]
    BY <1>2, <1>1
  <2> QED
    BY <2>1, <1>1, <1>2, StoreKept
<1>3. ASSUME NEW s \in Targets, NEW at \in 0 .. MaxTime, Ask(c, s, at)
      PROVE  StoreInv'
  <2>1. /\ call' = [call EXCEPT ![c] = Asking(s, "evidence", at)]
        /\ UNCHANGED <<rows, mailed, made, clock, batch, step>>
    BY <1>3 DEF Ask, storeVars, loopVars, worldVars
  <2>2. Asking(s, "evidence", at).pc # "holding"
    BY DEF Asking
  <2> QED
    BY <2>1, <2>2, <1>2
<1>4. CASE CoolDown(c)
  <2>1. /\ call' = [call EXCEPT ![c] = Returned(c)]
        /\ UNCHANGED <<rows, mailed, made, clock, batch, step>>
    BY <1>4 DEF CoolDown, storeVars, loopVars, worldVars
  <2>2. Returned(c).pc # "holding"
    BY <1>1, ReturnedKind
  <2> QED
    BY <2>1, <2>2, <1>2
<1>5. CASE Enter(c)
  BY <1>5, EnterStore
<1>6. CASE Save(c)
  BY <1>6, SaveStore
<1>7. CASE CallFails(c)
  <2>1. /\ call' = [call EXCEPT ![c] = NoCall]
        /\ UNCHANGED <<rows, mailed, made, clock, batch, step>>
    BY <1>7 DEF CallFails, storeVars, loopVars
  <2>2. NoCall.pc # "holding"
    BY DEF NoCall
  <2> QED
    BY <2>1, <2>2, <1>2
<1> QED
  BY <1>3, <1>4, <1>5, <1>6, <1>7

\* And so do kills, samples and time.
LEMMA WorldStore ==
  ASSUME DiagInv,
         Crash \/ (\E oom \in SUBSET Targets : Sample(oom)) \/ Tick \/ UNCHANGED vars
  PROVE  StoreInv'
<1>1. /\ StoreInv /\ CallTypes /\ clock \in 0 .. MaxTime /\ clock <= clock /\ clock \in Nat
      /\ MaxTime \in Nat
  BY NumbersAssumption DEF DiagInv, StoreInv, StoreTypes
<1>2. CASE Crash
  <2>1. /\ UNCHANGED <<rows, mailed, made, clock>> /\ batch' = {} /\ step' # "save"
        /\ call' = [c \in Callers |-> NoCall]
    BY <1>2 DEF Crash, Memory, storeVars
  <2>2. \A c \in Callers : call'[c].pc # "holding"
    BY <2>1 DEF NoCall
  <2>3. /\ UNCHANGED <<rows, mailed, made>> /\ (batch' = batch \/ batch' = {})
        /\ clock' \in 0 .. MaxTime /\ clock <= clock'
        /\ \A c \in Callers : call'[c].pc = "holding" => call'[c] = call[c]
        /\ step' = "save" => step = "save" /\ batch' = batch
    BY <2>1, <2>2, <1>1
  <2> QED
    BY <2>3, <1>1, StoreKept
<1>3. CASE (\E oom \in SUBSET Targets : Sample(oom)) \/ UNCHANGED vars
  <2>1. UNCHANGED <<rows, mailed, made, clock, call, batch, step>>
    BY <1>3 DEF Sample, vars, storeVars, callVars, loopVars, worldVars
  <2>2. /\ clock' \in 0 .. MaxTime /\ clock <= clock'
        /\ \A c \in Callers : call'[c].pc = "holding" => call'[c] = call[c]
        /\ step' = "save" => step = "save" /\ batch' = batch
    BY <2>1, <1>1
  <2> QED
    BY <2>1, <2>2, <1>1, StoreKept
<1>4. CASE Tick
  <2>1. /\ UNCHANGED <<rows, mailed, made, call, batch, step>>
        /\ clock < MaxTime /\ clock' = clock + 1
    BY <1>4 DEF Tick, storeVars, callVars, loopVars
  <2>2. clock' \in 0 .. MaxTime /\ clock <= clock'
    BY <2>1, <1>1
  <2>3. /\ \A c \in Callers : call'[c].pc = "holding" => call'[c] = call[c]
        /\ step' = "save" => step = "save" /\ batch' = batch
    BY <2>1
  <2> QED
    BY <2>1, <2>2, <2>3, <1>1, StoreKept
<1> QED
  BY <1>2, <1>3, <1>4

\* Each part is kept by the captures, by run and by the world.
LEMMA DiagInvStep == DiagInv /\ [Next]_vars => DiagInv'
<1> SUFFICES ASSUME DiagInv, [Next]_vars PROVE DiagInv'
  OBVIOUS
<1>1. CASE LoopStep \/ PassFails
  BY <1>1, RunStore, RunFlow DEF DiagInv, FlowInv
<1>2. ASSUME NEW c \in Tasks, NEW s \in Targets, NEW at \in 0 .. MaxTime, Ask(c, s, at)
      PROVE  DiagInv'
  <2>1. c \in Callers
    BY DEF Callers
  <2> QED
    BY <1>2, <2>1, CaptureStore, CaptureFlow DEF DiagInv, FlowInv
<1>3. ASSUME NEW c \in Callers, CaptureStep(c) \/ CallFails(c)
      PROVE  DiagInv'
  BY <1>3, CaptureStore, CaptureFlow DEF DiagInv, FlowInv, CaptureStep
<1>4. CASE Crash \/ (\E oom \in SUBSET Targets : Sample(oom)) \/ Tick \/ UNCHANGED vars
  BY <1>4, WorldStore, WorldFlow DEF DiagInv, FlowInv
<1> QED
  BY <1>1, <1>2, <1>3, <1>4 DEF Next

-----------------------------------------------------------------------------
(* What follows for every behaviour. *)

\* The table of reports, the captures and run stay in step (DiagInv) whatever
\* the interleaving, the errors and the kills.
THEOREM DiagInvariant == Spec => []DiagInv
BY DiagInit, DiagInvStep, PTL DEF Spec

\* Types, the limit of the table, one holder of the lock, and at most one alarm
\* in an outage of sampling.
THEOREM DiagnosticsTypeCorrect == Spec => []TypeOK
<1>1. DiagInv => TypeOK
  BY DEF DiagInv, StoreInv, StoreTypes, CallTypes, LoopTypes, TypeOK
<1> QED
  BY <1>1, DiagInvariant, PTL

\* Reports of a connection are a cooldown apart, and one is complete only with
\* its mail queued, in save_report and _finish_reports alike.
THEOREM ReportBooksHold == Spec => []ReportBooks
<1>1. DiagInv => ReportBooks
  BY DEF DiagInv, StoreInv
<1> QED
  BY <1>1, DiagInvariant, PTL

\* A kill of a process that the service has read of is looked at further, or
\* mailed, or follows a mail about its target within the silence.
LEMMA OomStep ==
  ASSUME DiagInv, Next, faults' = faults, NEW t \in Targets, OomDue(t), ~OomDue(t)'
  PROVE  Told(t)'
<1>1. /\ CallTypes /\ LoopTypes /\ LoopCall /\ GapOnce
      /\ clock \in 0 .. MaxTime /\ clock \in Nat /\ Loop \in Callers /\ faults \in Nat
      /\ call \in [Callers -> Calls] /\ OomEvery \in Nat /\ OomEvery > 0
      /\ NoTime \notin Nat
  BY NumbersAssumption, NamesAssumption
     DEF DiagInv, StoreInv, StoreTypes, Callers, LoopTypes, CallTypes
<1>2. t \in oomTodo \/ (call[Loop].trigger = "oom" /\ call[Loop].scope = t)
  BY DEF OomDue
<1>3. NoCall.trigger = ""
  BY DEF NoCall
<1>4. step \in {"oom", "mail"}
  BY <1>1, <1>2, <1>3 DEF LoopCall, GapOnce, LoopTypes
<1>5. ~(oomTodo' = oomTodo /\ call'[Loop].trigger = call[Loop].trigger
                          /\ call'[Loop].scope = call[Loop].scope)
  BY <1>2 DEF OomDue
<1>6. CASE LoopStep
  <2>1. CASE \E u \in Targets : AskOom(u)
    <3>1. PICK u \in Targets : AskOom(u)
      BY <2>1
    <3>2. /\ step = "oom" /\ oomTodo' = oomTodo \ {u}
          /\ call' = [call EXCEPT ![Loop] = Asking(u, "oom", clock)]
      BY <3>1 DEF AskOom
    <3>3. call[Loop].trigger # "oom"
      BY <3>2, <1>1, <1>3 DEF LoopCall
    <3>4. call'[Loop].trigger = "oom" /\ call'[Loop].scope = u
      BY <3>2, <1>1 DEF Asking
    <3> QED
      BY <3>2, <3>3, <3>4, <1>2 DEF OomDue
  <2>2. CASE MailOom
    <3> DEFINE u == call[Loop].scope
    <3>1. /\ step = "mail" /\ oomTodo' = oomTodo /\ clock' = clock
          /\ oomTold' = (IF Quiet(u) THEN [oomTold EXCEPT ![u] = clock] ELSE oomTold)
      BY <2>2 DEF MailOom, worldVars
    <3>2. t = u
      BY <3>1, <1>2 DEF OomDue
    <3>3. oomTold = oomMail /\ oomMail \in [Targets -> Nat \cup {NoTime}]
      BY <1>1 DEF LoopTypes
    <3> HIDE DEF u
    <3>4. CASE Quiet(u)
      <4>1. oomTold'[t] = clock
        BY <3>1, <3>2, <3>3, <3>4
      <4>2. clock # NoTime /\ clock < clock + OomEvery
        BY <1>1
      <4> QED
        BY <4>1, <4>2, <3>1 DEF Told
    <3>5. CASE ~Quiet(u)
      <4>1. oomTold'[t] = oomMail[t] /\ oomMail[t] \in Nat \cup {NoTime}
        BY <3>1, <3>2, <3>3, <3>5
      <4>2. oomMail[t] # NoTime /\ ~(clock >= oomMail[t] + OomEvery)
        BY <3>2, <3>5 DEF Quiet
      <4>3. clock < oomMail[t] + OomEvery
        BY <4>1, <4>2, <1>1
      <4> QED
        BY <4>1, <4>2, <4>3, <3>1 DEF Told
    <3> QED
      BY <3>4, <3>5
  <2>3. CASE OomDone
    <3>1. step = "oom" /\ oomTodo = {}
      BY <2>3 DEF OomDone
    <3> QED
      BY <3>1, <1>1, <1>2, <1>3 DEF LoopCall
  <2>4. ~(StartPass \/ MailReport \/ SaveReport \/ ReportsDone \/ SampleMissing \/ MailGap
          \/ SampleKnown \/ SampleNew \/ EndPass)
    BY <1>4 DEF StartPass, MailReport, SaveReport, ReportsDone, SampleMissing, MailGap,
                SampleKnown, SampleNew, EndPass
  <2> QED
    BY <2>1, <2>2, <2>3, <2>4, <1>6 DEF LoopStep
<1>7. ASSUME NEW c \in Tasks, NEW s \in Targets, NEW at \in 0 .. MaxTime, Ask(c, s, at)
      PROVE  FALSE
  <2>1. oomTodo' = oomTodo /\ call' = [call EXCEPT ![c] = Asking(s, "evidence", at)]
    BY <1>7 DEF Ask, oomVars
  <2>2. call'[Loop] = call[Loop]
    BY <2>1, <1>1, NamesAssumption
  <2> QED
    BY <2>1, <2>2, <1>5
<1>8. ASSUME NEW c \in Callers, CaptureStep(c)
      PROVE  FALSE
  <2>1. oomTodo' = oomTodo
    BY <1>8 DEF CaptureStep, CoolDown, Enter, Save, oomVars
  <2>2. CASE c # Loop
    <3>1. call'[Loop] = call[Loop]
      BY <2>2, <1>8, <1>1 DEF CaptureStep, CoolDown, Enter, Save
    <3> QED
      BY <2>1, <3>1, <1>5
  <2>3. CASE c = Loop
    <3>1. CASE CoolDown(c) \/ Save(c)
      <4>1. call' = [call EXCEPT ![Loop] = Returned(Loop)]
        BY <2>3, <3>1 DEF CoolDown, Save
      <4>2. Returned(Loop).scope = call[Loop].scope /\ Returned(Loop).trigger = call[Loop].trigger
        BY <1>1, ReturnedKind
      <4> QED
        BY <4>1, <4>2, <2>1, <1>1, <1>5
    <3>2. CASE Enter(c)
      <4>1. call' = [call EXCEPT ![Loop].pc = "holding", ![Loop].created = clock,
                                 ![Loop].id = made']
        BY <2>3, <3>2 DEF Enter
      <4>2. call'[Loop].scope = call[Loop].scope /\ call'[Loop].trigger = call[Loop].trigger
        <5>1. call[Loop] \in Calls
          BY <1>1
        <5> QED
          BY <4>1, <5>1, <1>1 DEF Calls
      <4> QED
        BY <4>2, <2>1, <1>5
    <3> QED
      BY <3>1, <3>2, <1>8 DEF CaptureStep
  <2> QED
    BY <2>2, <2>3
<1>9. ~((\E c \in Callers : CallFails(c)) \/ PassFails \/ Crash)
  <2>1. faults' # faults + 1
    BY <1>1
  <2> QED
    BY <2>1 DEF CallFails, PassFails, Crash
<1>10. ~((\E oom \in SUBSET Targets : Sample(oom)) \/ Tick)
  <2> SUFFICES ASSUME (\E oom \in SUBSET Targets : Sample(oom)) \/ Tick PROVE FALSE
    OBVIOUS
  <2>1. oomTodo' = oomTodo /\ call' = call
    BY DEF Sample, Tick, oomVars, callVars
  <2> QED
    BY <2>1, <1>5
<1> QED
  BY <1>6, <1>7, <1>8, <1>9, <1>10 DEF Next

\* No kill in a sample that the service has read goes unmailed, unless a mail
\* about its target went out within the silence of _last_oom_mail or an error
\* or a kill of the service comes between.
THEOREM OomKillsAreMailed == Spec => OomIsMailed
<1>1. DiagInv /\ [Next]_vars
        => [faults' = faults => \A t \in Targets : OomDue(t) /\ ~OomDue(t)' => Told(t)']_vars
  BY OomStep
<1> QED
  BY <1>1, DiagInvariant, PTL DEF Spec, OomIsMailed

\* _sampling_gap_notified is set exactly when the alarm of this outage is in
\* the outbox: an error before that leaves the alarm to a later pass.
ToldByMail == gapMails = IF gapTold THEN 1 ELSE 0

\* What the service believes to have told was told, whatever failed in between.
THEOREM OutagesAreToldByMail == Spec => []ToldByMail
<1>1. DiagInv => ToldByMail
  BY DEF DiagInv, GapOnce, ToldByMail
<1> QED
  BY <1>1, DiagInvariant, PTL

\* A report that is neither in the table nor about to be stored by the capture
\* that made it.
Deleted(n) ==
  /\ \A r \in rows : r.id # n
  /\ \A c \in Callers : call[c].pc = "holding" => call[c].id # n

\* No step brings a deleted report back: only Save and SaveReport store, the
\* one the capture's own report and the other in the place of a row.
LEMMA DeletedKept ==
  ASSUME DiagInv, Next, NEW n \in 1 .. made, Deleted(n)
  PROVE  Deleted(n)'
<1>1. /\ CallTypes /\ LoopCall /\ Loop \in Callers /\ made \in Nat /\ n \in Nat /\ n <= made
      /\ call \in [Callers -> Calls]
      /\ \A r \in rows : r.id # n
      /\ \A c \in Callers : call[c].pc = "holding" => call[c].id # n
  BY DEF DiagInv, StoreInv, StoreTypes, CallTypes, Callers, Deleted
<1>2. ASSUME UNCHANGED rows,
             \A c \in Callers : call'[c].pc = "holding" => call'[c] = call[c]
      PROVE  Deleted(n)'
  BY <1>1, <1>2 DEF Deleted
<1>3. ASSUME NEW c \in Callers, NEW r, call' = [call EXCEPT ![c] = r], r.pc # "holding"
      PROVE  \A d \in Callers : call'[d].pc = "holding" => call'[d] = call[d]
  BY <1>1, <1>3
<1>4. NoCall.pc # "holding" /\ \A c \in Callers : Returned(c).pc # "holding"
  <2>1. 0 <= clock
    BY DEF DiagInv, StoreInv, StoreTypes
  <2>2. \A c \in Callers : Returned(c).pc # "holding"
    BY <1>1, <2>1, ReturnedKind
  <2> QED
    BY <2>2, CallKinds
<1>5. CASE SaveReport
  <2> DEFINE done == [Current EXCEPT !.state = "complete"]
             R == IF Current \in rows THEN (rows \ {Current}) \cup {done} ELSE rows
  <2>1. rows' \subseteq R
    BY <1>5, CompletionEffect
  <2>2. Current \in rows => Current \in Rows
    BY DEF DiagInv, StoreInv, StoreTypes
  <2>3. Current \in rows => done.id = Current.id
    BY <2>2 DEF Rows
  <2>4. \A r \in rows' : r.id # n
    BY <2>1, <2>3, <1>1
  <2>5. call' = call
    BY <1>5 DEF SaveReport, callVars
  <2> QED
    BY <2>4, <2>5, <1>1 DEF Deleted
<1>6. CASE StartPass \/ MailReport \/ ReportsDone \/ SampleKnown \/ SampleNew
  <2>1. UNCHANGED <<rows, call>>
    BY <1>6 DEF StartPass, MailReport, ReportsDone, SampleKnown, SampleNew, callVars, storeVars
  <2> QED
    BY <2>1, <1>2
<1>7. CASE SampleMissing
  <2>1. rows' = rows /\ (call' = call \/ call' = [call EXCEPT ![Loop] = Asking(Server, "gap", clock)])
    BY <1>7 DEF SampleMissing, storeVars
  <2>2. Asking(Server, "gap", clock).pc # "holding"
    BY DEF Asking
  <2>3. CASE call' = call
    BY <2>1, <2>3, <1>2
  <2>4. CASE call' = [call EXCEPT ![Loop] = Asking(Server, "gap", clock)]
    <3>1. \A d \in Callers : call'[d].pc = "holding" => call'[d] = call[d]
      BY <2>2, <2>4, <1>1, <1>3
    <3> QED
      BY <2>1, <3>1, <1>2
  <2> QED
    BY <2>1, <2>3, <2>4
<1>8. CASE OomDone
  <2>1. rows' = rows /\ (call' = call \/ call' = [call EXCEPT ![Loop] = Asking(Server, "pressure", clock)])
    BY <1>8 DEF OomDone, storeVars
  <2>2. Asking(Server, "pressure", clock).pc # "holding"
    BY DEF Asking
  <2>3. CASE call' = call
    BY <2>1, <2>3, <1>2
  <2>4. CASE call' = [call EXCEPT ![Loop] = Asking(Server, "pressure", clock)]
    <3>1. \A d \in Callers : call'[d].pc = "holding" => call'[d] = call[d]
      BY <2>2, <2>4, <1>1, <1>3
    <3> QED
      BY <2>1, <3>1, <1>2
  <2> QED
    BY <2>1, <2>3, <2>4
<1>9. CASE MailGap \/ MailOom \/ EndPass \/ PassFails
  <2>1. rows' = rows /\ call' = [call EXCEPT ![Loop] = NoCall]
    BY <1>9 DEF MailGap, MailOom, EndPass, PassFails, storeVars
  <2>2. \A d \in Callers : call'[d].pc = "holding" => call'[d] = call[d]
    BY <2>1, <1>1, <1>3, <1>4
  <2> QED
    BY <2>1, <2>2, <1>2
<1>10. ASSUME NEW t \in Targets, AskOom(t)
       PROVE  Deleted(n)'
  <2>1. rows' = rows /\ call' = [call EXCEPT ![Loop] = Asking(t, "oom", clock)]
    BY <1>10 DEF AskOom, storeVars
  <2>2. Asking(t, "oom", clock).pc # "holding"
    BY DEF Asking
  <2>3. \A d \in Callers : call'[d].pc = "holding" => call'[d] = call[d]
    BY <2>1, <2>2, <1>1, <1>3
  <2> QED
    BY <2>1, <2>3, <1>2
<1>11. ASSUME NEW c \in Tasks, NEW s \in Targets, NEW at \in 0 .. MaxTime, Ask(c, s, at)
       PROVE  Deleted(n)'
  <2>1. rows' = rows /\ call' = [call EXCEPT ![c] = Asking(s, "evidence", at)] /\ c \in Callers
    BY <1>11 DEF Ask, storeVars, Callers
  <2>2. Asking(s, "evidence", at).pc # "holding"
    BY DEF Asking
  <2>3. \A d \in Callers : call'[d].pc = "holding" => call'[d] = call[d]
    BY <2>1, <2>2, <1>3
  <2> QED
    BY <2>1, <2>3, <1>2
<1>12. ASSUME NEW c \in Callers, CoolDown(c) \/ CallFails(c)
       PROVE  Deleted(n)'
  <2>1. rows' = rows /\ (call' = [call EXCEPT ![c] = Returned(c)] \/ call' = [call EXCEPT ![c] = NoCall])
    BY <1>12 DEF CoolDown, CallFails, storeVars
  <2>2. \A d \in Callers : call'[d].pc = "holding" => call'[d] = call[d]
    BY <2>1, <1>3, <1>4
  <2> QED
    BY <2>1, <2>2, <1>2
<1>13. ASSUME NEW c \in Callers, Enter(c)
       PROVE  Deleted(n)'
  <2>1. /\ rows' = rows /\ made' = made + 1
        /\ call' = [call EXCEPT ![c].pc = "holding", ![c].created = clock, ![c].id = made']
    BY <1>13 DEF Enter
  <2>2. call'[c].id = made + 1
    <3>1. call[c] \in Calls
      BY <1>1
    <3> QED
      BY <2>1, <3>1, <1>1 DEF Calls
  <2>3. \A d \in Callers \ {c} : call'[d] = call[d]
    BY <2>1, <1>1
  <2>4. made + 1 # n
    BY <1>1
  <2> QED
    BY <2>1, <2>2, <2>3, <2>4, <1>1 DEF Deleted
<1>14. ASSUME NEW c \in Callers, Save(c)
       PROVE  Deleted(n)'
  <2> DEFINE row == [id |-> call[c].id, scope |-> call[c].scope,
                     trigger |-> call[c].trigger, created |-> call[c].created,
                     due |-> DueAt(call[c].created), state |-> "collecting"]
  <2>1. /\ call[c].pc = "holding" /\ rows' = Saved(row) /\ call' = [call EXCEPT ![c] = Returned(c)]
    BY <1>14 DEF Save
  <2>2. row.id # n
    BY <2>1, <1>1
  <2> HIDE DEF row
  <2>3. Saved(row) \subseteq rows \cup {row}
    BY DEF Saved, Newest
  <2>4. \A r \in rows' : r.id # n
    BY <2>1, <2>2, <2>3, <1>1
  <2>5. \A d \in Callers : call'[d].pc = "holding" => call'[d] = call[d]
    BY <2>1, <1>3, <1>4
  <2> QED
    BY <2>4, <2>5, <1>1 DEF Deleted
<1>15. CASE Crash
  <2>1. rows' = rows /\ call' = [c \in Callers |-> NoCall]
    BY <1>15 DEF Crash, Memory, storeVars
  <2>2. \A d \in Callers : call'[d].pc # "holding"
    BY <2>1, <1>4
  <2> QED
    BY <2>1, <2>2, <1>2
<1>16. CASE (\E oom \in SUBSET Targets : Sample(oom)) \/ Tick
  <2>1. rows' = rows /\ call' = call
    BY <1>16 DEF Sample, Tick, storeVars, callVars
  <2> QED
    BY <2>1, <1>2
<1> QED
  BY <1>5, <1>6, <1>7, <1>8, <1>9, <1>10, <1>11, <1>12, <1>13, <1>14, <1>15, <1>16
     DEF Next, LoopStep, CaptureStep

\* A report that the limits deleted never comes back, although run stores the
\* completed form of what it read before captures deleted it.
DeletedStaysDeleted == [][\A n \in 1 .. made : Deleted(n) => Deleted(n)']_vars

\* Neither a completion that lags behind the captures nor a capture's save
\* undoes a deletion by max_reports or report_retention_days.
THEOREM DeletionsAreFinal == Spec => DeletedStaysDeleted
<1>1. DiagInv /\ [Next]_vars => [\A n \in 1 .. made : Deleted(n) => Deleted(n)']_vars
  BY DeletedKept
<1> QED
  BY <1>1, DiagInvariant, PTL DEF Spec, DeletedStaysDeleted
=============================================================================

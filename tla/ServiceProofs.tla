--------------------------- MODULE ServiceProofs ---------------------------
(***************************************************************************)
(* Proofs about Service for any usage, clock and number of faults: usage   *)
(* is mailed once and no day is skipped, and the journal is cut right,     *)
(* though workers fail and the process is stopped, killed and restarted.   *)
(* At the end, proofs about LinkMonitor, which counts the failures in the  *)
(* records that the journal reader hands on.                               *)
(***************************************************************************)
EXTENDS Service, LinkMonitor, FiniteSetTheorems, WellFoundedInduction, SequenceTheorems, TLAPS

-----------------------------------------------------------------------------
(* The journal reader, for every limit and every chunk size.               *)

\* The strengthening: the buffer is the record in the pipe, or nothing of one
\* that is already too long.
ReaderInv == ReaderTypeOK /\ ShortRecordsAreHandedOn /\ BufferIsTheRecord

\* The numbers an action works with are numbers.
LEMMA StepNumbers ==
  ASSUME ReaderTypeOK, NEW n \in 0 .. Chunk
  PROVE  /\ n \in Nat /\ Limit \in Nat /\ Chunk \in Nat /\ room \in Nat /\ buffer \in Nat
         /\ written \in Nat /\ complete \in Nat
BY NumbersAssumption DEF ReaderTypeOK

\* A new reader holds nothing.
LEMMA ReaderInvInit == ReaderInit => ReaderInv
<1> SUFFICES ASSUME ReaderInit PROVE ReaderInv
    OBVIOUS
<1>1. room \in 0 .. Chunk /\ buffer \in 0 .. Limit /\ written \in Nat /\ complete \in Nat
  BY NumbersAssumption DEF ReaderInit
<1>2. handed \subseteq 1 .. complete /\ short \subseteq 1 .. complete /\ handed = short
  BY DEF ReaderInit
<1>3. discarding = FALSE /\ buffer = written
  BY DEF ReaderInit
<1>4. QED
  BY <1>1, <1>2, <1>3 DEF ReaderInv, ReaderTypeOK, ShortRecordsAreHandedOn, BufferIsTheRecord

\* Each piece of a chunk, and a restart, preserves the reader's invariant.
LEMMA ReaderInvNext == ReaderInv /\ [ReaderNext]_journalVars => ReaderInv'
<1> SUFFICES ASSUME ReaderInv, [ReaderNext]_journalVars PROVE ReaderInv'
    OBVIOUS
<1> USE NumbersAssumption DEF ReaderInv, ShortRecordsAreHandedOn, BufferIsTheRecord
<1>1. ASSUME NEW n \in 0 .. Chunk, LastPiece(n) PROVE ReaderInv'
  <2>1. /\ n \in Nat /\ Limit \in Nat /\ Chunk \in Nat /\ buffer \in Nat /\ written \in Nat
    BY StepNumbers
  <2>2. written' = written + n /\ TakePiece(n) /\ handed' = short' /\ room' \in 0 .. Chunk
    BY <1>1, <2>1 DEF LastPiece
  <2>3. handed' \subseteq 1 .. complete' /\ short' \subseteq 1 .. complete' /\ complete' \in Nat
    BY <1>1, <2>1 DEF LastPiece, ReaderTypeOK
  <2>4. CASE discarding
    <3>1. discarding' = discarding /\ buffer' = 0 /\ buffer = 0 /\ written > Limit
      BY <2>2, <2>4 DEF TakePiece
    <3>2. written + n > Limit /\ written + n \in Nat
      BY <2>1, <3>1
    <3>3. QED
      BY <2>1, <2>2, <2>3, <2>4, <3>1, <3>2 DEF ReaderTypeOK
  <2>5. CASE ~discarding /\ buffer + n > Limit
    <3>1. discarding' = TRUE /\ buffer' = 0 /\ buffer = written
      BY <2>2, <2>5 DEF TakePiece
    <3>2. QED
      BY <2>1, <2>2, <2>3, <2>5, <3>1 DEF ReaderTypeOK
  <2>6. CASE ~discarding /\ ~(buffer + n > Limit)
    <3>1. discarding' = discarding /\ buffer' = buffer + n /\ buffer = written
      BY <2>2, <2>6 DEF TakePiece
    <3>2. buffer + n \in 0 .. Limit /\ discarding' = FALSE
      BY <2>1, <2>6, <3>1 DEF ReaderTypeOK
    <3>3. QED
      BY <2>1, <2>2, <2>3, <3>1, <3>2 DEF ReaderTypeOK
  <2>7. QED
    BY <2>4, <2>5, <2>6
<1>2. ASSUME NEW n \in 0 .. Chunk, EndRecord(n) PROVE ReaderInv'
  <2>1. /\ n \in Nat /\ Limit \in Nat /\ Chunk \in Nat /\ buffer \in Nat /\ written \in Nat
        /\ room \in Nat /\ complete \in Nat
    BY StepNumbers
  <2>2. (discarding \/ buffer + n > Limit) <=> ~(written + n <= Limit)
    BY <2>1 DEF ReaderTypeOK
  <2>3. handed' = short'
    BY <1>2, <2>2 DEF EndRecord
  <2>4. n + 1 <= room /\ room \in 0 .. Chunk /\ room' = room - (n + 1)
    BY <1>2 DEF EndRecord, Room, ReaderTypeOK
  <2>5. room' \in 0 .. Chunk
    BY <2>1, <2>4
  <2>6. complete' = complete + 1 /\ short' \subseteq 1 .. complete'
    BY <1>2, <2>1 DEF EndRecord, ReaderTypeOK
  <2>7. buffer' = 0 /\ written' = 0 /\ discarding' = FALSE /\ complete' \in Nat
    BY <1>2, <2>1 DEF EndRecord
  <2>8. 0 \in 0 .. Limit /\ handed' \subseteq 1 .. complete'
    BY <2>1, <2>3, <2>6
  <2>9. ReaderTypeOK'
    BY <2>5, <2>6, <2>7, <2>8 DEF ReaderTypeOK
  <2>10. BufferIsTheRecord'
    BY <2>7
  <2>11. QED
    BY <2>3, <2>9, <2>10
<1>3. CASE ReaderRestart
  <2>1. buffer' = 0 /\ written' = 0 /\ discarding' = FALSE /\ room' = Chunk
    BY <1>3 DEF ReaderRestart
  <2>2. UNCHANGED <<handed, complete, short>>
    BY <1>3 DEF ReaderRestart
  <2>3. 0 \in 0 .. Limit /\ Chunk \in 0 .. Chunk /\ 0 \in Nat
    OBVIOUS
  <2>4. ReaderTypeOK'
    BY <2>1, <2>2, <2>3 DEF ReaderTypeOK
  <2>5. BufferIsTheRecord'
    BY <2>1
  <2>6. QED
    BY <2>2, <2>4, <2>5
<1>4. CASE UNCHANGED journalVars
  BY <1>4 DEF journalVars, readerVars, worldVars, ReaderTypeOK
<1>5. QED
  BY <1>1, <1>2, <1>3, <1>4 DEF ReaderNext

\* The reader's state is well formed, hands on exactly the records that fit
\* and holds exactly the record in the pipe, for every limit and chunk size.
THEOREM RecordsAreCutRight == ReaderSpec => []ReaderInv
BY ReaderInvInit, ReaderInvNext, PTL DEF ReaderSpec

\* Oversized records neither hide their successors nor leak their tails, and
\* no record that fits is skipped: _consume's discarding is exact.
THEOREM ShortRecordsArrive == ReaderSpec => []ShortRecordsAreHandedOn
<1>1. ReaderInv => ShortRecordsAreHandedOn
  BY DEF ReaderInv
<1>2. QED
  BY RecordsAreCutRight, <1>1, PTL

\* _consume never keeps more than the limit of a record.
THEOREM BufferIsBounded == ReaderSpec => []ReaderTypeOK
<1>1. ReaderInv => ReaderTypeOK
  BY DEF ReaderInv
<1>2. QED
  BY RecordsAreCutRight, <1>1, PTL

-----------------------------------------------------------------------------
(* The reporter's books.                                                   *)

\* Rows that the report of a day must contain.
Timely(r) == rows[r] > 0 /\ r \notin late

\* A request has one row, filed under a day.
RowInv == \A r \in Requests : rows[r] \in {0, 1} /\ (rows[r] > 0 => filed[r] >= 0)

\* What the reporter has in hand is what the table holds for the day before.
HandInv ==
  /\ 2 * today <= now
  /\ rAt \in {"query", "publish"} => now >= ReportTime(today)
  /\ rAt # "publish" => groups = NoRows
  /\ rAt = "publish" => groups # NoRows
  /\ \A r \in Requests :
       groups[r] > 0 => groups[r] = 1 /\ rows[r] > 0 /\ filed[r] = today - 1
  /\ rAt = "publish" =>
       \A r \in Requests : filed[r] = today - 1 /\ Timely(r) => groups[r] > 0

\* It sleeps until today's report time, or has done today's report.
SleepInv ==
  rAt = "sleep" =>
    \/ wake = ReportTime(today)
    \/ /\ wake = ReportTime(today + 1)
       /\ now >= ReportTime(today)
       /\ \A r \in Requests : filed[r] = today - 1 /\ Timely(r) => Mailed(r)

\* The first mail of a day has all of that day, so a second can be dropped.
FirstMailInv ==
  \A d \in Days : reports[d] # NoRows =>
    \A r \in Requests : filed[r] = d /\ Timely(r) => reports[d][r] > 0

ReportInv ==
  /\ ReportTypeOK /\ RowInv /\ HandInv /\ SleepInv
  /\ CountedOnce /\ FirstMailInv /\ NoDayIsSkipped

-----------------------------------------------------------------------------
(* Days.                                                                   *)

\* A day has two halves.
LEMMA DayFacts ==
  ASSUME NEW n \in Nat
  PROVE  Day(n) \in Nat /\ 2 * Day(n) <= n /\ n <= 2 * Day(n) + 1
BY DEF Day

\* The clock and its days.
LEMMA ClockFacts ==
  ASSUME ReportTypeOK
  PROVE  /\ LastHalf \in Nat /\ now \in Nat /\ now <= LastHalf /\ today \in Nat /\ today <= LastHalf
         /\ Day(now) \in Days /\ 2 * Day(now) <= now /\ now <= 2 * Day(now) + 1
         /\ \A r \in Requests : filed[r] \in Int /\ rows[r] \in Nat /\ groups[r] \in Nat
<1>1. /\ LastHalf \in Nat /\ now \in Nat /\ now <= LastHalf /\ today \in Nat /\ today <= LastHalf
  BY ClockAssumption DEF ReportTypeOK, Days
<1>2. Day(now) \in Nat /\ 2 * Day(now) <= now /\ now <= 2 * Day(now) + 1
  BY <1>1, DayFacts
<1>3. \A r \in Requests : filed[r] \in Int /\ rows[r] \in Nat /\ groups[r] \in Nat
  <2>1. rows \in [Requests -> Nat] /\ groups \in [Requests -> Nat]
    BY DEF ReportTypeOK, Counts
  <2>2. filed \in [Requests -> Days \cup {-1, LastHalf + 1}]
    BY DEF ReportTypeOK
  <2>3. Days \cup {-1, LastHalf + 1} \subseteq Int
    BY <1>1 DEF Days
  <2> QED
    BY <2>1, <2>2, <2>3
<1> QED
  BY <1>1, <1>2, <1>3 DEF Days

-----------------------------------------------------------------------------
(* Usage comes in.                                                         *)

\* A call of the model has no row yet.
LEMMA CallKeeps ==
  ASSUME ReportInv, NEW x \in Requests, Call(x)
  PROVE  ReportInv'
<1>1. /\ filed[x] = -1 /\ \A r \in Requests : r # x => filed'[r] = filed[r]
      /\ filed' \in [Requests -> Days \cup {-1, LastHalf + 1}] /\ filed'[x] >= 0
  <2>1. PICK day \in {Day(now), Day(now) + 1} : filed' = [filed EXCEPT ![x] = day]
    BY DEF Call
  <2>2. filed \in [Requests -> Days \cup {-1, LastHalf + 1}]
    BY DEF ReportInv, ReportTypeOK
  <2>3. day \in Days \cup {LastHalf + 1} /\ day >= 0
    BY ClockFacts DEF ReportInv, Days
  <2> QED
    BY <2>1, <2>2, <2>3 DEF Call
<1>2. UNCHANGED <<now, rows, late, rAt, today, groups, wake, reports, excused>>
  BY DEF Call, reporterVars
<1>3. rows[x] = 0 /\ groups[x] = 0 /\ \A d \in Days : reports[d][x] = 0
  <2>1. rows[x] = 0
    BY <1>1, ClockFacts DEF ReportInv, RowInv
  <2>2. groups[x] = 0
    BY <2>1, ClockFacts DEF ReportInv, HandInv
  <2>3. ASSUME NEW d \in Days PROVE reports[d][x] = 0
    <3>1. reports[d][x] \in Nat
      BY DEF ReportInv, ReportTypeOK, Counts
    <3>2. ~(reports[d][x] > 0)
      BY <1>1, ClockFacts DEF ReportInv, CountedOnce, Days
    <3> QED
      BY <3>1, <3>2
  <2> QED
    BY <2>1, <2>2, <2>3
<1>4. ReportTypeOK' /\ RowInv'
  BY <1>1, <1>2, <1>3 DEF ReportInv, ReportTypeOK, RowInv
<1>5. HandInv'
  BY <1>1, <1>2, <1>3 DEF ReportInv, HandInv, Timely, NoRows
<1>6. \A r \in Requests : Timely(r)' => r # x /\ Timely(r) /\ filed'[r] = filed[r]
  BY <1>1, <1>2, <1>3 DEF Timely
<1>7. \A r \in Requests : r # x => (Mailed(r)' <=> Mailed(r))
  BY <1>1, <1>2 DEF Mailed
<1>8. SleepInv'
  BY <1>2, <1>6, <1>7 DEF ReportInv, SleepInv
<1>9. CountedOnce'
  BY <1>1, <1>2, <1>3 DEF ReportInv, CountedOnce
<1>10. FirstMailInv'
  BY <1>2, <1>6 DEF ReportInv, FirstMailInv, NoRows
<1>11. NoDayIsSkipped'
  BY <1>2, <1>6, <1>7 DEF ReportInv, NoDayIsSkipped, Timely
<1> QED
  BY <1>4, <1>5, <1>8, <1>9, <1>10, <1>11 DEF ReportInv

\* A row that is new after the report of its day is late.
LEMMA RecordKeeps ==
  ASSUME ReportInv, NEW x \in Requests, Record(x)
  PROVE  ReportInv'
<1>1. /\ filed[x] >= 0 /\ rows' = [rows EXCEPT ![x] = 1] /\ rows \in Counts
      /\ late' = IF rows[x] = 0 /\ now >= ReportTime(filed[x] + 1) THEN late \cup {x} ELSE late
      /\ UNCHANGED <<now, filed, rAt, today, groups, wake, reports, excused>>
  BY DEF Record, reporterVars, ReportInv, ReportTypeOK
<1>2. /\ rows' \in Counts /\ rows'[x] = 1 /\ \A r \in Requests : r # x => rows'[r] = rows[r]
      /\ late' \subseteq Requests
  BY <1>1 DEF Counts, ReportInv, ReportTypeOK
<1>3. \A r \in Requests : Timely(r)' => Timely(r) \/ (r = x /\ now < ReportTime(filed[x] + 1))
  <2>1. \A r \in Requests : r # x => (Timely(r)' <=> Timely(r))
    BY <1>1, <1>2 DEF Timely
  <2>2. Timely(x)' => Timely(x) \/ now < ReportTime(filed[x] + 1)
    BY <1>1, ClockFacts DEF Timely, ReportInv, ReportTime
  <2> QED
    BY <2>1, <2>2
<1>4. ReportTypeOK' /\ RowInv'
  BY <1>1, <1>2 DEF ReportInv, ReportTypeOK, RowInv
<1>5. HandInv'
  <2>1. ASSUME rAt = "publish", NEW r \in Requests, filed[r] = today - 1, Timely(r)'
        PROVE  groups[r] > 0
    <3>1. now >= ReportTime(today)
      BY <2>1 DEF ReportInv, HandInv
    <3>2. Timely(r)
      BY <1>3, <2>1, <3>1, ClockFacts DEF ReportInv, ReportTime
    <3> QED
      BY <2>1, <3>2 DEF ReportInv, HandInv
  <2>2. \A r \in Requests : rows[r] > 0 => rows'[r] > 0
    BY <1>2
  <2> QED
    BY <1>1, <2>1, <2>2 DEF ReportInv, HandInv
<1>6. \A r \in Requests : Mailed(r)' <=> Mailed(r)
  BY <1>1 DEF Mailed
<1>7. SleepInv'
  <2>1. ASSUME rAt = "sleep", now >= ReportTime(today), NEW r \in Requests, filed[r] = today - 1,
               Timely(r)'
        PROVE  Timely(r)
    BY <1>3, <2>1, ClockFacts DEF ReportInv, ReportTime
  <2> QED
    BY <1>1, <1>6, <2>1 DEF ReportInv, SleepInv
<1>8. CountedOnce'
  BY <1>1 DEF ReportInv, CountedOnce
<1>9. FirstMailInv'
  <2> SUFFICES ASSUME NEW d \in Days, reports[d] # NoRows, NEW r \in Requests, filed[r] = d, Timely(r)'
               PROVE  reports[d][r] > 0
    BY <1>1 DEF FirstMailInv, NoRows
  <2>1. PICK y \in Requests : reports[d][y] # 0
    <3>1. reports[d] \in [Requests -> Nat]
      BY DEF ReportInv, ReportTypeOK, Counts
    <3> QED
      BY <3>1 DEF NoRows
  <2>2. reports[d][y] > 0
    BY <2>1 DEF ReportInv, ReportTypeOK, Counts
  <2>3. now >= ReportTime(d + 1)
    BY <2>2 DEF ReportInv, CountedOnce
  <2>4. Timely(r)
    BY <1>3, <2>3, ClockFacts DEF ReportInv, ReportTime, Days
  <2> QED
    BY <2>4 DEF ReportInv, FirstMailInv
<1>10. NoDayIsSkipped'
  <2> SUFFICES ASSUME NEW r \in Requests, Timely(r)', filed[r] \notin excused,
                      now > ReportTime(filed[r] + 1)
               PROVE  Mailed(r)
    BY <1>1, <1>6 DEF NoDayIsSkipped, Timely
  <2>1. Timely(r)
    BY <1>3, ClockFacts DEF ReportInv, ReportTime
  <2> QED
    BY <2>1 DEF ReportInv, NoDayIsSkipped, Timely
<1> QED
  BY <1>4, <1>5, <1>7, <1>8, <1>9, <1>10 DEF ReportInv

-----------------------------------------------------------------------------
(* The reporter.                                                           *)

\* A reporter that is not at work has nothing in hand.
LEMMA IdleKeeps ==
  ASSUME ReportInv, UNCHANGED <<now, usageVars, excused>>,
         reports' \in [Days -> Counts], CountedOnce', FirstMailInv', NoDayIsSkipped',
         rAt' \in {"off", "check"}, groups' = NoRows, wake' \in Nat,
         today' \in Days, 2 * today' <= now
  PROVE  ReportInv'
<1>1. now' = now /\ filed' = filed /\ rows' = rows /\ late' = late /\ excused' = excused
  BY DEF usageVars
<1>2. NoRows \in Counts /\ \A r \in Requests : NoRows[r] = 0
  BY DEF NoRows, Counts
<1>3. ReportTypeOK'
  BY <1>1, <1>2 DEF ReportInv, ReportTypeOK
<1>4. RowInv'
  BY <1>1 DEF ReportInv, RowInv
<1>5. HandInv'
  BY <1>1, <1>2 DEF HandInv, NoRows
<1>6. SleepInv'
  BY DEF SleepInv
<1> QED
  BY <1>3, <1>4, <1>5, <1>6 DEF ReportInv

\* A mail holds the rows in hand, or the day has one that holds them already.
LEMMA KeepMails ==
  ASSUME ReportInv, rAt = "publish", Keep, UNCHANGED <<now, usageVars, excused>>
  PROVE  /\ reports' \in [Days -> Counts] /\ CountedOnce' /\ FirstMailInv' /\ NoDayIsSkipped'
         /\ \A r \in Requests : filed[r] = today - 1 /\ Timely(r) => Mailed(r)'
<1>1. now' = now /\ filed' = filed /\ rows' = rows /\ late' = late /\ excused' = excused
  BY DEF usageVars
<1>2. /\ reports \in [Days -> Counts] /\ groups \in Counts
      /\ CountedOnce /\ FirstMailInv /\ NoDayIsSkipped
      /\ now >= ReportTime(today) /\ today \in Nat
      /\ groups # NoRows
      /\ \A r \in Requests : groups[r] > 0 => groups[r] = 1 /\ rows[r] > 0 /\ filed[r] = today - 1
      /\ \A r \in Requests : filed[r] = today - 1 /\ Timely(r) => groups[r] > 0
  BY ClockFacts DEF ReportInv, ReportTypeOK, HandInv
<1>3. \A r \in Requests : groups[r] \in Nat /\ \A d \in Days : reports[d][r] \in Nat
  BY <1>2 DEF Counts
<1>4. PICK y \in Requests : groups[y] > 0
  <2>1. PICK y \in Requests : groups[y] # 0
    BY <1>2 DEF NoRows, Counts
  <2> QED
    BY <1>3, <2>1
<1>5. today - 1 \in Days /\ (today - 1) + 1 = today
  <2>1. filed[y] >= 0 /\ filed[y] = today - 1
    BY <1>2, <1>4 DEF ReportInv, RowInv
  <2> QED
    BY <2>1, ClockFacts DEF ReportInv, Days
<1> DEFINE mailed == today - 1
<1>6. CASE reports[mailed] = NoRows
  <2>1. /\ reports' = [reports EXCEPT ![mailed] = groups] /\ reports' \in [Days -> Counts]
        /\ reports'[mailed] = groups /\ \A d \in Days : d # mailed => reports'[d] = reports[d]
    BY <1>2, <1>5, <1>6 DEF Keep
  <2>2. CountedOnce'
    <3> SUFFICES ASSUME NEW d \in Days, NEW r \in Requests, reports'[d][r] > 0
                 PROVE  /\ reports'[d][r] = 1 /\ now >= ReportTime(d + 1) /\ d = filed[r]
                        /\ \A e \in Days \ {d} : reports'[e][r] = 0
      BY <1>1 DEF CountedOnce, ReportTime
    <3>1. CASE d = mailed
      <4>1. groups[r] = 1 /\ filed[r] = mailed
        BY <1>2, <2>1, <3>1
      <4>2. ASSUME NEW e \in Days \ {d} PROVE reports'[e][r] = 0
        <5>1. reports'[e] = reports[e] /\ reports[e][r] \in Nat
          BY <1>3, <2>1, <3>1, <4>2
        <5>2. ~(reports[e][r] > 0)
          BY <1>2, <3>1, <4>1, <4>2 DEF CountedOnce
        <5> QED
          BY <5>1, <5>2
      <4> QED
        BY <1>2, <1>5, <2>1, <3>1, <4>1, <4>2
    <3>2. CASE d # mailed
      <4>1. /\ reports[d][r] = 1 /\ now >= ReportTime(d + 1) /\ d = filed[r]
            /\ \A e \in Days \ {d} : reports[e][r] = 0
        BY <1>2, <2>1, <3>2 DEF CountedOnce
      <4>2. groups[r] = 0
        BY <1>2, <1>3, <3>2, <4>1
      <4> QED
        BY <2>1, <3>2, <4>1, <4>2
    <3> QED
      BY <3>1, <3>2
  <2>3. FirstMailInv'
    BY <1>1, <1>2, <2>1 DEF FirstMailInv, Timely, NoRows
  <2>4. \A r \in Requests : Mailed(r) => Mailed(r)'
    <3> SUFFICES ASSUME NEW r \in Requests, Mailed(r) PROVE Mailed(r)'
      OBVIOUS
    <3>1. filed[r] \in Days /\ reports[filed[r]][r] > 0
      BY DEF Mailed
    <3>2. filed[r] # mailed
      BY <1>6, <3>1 DEF NoRows
    <3> QED
      BY <1>1, <2>1, <3>1, <3>2 DEF Mailed
  <2>5. NoDayIsSkipped'
    BY <1>1, <1>2, <2>4 DEF NoDayIsSkipped, ReportTime
  <2>6. \A r \in Requests : filed[r] = today - 1 /\ Timely(r) => Mailed(r)'
    BY <1>1, <1>2, <1>5, <2>1 DEF Mailed
  <2> QED
    BY <2>1, <2>2, <2>3, <2>5, <2>6
<1>7. CASE reports[mailed] # NoRows
  <2>1. reports' = reports
    BY <1>7 DEF Keep
  <2>2. CountedOnce' /\ FirstMailInv' /\ NoDayIsSkipped'
    BY <1>1, <1>2, <2>1 DEF CountedOnce, FirstMailInv, NoDayIsSkipped, Timely, Mailed, NoRows
  <2>3. \A r \in Requests : filed[r] = today - 1 /\ Timely(r) => Mailed(r)'
    BY <1>1, <1>2, <1>5, <1>7, <2>1 DEF FirstMailInv, Mailed
  <2> QED
    BY <1>2, <2>1, <2>2, <2>3
<1> QED
  BY <1>6, <1>7

\* The reporter looks at the clock, at the table, mails and sleeps.
LEMMA ReporterKeeps ==
  ASSUME ReportInv, ReporterStep
  PROVE  ReportInv'
<1>1. UNCHANGED <<now, usageVars, excused>>
  BY DEF ReporterStep, CheckTime, Query, PublishReport, WakeUp
<1>2. now' = now /\ filed' = filed /\ rows' = rows /\ late' = late /\ excused' = excused
  BY <1>1 DEF usageVars
<1>3. /\ now \in Nat /\ today \in Nat /\ 2 * today <= now /\ today \in Days
      /\ Day(now) \in Days /\ Day(now) \in Nat /\ 2 * Day(now) <= now /\ now <= 2 * Day(now) + 1
  BY ClockFacts DEF ReportInv, HandInv, ReportTypeOK, Days
<1>4. NoRows \in Counts /\ \A r \in Requests : NoRows[r] = 0
  BY DEF NoRows, Counts
<1>5. /\ reports' = reports => reports' \in [Days -> Counts] /\ CountedOnce' /\ FirstMailInv'
                               /\ NoDayIsSkipped'
      /\ RowInv'
  BY <1>2 DEF ReportInv, ReportTypeOK, CountedOnce, FirstMailInv, NoDayIsSkipped, Timely, Mailed,
              NoRows, RowInv
<1>6. CASE CheckTime
  <2>1. /\ rAt = "check" /\ today' = Day(now) /\ reports' = reports /\ groups' = NoRows
        /\ \/ now >= ReportTime(Day(now)) /\ rAt' = "query" /\ wake' = wake
           \/ now < ReportTime(Day(now)) /\ rAt' = "sleep" /\ wake' = ReportTime(Day(now))
    BY <1>6, <1>3 DEF CheckTime, Rest, ReportInv, HandInv, ReportTime
  <2>2. ReportTypeOK'
    BY <1>2, <1>3, <1>4, <2>1 DEF ReportInv, ReportTypeOK, ReportTime
  <2>3. HandInv'
    BY <1>2, <1>3, <1>4, <2>1 DEF HandInv, ReportTime, NoRows
  <2>4. SleepInv'
    BY <2>1 DEF SleepInv, ReportTime
  <2> QED
    BY <1>5, <2>1, <2>2, <2>3, <2>4 DEF ReportInv
<1>7. CASE Query
  <2>1. /\ rAt = "query" /\ reports' = reports /\ today' = today
        /\ groups' = [r \in Requests |-> IF filed[r] = today - 1 THEN rows[r] ELSE 0]
        /\ \/ groups' = NoRows /\ rAt' = "sleep" /\ wake' = ReportTime(today + 1)
           \/ groups' # NoRows /\ rAt' = "publish" /\ wake' = wake
    BY <1>7 DEF Query, Rest
  <2>2. /\ \A r \in Requests : rows[r] \in {0, 1} /\ rows[r] \in Nat
        /\ now >= ReportTime(today)
    BY <2>1 DEF ReportInv, RowInv, HandInv
  <2>3. groups' \in Counts
    BY <2>1, <2>2 DEF Counts
  <2>4. ReportTypeOK'
    BY <1>2, <1>3, <2>1, <2>3 DEF ReportInv, ReportTypeOK, ReportTime
  <2>5. \A r \in Requests : groups'[r] > 0 => groups'[r] = 1 /\ rows[r] > 0 /\ filed[r] = today - 1
    BY <2>1, <2>2
  <2>6. \A r \in Requests : filed[r] = today - 1 /\ Timely(r) => groups'[r] > 0
    BY <2>1, <2>2 DEF Timely
  <2>7. HandInv'
    BY <1>2, <1>3, <2>1, <2>2, <2>5, <2>6 DEF HandInv, Timely, ReportTime, NoRows
  <2>8. SleepInv'
    <3>1. CASE rAt' = "sleep"
      <4>1. groups' = NoRows /\ wake' = ReportTime(today + 1)
        BY <2>1, <3>1
      <4>2. \A r \in Requests : ~(filed[r] = today - 1 /\ Timely(r))
        BY <1>4, <2>6, <4>1
      <4> QED
        BY <1>2, <2>1, <2>2, <4>1, <4>2 DEF SleepInv, Timely, ReportTime
    <3> QED
      BY <3>1 DEF SleepInv
  <2> QED
    BY <1>5, <2>1, <2>4, <2>7, <2>8 DEF ReportInv
<1>8. CASE PublishReport
  <2>1. /\ rAt = "publish" /\ Keep /\ groups' = NoRows /\ today' = today
        /\ rAt' = "sleep" /\ wake' = ReportTime(today + 1)
    BY <1>8 DEF PublishReport, Rest
  <2>2. /\ reports' \in [Days -> Counts] /\ CountedOnce' /\ FirstMailInv' /\ NoDayIsSkipped'
        /\ \A r \in Requests : filed[r] = today - 1 /\ Timely(r) => Mailed(r)'
    BY <1>1, <2>1, KeepMails
  <2>3. now >= ReportTime(today)
    BY <2>1 DEF ReportInv, HandInv
  <2>4. ReportTypeOK'
    BY <1>2, <1>3, <1>4, <2>1, <2>2 DEF ReportInv, ReportTypeOK, ReportTime
  <2>5. HandInv'
    BY <1>2, <1>3, <1>4, <2>1 DEF HandInv
  <2>6. SleepInv'
    BY <1>2, <2>1, <2>2, <2>3 DEF SleepInv, Timely, ReportTime
  <2> QED
    BY <1>5, <2>2, <2>4, <2>5, <2>6 DEF ReportInv
<1>9. CASE WakeUp
  <2>1. rAt' = "check" /\ reports' = reports /\ today' = today /\ groups' = NoRows /\ wake' = wake
    BY <1>9 DEF WakeUp, ReportInv, HandInv
  <2>2. wake' \in Nat
    BY <2>1 DEF ReportInv, ReportTypeOK
  <2> QED
    BY <1>1, <1>3, <1>5, <2>1, <2>2, IdleKeeps
<1> QED
  BY <1>6, <1>7, <1>8, <1>9 DEF ReporterStep

\* The half of a report goes by: the reporter is at rest and has done it, or
\* the day is excused.
LEMMA PassHalfKeeps ==
  ASSUME ReportInv, PassHalf
  PROVE  ReportInv'
<1>1. /\ now < LastHalf /\ now' = now + 1
      /\ excused' = IF now = ReportTime(Day(now)) /\ ~Settled
                    THEN excused \cup {Day(now) - 1} ELSE excused
      /\ UNCHANGED <<filed, rows, late, rAt, today, groups, wake, reports>>
  BY DEF PassHalf, usageVars, reporterVars
<1>2. /\ now \in Nat /\ LastHalf \in Nat /\ today \in Nat /\ 2 * today <= now
      /\ Day(now) \in Days /\ Day(now) \in Nat /\ 2 * Day(now) <= now /\ now <= 2 * Day(now) + 1
      /\ \A r \in Requests : filed[r] \in Int
  BY ClockFacts DEF ReportInv, HandInv, Days
<1>3. ReportTypeOK'
  <2>1. now' \in 0 .. LastHalf
    BY <1>1, <1>2
  <2>2. excused' \subseteq Days \cup {-1}
    <3>1. Day(now) - 1 \in Days \cup {-1}
      BY <1>2 DEF Days
    <3> QED
      BY <1>1, <3>1 DEF ReportInv, ReportTypeOK
  <2> QED
    BY <1>1, <2>1, <2>2 DEF ReportInv, ReportTypeOK
<1>4. RowInv'
  BY <1>1 DEF ReportInv, RowInv
<1>5. HandInv'
  BY <1>1, <1>2 DEF ReportInv, HandInv, ReportTime, Timely
<1>6. SleepInv'
  BY <1>1, <1>2 DEF ReportInv, SleepInv, ReportTime, Timely, Mailed
<1>7. CountedOnce'
  <2>1. \A d \in Days : now >= ReportTime(d + 1) => now' >= ReportTime(d + 1)
    BY <1>1, <1>2 DEF ReportTime, Days
  <2> QED
    BY <1>1, <2>1 DEF ReportInv, CountedOnce
<1>8. FirstMailInv'
  BY <1>1 DEF ReportInv, FirstMailInv, Timely, NoRows
<1>9. NoDayIsSkipped'
  <2> SUFFICES ASSUME NEW r \in Requests, Timely(r), filed[r] \notin excused',
                      now' > ReportTime(filed[r] + 1)
               PROVE  Mailed(r)
    BY <1>1 DEF NoDayIsSkipped, Timely, Mailed
  <2>1. filed[r] \notin excused /\ filed[r] >= 0
    BY <1>1 DEF ReportInv, RowInv, Timely
  <2>2. CASE now > ReportTime(filed[r] + 1)
    BY <2>1, <2>2 DEF ReportInv, NoDayIsSkipped, Timely
  <2>3. CASE ~(now > ReportTime(filed[r] + 1))
    <3>1. now = ReportTime(filed[r] + 1) /\ filed[r] + 1 = Day(now)
      BY <1>1, <1>2, <2>3 DEF ReportTime
    <3>2. Settled
      <4>1. now = ReportTime(Day(now)) /\ filed[r] = Day(now) - 1
        BY <1>2, <3>1
      <4> QED
        BY <1>1, <4>1
    <3>3. /\ wake = ReportTime(today + 1)
          /\ \A x \in Requests : filed[x] = today - 1 /\ Timely(x) => Mailed(x)
      <4>1. rAt = "sleep" /\ wake > now
        BY <3>2 DEF Settled
      <4>2. wake # ReportTime(today)
        BY <1>2, <3>1, <4>1 DEF ReportTime
      <4> QED
        BY <4>1, <4>2 DEF ReportInv, SleepInv
    <3>4. today = Day(now)
      BY <1>2, <3>1, <3>2, <3>3 DEF Settled, ReportTime
    <3>5. filed[r] = today - 1
      BY <1>2, <3>1, <3>4
    <3> QED
      BY <3>3, <3>5
  <2> QED
    BY <2>2, <2>3
<1> QED
  BY <1>3, <1>4, <1>5, <1>6, <1>7, <1>8, <1>9 DEF ReportInv

-----------------------------------------------------------------------------
(* The process.                                                            *)

\* A reporter that rests has nothing in hand, and so has a process that is
\* down; one that was cancelled may still have a thread at work.
ProcessInv ==
  /\ life \in {"up", "closing", "down"}
  /\ stop \in BOOLEAN
  /\ worker \in [Workers -> {"running", "resting", "done"}]
  /\ left \in [{"faults", "starts"} -> Nat]
  /\ stop <=> life = "closing"
  /\ worker["reporter"] = "resting" => groups = NoRows
  /\ life = "down" => worker["reporter"] = "done" /\ groups = NoRows

ServiceInv == ReportInv /\ ProcessInv /\ ReaderInv

\* Whatever the process does, the journal is read by the reader's own steps.
LEMMA HostsReader == [Next]_vars => [ReaderNext]_journalVars
<1> SUFFICES ASSUME [Next]_vars PROVE [ReaderNext]_journalVars
  OBVIOUS
<1>1. ReaderRestart => ReaderNext
  BY DEF ReaderNext
<1>2. UNCHANGED vars => UNCHANGED journalVars
  BY DEF vars
<1>3. ASSUME NEW w \in Workers, SeesStop(w) \/ Cancel(w) PROVE [ReaderNext]_journalVars
  BY <1>1, <1>3 DEF SeesStop, Cancel
<1>4. ReaderStep \/ Kill => ReaderNext
  BY <1>1 DEF ReaderStep, Kill
<1>5. \/ UsageStep \/ TimePasses \/ ReporterWorks \/ ReporterRaises
      \/ Resume \/ Terminate \/ ThreadEnds \/ Stopped \/ Start
      => UNCHANGED journalVars
  BY DEF UsageStep, TimePasses, ReporterWorks, ReporterRaises, Resume, Terminate, ThreadEnds,
         Stopped, Start
<1> QED
  BY <1>2, <1>3, <1>4, <1>5 DEF Next

\* What the steps that leave usage and the reports alone have in common.
LEMMA ReportsStay ==
  ASSUME ReportInv, UNCHANGED <<now, usageVars, reports, excused>>
  PROVE  reports' \in [Days -> Counts] /\ CountedOnce' /\ FirstMailInv' /\ NoDayIsSkipped'
BY DEF usageVars, ReportInv, ReportTypeOK, CountedOnce, FirstMailInv, NoDayIsSkipped, Timely,
       Mailed, NoRows

\* A reporter that ends or is started again has nothing in hand.
LEMMA NoReporterKeeps ==
  ASSUME ReportInv, NoReporter, UNCHANGED <<now, usageVars, excused>>,
         UNCHANGED reports \/ (rAt = "publish" /\ Keep)
  PROVE  ReportInv'
<1>1. reports' \in [Days -> Counts] /\ CountedOnce' /\ FirstMailInv' /\ NoDayIsSkipped'
  BY KeepMails, ReportsStay
<1>2. rAt' = "off" /\ groups' = NoRows /\ wake' = 0 /\ today' = 0
  BY DEF NoReporter
<1>3. 0 \in Days /\ 2 * 0 <= now
  BY ClockFacts DEF ReportInv, Days
<1> QED
  BY <1>1, <1>2, <1>3, IdleKeeps

\* A reporter that starts works from its beginning.
LEMMA StartKeeps ==
  ASSUME ReportInv, groups = NoRows, rAt' = "check",
         UNCHANGED <<now, usageVars, today, groups, wake, reports, excused>>
  PROVE  ReportInv'
<1>1. reports' \in [Days -> Counts] /\ CountedOnce' /\ FirstMailInv' /\ NoDayIsSkipped'
  BY ReportsStay
<1>2. today' \in Days /\ wake' \in Nat /\ 2 * today' <= now
  BY DEF ReportInv, ReportTypeOK, HandInv
<1> QED
  BY <1>1, <1>2, IdleKeeps

\* The reporter's books are kept by every step of the process.
LEMMA ReportStep ==
  ASSUME ReportInv, ProcessInv, [Next]_vars
  PROVE  ReportInv'
<1>1. ASSUME UNCHANGED reportVars PROVE ReportInv'
  <2>1. /\ UNCHANGED <<now, usageVars, reports, excused>>
        /\ UNCHANGED <<now, filed, rows, late, rAt, today, groups, wake, reports, excused>>
    BY <1>1 DEF reportVars, usageVars, reporterVars
  <2>2. CountedOnce' /\ FirstMailInv' /\ NoDayIsSkipped'
    BY <2>1, ReportsStay
  <2>3. ReportTypeOK' /\ RowInv' /\ HandInv' /\ SleepInv'
    BY <2>1 DEF ReportInv, ReportTypeOK, RowInv, HandInv, SleepInv, Timely, Mailed, NoRows
  <2> QED
    BY <2>2, <2>3 DEF ReportInv
<1>2. CASE UsageStep
  BY <1>2, CallKeeps, RecordKeeps DEF UsageStep
<1>3. CASE TimePasses
  BY <1>3, PassHalfKeeps DEF TimePasses
<1>4. CASE ReporterWorks
  BY <1>4, ReporterKeeps DEF ReporterWorks
<1>5. CASE ReporterRaises
  BY <1>5, NoReporterKeeps DEF ReporterRaises
<1>6. CASE Resume
  <2>1. groups = NoRows
    BY <1>6 DEF Resume, ProcessInv
  <2> QED
    BY <1>6, <2>1, StartKeeps DEF Resume
<1>7. CASE Start
  <2>1. groups = NoRows
    BY <1>7 DEF Start, ProcessInv
  <2> QED
    BY <1>7, <2>1, StartKeeps DEF Start
<1>8. CASE Kill
  BY <1>8, NoReporterKeeps DEF Kill
<1>9. ASSUME NEW w \in Workers, SeesStop(w) PROVE ReportInv'
  <2>1. CASE w = "reporter"
    BY <1>9, <2>1, NoReporterKeeps DEF SeesStop
  <2>2. CASE w # "reporter"
    BY <1>1, <1>9, <2>2 DEF SeesStop, reportVars
  <2> QED
    BY <2>1, <2>2
<1>10. ASSUME NEW w \in Workers, Cancel(w) PROVE ReportInv'
  <2>1. CASE w = "reporter" /\ ~InThread
    BY <1>10, <2>1, NoReporterKeeps DEF Cancel
  <2>2. CASE w = "reader" \/ InThread
    <3>1. UNCHANGED <<now, usageVars, reporterVars, reports, excused>>
      BY <1>10, <2>2 DEF Cancel, Workers
    <3> QED
      BY <1>1, <3>1 DEF reportVars
  <2> QED
    BY <2>1, <2>2 DEF Workers
<1>12. CASE ThreadEnds
  BY <1>12, NoReporterKeeps DEF ThreadEnds
<1>11. CASE ReaderStep \/ Terminate \/ Stopped \/ UNCHANGED vars
  BY <1>1, <1>11 DEF ReaderStep, Terminate, Stopped, vars
<1> QED
  BY <1>2, <1>3, <1>4, <1>5, <1>6, <1>7, <1>8, <1>9, <1>10, <1>11, <1>12 DEF Next

\* The bounds are spent one at a time.
LEMMA SpendType ==
  ASSUME left \in [{"faults", "starts"} -> Nat], NEW what \in {"faults", "starts"}, Spend(what)
  PROVE  left' \in [{"faults", "starts"} -> Nat]
<1>1. left' = [left EXCEPT ![what] = @ - 1] /\ left[what] > 0 /\ left[what] \in Nat
  BY DEF Spend
<1>2. left[what] - 1 \in Nat
  BY <1>1
<1> QED
  BY <1>1, <1>2

\* Workers start and end with the process.
LEMMA ProcessStep ==
  ASSUME ReportInv, ProcessInv, [Next]_vars
  PROVE  ProcessInv'
<1> USE DEF ProcessInv, Workers
<1>1. CASE UsageStep \/ TimePasses
  BY <1>1 DEF UsageStep, TimePasses, Call, Record, PassHalf, processVars, reporterVars, NoRows
<1>2. CASE ReporterWorks
  <2>1. worker["reporter"] = "running" /\ UNCHANGED <<life, stop, worker, left>>
    BY <1>2 DEF ReporterWorks, processVars
  <2> QED
    BY <2>1
<1>3. CASE ReaderStep
  BY <1>3 DEF ReaderStep, reportVars, reporterVars, processVars, NoRows
<1>4. CASE ReporterRaises
  <2>1. /\ worker' = [worker EXCEPT !["reporter"] = "resting"] /\ groups' = NoRows
        /\ life' = life /\ stop' = stop /\ Spend("faults") /\ worker["reporter"] = "running"
    BY <1>4 DEF ReporterRaises, Become, NoReporter
  <2>2. left' \in [{"faults", "starts"} -> Nat]
    BY <2>1, SpendType
  <2> QED
    BY <2>1, <2>2 DEF NoRows
<1>5. CASE Resume
  BY <1>5 DEF Resume, Become, NoRows
<1>6. CASE Terminate
  BY <1>6 DEF Terminate, reportVars, reporterVars, NoRows
<1>7. CASE Stopped
  <2>1. groups = NoRows
    BY <1>7 DEF Stopped, ReportInv, HandInv
  <2> QED
    BY <1>7, <2>1 DEF Stopped, reportVars, reporterVars, NoRows
<1>8. CASE Kill
  BY <1>8 DEF Kill, NoReporter, NoRows
<1>9. CASE Start
  <2>1. /\ life' = "up" /\ worker' = [w \in Workers |-> "running"] /\ stop' = stop
        /\ life = "down" /\ Spend("starts")
    BY <1>9 DEF Start
  <2>2. left' \in [{"faults", "starts"} -> Nat]
    BY <2>1, SpendType
  <2> QED
    BY <2>1, <2>2
<1>10. ASSUME NEW w \in Workers, SeesStop(w) \/ Cancel(w) PROVE ProcessInv'
  <2>1. worker' = [worker EXCEPT ![w] = "done"] /\ UNCHANGED <<life, stop, left>>
    BY <1>10 DEF SeesStop, Cancel, Become
  <2>2. groups' = groups \/ groups' = NoRows
    BY <1>10 DEF SeesStop, Cancel, NoReporter, reporterVars
  <2> QED
    BY <2>1, <2>2 DEF NoRows
<1>12. CASE ThreadEnds
  <2>1. UNCHANGED <<life, stop, worker, left>> /\ groups' = NoRows
    BY <1>12 DEF ThreadEnds, NoReporter, processVars
  <2> QED
    BY <2>1 DEF NoRows
<1>11. CASE UNCHANGED vars
  BY <1>11 DEF vars, reportVars, reporterVars, processVars, NoRows
<1> QED
  BY <1>1, <1>2, <1>3, <1>4, <1>5, <1>6, <1>7, <1>8, <1>9, <1>10, <1>11, <1>12 DEF Next

-----------------------------------------------------------------------------
(* The theorems.                                                           *)

\* The process starts before the first report with an empty table.
LEMMA InitService == Init => ServiceInv
<1> SUFFICES ASSUME Init PROVE ServiceInv
  OBVIOUS
<1>1. /\ now = 0 /\ filed = [r \in Requests |-> -1] /\ rows = NoRows /\ late = {}
      /\ rAt = "check" /\ today = 0 /\ groups = NoRows /\ wake = 0
      /\ reports = [d \in Days |-> NoRows] /\ excused = {}
  BY DEF Init, ReportInit
<1>2. NoRows \in Counts /\ \A r \in Requests : NoRows[r] = 0
  BY DEF NoRows, Counts
<1>3. LastHalf \in Nat /\ 0 \in Days
  BY ClockAssumption DEF Days
<1>4. ReportTypeOK
  BY <1>1, <1>2, <1>3 DEF ReportTypeOK
<1>5. RowInv /\ HandInv /\ SleepInv
  BY <1>1, <1>2 DEF RowInv, HandInv, SleepInv
<1>6. CountedOnce /\ FirstMailInv /\ NoDayIsSkipped
  BY <1>1, <1>2 DEF CountedOnce, FirstMailInv, NoDayIsSkipped
<1>7. ProcessInv
  <2>1. /\ life = "up" /\ stop = FALSE /\ worker = [w \in Workers |-> "running"]
        /\ left = [faults |-> MaxFaults, starts |-> MaxStarts]
    BY DEF Init
  <2>2. left \in [{"faults", "starts"} -> Nat]
    BY <2>1, FaultsAssumption
  <2>3. worker \in [Workers -> {"running", "resting", "done"}] /\ worker["reporter"] = "running"
    BY <2>1 DEF Workers
  <2> QED
    BY <2>1, <2>2, <2>3 DEF ProcessInv
<1>8. ReaderInv
  BY ReaderInvInit DEF Init
<1> QED
  BY <1>4, <1>5, <1>6, <1>7, <1>8 DEF ServiceInv, ReportInv

\* Every step of the service keeps the invariant.
LEMMA ServiceStep == ServiceInv /\ [Next]_vars => ServiceInv'
BY ReportStep, ProcessStep, HostsReader, ReaderInvNext DEF ServiceInv

\* The service keeps its invariant for any usage, any bounds, and any order of
\* failures, shutdowns, kills and restarts.
THEOREM ServiceInvariant == Spec => []ServiceInv
<1> QED
  BY InitService, ServiceStep, PTL DEF Spec

\* The table of usage and the reports agree: every call of the model is mailed
\* at most once, in the report of its day and after its end.
THEOREM UsageIsCountedOnce == Spec => []UsageBooks
<1>1. ServiceInv => UsageBooks
  BY DEF ServiceInv, ReportInv, ProcessInv, ReaderInv, UsageBooks, TypeOK
<1> QED
  BY <1>1, ServiceInvariant, PTL

\* Usage stored by the report time is in its day's mail, unless the reporter
\* never came to rest in the half day in which the mail was due.
THEOREM ReportsSkipNoDay == Spec => []NoDayIsSkipped
<1>1. ServiceInv => NoDayIsSkipped
  BY DEF ServiceInv, ReportInv
<1> QED
  BY <1>1, ServiceInvariant, PTL

\* The service implements the reader's specification: stopping, killing and
\* restarting it are restarts of the reader.
THEOREM ServiceHostsReader == Spec => ReaderSpec
<1>1. Init => ReaderInit
  BY DEF Init
<1> QED
  BY <1>1, HostsReader, PTL DEF Spec, ReaderSpec

\* The records that fit are handed on, whatever happens to the process.
THEOREM HostedRecordsArrive == Spec => []ShortRecordsAreHandedOn
BY ServiceHostsReader, ShortRecordsArrive, PTL

-----------------------------------------------------------------------------
(* The journal monitor, for any connections, threshold and window.        *)

\* A set of numbers that is not empty has a least one, and Min returns it.
LEMMA MinOfNats ==
  ASSUME NEW S \in SUBSET Nat, S # {}
  PROVE  Min(S) \in S /\ \A n \in S : Min(S) <= n
<1> DEFINE R == OpToRel(<, Nat)
<1>1. \A i, j \in Nat : <<i, j>> \in R <=> i < j
  BY DEF OpToRel
<1>2. IsWellFoundedOn(R, Nat)
  BY NatLessThanWellFounded
<1> HIDE DEF R
<1>3. PICK m \in S : \A n \in S : <<n, m>> \notin R
  BY <1>2, WFMin
<1>4. \A n \in S : n \in Nat /\ m \in Nat /\ ~(n < m)
  BY <1>1, <1>3
<1>5. \A n \in S : m <= n
  BY <1>4
<1> QED
  BY <1>4, <1>5 DEF Min

\* Only one number can be the least of a set.
LEMMA MinIs ==
  ASSUME NEW S \in SUBSET Nat, NEW m \in S, \A n \in S : m <= n
  PROVE  Min(S) = m
<1>1. Min(S) \in S /\ Min(S) <= m
  BY MinOfNats
<1>2. m <= Min(S) /\ Min(S) \in Nat /\ m \in Nat
  BY <1>1
<1> QED
  BY <1>1, <1>2

\* The times of a deque or a log never go back.
Sorted(times) == \A m, n \in DOMAIN times : m <= n => times[m] <= times[n]

\* Dropping what is too old from the left leaves the end of the deque: all of
\* it recent, and all that was dropped too old.
LEMMA PruneEffect ==
  ASSUME NEW T \in SUBSET Nat, NEW times \in Seq(T), Sorted(times), NEW cutoff \in Nat
  PROVE  /\ Prune(times, cutoff) \in Seq(T)
         /\ Len(Prune(times, cutoff)) <= Len(times)
         /\ \A n \in 1 .. Len(Prune(times, cutoff)) :
              /\ Prune(times, cutoff)[n] = times[Len(times) - Len(Prune(times, cutoff)) + n]
              /\ Prune(times, cutoff)[n] >= cutoff
         /\ \A n \in 1 .. Len(times) - Len(Prune(times, cutoff)) : times[n] < cutoff
<1> DEFINE keep == {n \in DOMAIN times : times[n] >= cutoff}
<1>1. DOMAIN times = 1 .. Len(times) /\ Len(times) \in Nat
  OBVIOUS
<1>2. \A n \in DOMAIN times : times[n] \in Nat
  <2>1. \A n \in DOMAIN times : times[n] \in T
    OBVIOUS
  <2> QED
    BY <2>1
<1>3. CASE keep = {}
  <2>1. Prune(times, cutoff) = <<>>
    BY <1>3 DEF Prune
  <2>2. \A n \in 1 .. Len(times) : times[n] < cutoff
    BY <1>1, <1>2, <1>3
  <2> QED
    BY <2>1, <2>2, <1>1
<1>4. CASE keep # {}
  <2> DEFINE m == Min(keep)
             p == SubSeq(times, m, Len(times))
  <2>1. keep \in SUBSET Nat
    BY <1>1
  <2>2. m \in keep /\ \A n \in keep : m <= n
    BY <2>1, <1>4, MinOfNats
  <2> HIDE DEF m
  <2>3. m \in 1 .. Len(times) /\ times[m] >= cutoff
    BY <2>2, <1>1
  <2>4. /\ p \in Seq(T) /\ Len(p) = Len(times) - m + 1
        /\ \A n \in 1 .. Len(p) : p[n] = times[m + n - 1]
    BY <2>3, <1>1, SubSeqProperties
  <2>5. \A n \in m .. Len(times) : times[n] >= cutoff
    <3> TAKE n \in m .. Len(times)
    <3>1. n \in DOMAIN times /\ m \in DOMAIN times /\ m <= n
      BY <2>3, <1>1
    <3>2. times[m] <= times[n] /\ times[m] \in Nat /\ times[n] \in Nat
      BY <3>1, <1>2 DEF Sorted
    <3> QED
      BY <3>2, <2>3
  <2>6. \A n \in 1 .. m - 1 : times[n] < cutoff
    <3> TAKE n \in 1 .. m - 1
    <3>1. n \in DOMAIN times /\ n \notin keep
      BY <2>3, <2>2, <1>1
    <3> QED
      BY <3>1, <1>2
  <2>7. Prune(times, cutoff) = p
    BY <1>4 DEF Prune, m
  <2> HIDE DEF p
  <2>8. \A n \in 1 .. Len(p) : m + n - 1 \in m .. Len(times) /\ Len(times) - Len(p) + n = m + n - 1
    BY <2>3, <2>4, <1>1
  <2>9. Len(times) - Len(p) = m - 1 /\ Len(p) <= Len(times)
    BY <2>3, <2>4, <1>1
  <2> QED
    BY <2>4, <2>5, <2>6, <2>7, <2>8, <2>9
<1> QED
  BY <1>3, <1>4

\* The deque of a scope is the end of its log, and what it no longer holds is
\* older than the window.
DequeIsWindow(s) ==
  LET dropped == Len(log[s]) - Len(failures[s]) IN
  /\ \A n \in 1 .. Len(failures[s]) : failures[s][n] = log[s][dropped + n]
  /\ \A n \in 1 .. dropped : log[s][n] + Window < time

\* Failures are logged in the order in which they happened.
LogInOrder(s) == Sorted(log[s]) /\ \A n \in DOMAIN log[s] : log[s][n] <= time

\* What is remembered of the opening of an incident.
Openings == [sure : BOOLEAN, log : Seq(0 .. MaxTime), at : 0 .. MaxTime]

\* The inductive invariant: neither of the two properties follows from types
\* alone, since an alarm is judged by the log and decided by the deque.
LinkInv ==
  /\ LinkTypeOK
  /\ opening \in [Scopes -> Openings]
  /\ \A s \in Scopes : DequeIsWindow(s) /\ LogInOrder(s)
  /\ AlarmIsSound
  /\ BurstRaisesAlarm

\* Counting a failure keeps the deque the end of the log; afterwards it holds
\* exactly the failures in the window.
LEMMA CountedWindow ==
  ASSUME LinkInv, NEW s \in Scopes, CountFailure(s), UNCHANGED time
  PROVE  /\ failures' \in [Scopes -> Seq(0 .. MaxTime)]
         /\ log' \in [Scopes -> Seq(0 .. MaxTime)]
         /\ \A x \in Scopes : Len(failures'[x]) <= Len(log'[x])
         /\ \A x \in Scopes \ {s} : failures'[x] = failures[x] /\ log'[x] = log[x]
         /\ \A x \in Scopes : DequeIsWindow(x)' /\ LogInOrder(x)'
         /\ Len(failures'[s]) > 0
         /\ \A n \in 1 .. Len(failures'[s]) : failures'[s][n] + Window >= time
<1> DEFINE T == 0 .. MaxTime
           old == failures[s]
           p == Prune(old, Cutoff)
           f == failures'[s]
           l == log[s]
           k == log'[s]
<1>1. /\ T \in SUBSET Nat /\ MaxTime \in Nat /\ Window \in Nat /\ time \in T /\ time \in Nat
  BY LinkNumbersAssumption DEF LinkInv, LinkTypeOK
<1>2. /\ failures \in [Scopes -> Seq(T)] /\ log \in [Scopes -> Seq(T)]
      /\ \A x \in Scopes : Len(failures[x]) <= Len(log[x])
  BY DEF LinkInv, LinkTypeOK
<1>3. /\ old \in Seq(T) /\ l \in Seq(T) /\ Len(old) <= Len(l)
      /\ Len(old) \in Nat /\ Len(l) \in Nat
  BY <1>2
<1>4. /\ DequeIsWindow(s) /\ LogInOrder(s)
  BY DEF LinkInv
<1>5. /\ failures' = [failures EXCEPT ![s] = Append(p, time)]
      /\ log' = [log EXCEPT ![s] = Append(l, time)]
  BY DEF CountFailure
<1>6. f = Append(p, time) /\ k = Append(l, time)
  BY <1>5, <1>2
<1>7. Cutoff \in Nat /\ \A n \in Nat : (n < Cutoff => n + Window < time) /\ (n >= Cutoff => n + Window >= time)
  BY <1>1 DEF Cutoff
<1> HIDE DEF T, old, p, f, l, k
<1>8. /\ \A n \in 1 .. Len(old) : old[n] = l[Len(l) - Len(old) + n]
      /\ \A n \in 1 .. Len(l) - Len(old) : l[n] + Window < time
  BY <1>4 DEF DequeIsWindow, old, l
<1>9. /\ \A m, n \in 1 .. Len(l) : m <= n => l[m] <= l[n]
      /\ \A n \in 1 .. Len(l) : l[n] <= time /\ l[n] \in T
  BY <1>4, <1>3 DEF LogInOrder, Sorted, l
<1>10. Sorted(old)
  <2> SUFFICES ASSUME NEW m \in DOMAIN old, NEW n \in DOMAIN old, m <= n
               PROVE  old[m] <= old[n]
    BY DEF Sorted
  <2> DEFINE d == Len(l) - Len(old)
  <2>1. /\ m \in 1 .. Len(old) /\ n \in 1 .. Len(old) /\ d \in Nat
        /\ d + m \in 1 .. Len(l) /\ d + n \in 1 .. Len(l) /\ d + m <= d + n
    BY <1>3
  <2>2. old[m] = l[d + m] /\ old[n] = l[d + n]
    BY <2>1, <1>8
  <2> HIDE DEF d
  <2> QED
    BY <2>1, <2>2, <1>9
<1>11. /\ p \in Seq(T) /\ Len(p) <= Len(old)
       /\ \A n \in 1 .. Len(p) : p[n] = old[Len(old) - Len(p) + n] /\ p[n] >= Cutoff
       /\ \A n \in 1 .. Len(old) - Len(p) : old[n] < Cutoff
  BY <1>1, <1>3, <1>7, <1>10, PruneEffect DEF p
<1>12. Len(p) \in Nat
  BY <1>11
<1>13. /\ f \in Seq(T) /\ Len(f) = Len(p) + 1 /\ f[Len(p) + 1] = time
       /\ \A n \in 1 .. Len(p) : f[n] = p[n]
  BY <1>11, <1>6, <1>1, AppendProperties
<1>14. /\ k \in Seq(T) /\ Len(k) = Len(l) + 1 /\ k[Len(l) + 1] = time
       /\ \A n \in 1 .. Len(l) : k[n] = l[n]
  BY <1>3, <1>6, <1>1, AppendProperties
\* the new deque and the new log
<1>15. \A n \in 1 .. Len(f) : f[n] = k[Len(k) - Len(f) + n] /\ f[n] + Window >= time
  <2> TAKE n \in 1 .. Len(f)
  <2>1. CASE n = Len(p) + 1
    <3>1. Len(k) - Len(f) + n = Len(l) + 1
      BY <2>1, <1>13, <1>14, <1>12, <1>3
    <3>2. f[n] = time /\ k[Len(k) - Len(f) + n] = time
      BY <3>1, <2>1, <1>13, <1>14
    <3> QED
      BY <3>2, <1>1
  <2>2. CASE n # Len(p) + 1
    <3> DEFINE j == Len(old) - Len(p) + n
               i == Len(l) - Len(old) + j
    <3>1. n \in 1 .. Len(p)
      BY <2>2, <1>13, <1>12
    <3>2. j \in 1 .. Len(old) /\ i \in 1 .. Len(l) /\ Len(k) - Len(f) + n = i
      BY <3>1, <1>11, <1>12, <1>13, <1>14, <1>3
    <3>3. f[n] = p[n] /\ p[n] = old[j] /\ p[n] >= Cutoff
      BY <3>1, <1>11, <1>13
    <3> HIDE DEF j
    <3>4. old[j] = l[i]
      BY <3>2, <1>8
    <3> HIDE DEF i
    <3>5. k[i] = l[i] /\ l[i] \in Nat
      BY <3>2, <1>14, <1>9, <1>1
    <3> QED
      BY <3>2, <3>3, <3>4, <3>5, <1>7
  <2> QED
    BY <2>1, <2>2
<1>16. \A n \in 1 .. Len(k) - Len(f) : k[n] + Window < time
  <2> TAKE n \in 1 .. Len(k) - Len(f)
  <2>0. n \in 1 .. Len(l)
    BY <1>12, <1>13, <1>14, <1>3
  <2>1. n \in 1 .. Len(l) /\ k[n] = l[n] /\ l[n] \in Nat
    BY <2>0, <1>14, <1>9, <1>1
  <2>2. CASE n \in 1 .. Len(l) - Len(old)
    BY <2>1, <2>2, <1>8
  <2>3. CASE n \notin 1 .. Len(l) - Len(old)
    <3> DEFINE j == n - (Len(l) - Len(old))
    <3>1. j \in 1 .. Len(old) - Len(p) /\ j \in 1 .. Len(old) /\ Len(l) - Len(old) + j = n
      BY <2>3, <2>1, <1>3, <1>11, <1>12, <1>13, <1>14
    <3> HIDE DEF j
    <3>2. old[j] < Cutoff /\ old[j] = l[n]
      BY <3>1, <1>11, <1>8
    <3> QED
      BY <3>2, <2>1, <1>7
  <2> QED
    BY <2>2, <2>3
<1>17. /\ \A m, n \in 1 .. Len(k) : m <= n => k[m] <= k[n]
       /\ \A n \in 1 .. Len(k) : k[n] <= time
  <2>1. \A n \in 1 .. Len(k) : n \in 1 .. Len(l) \/ n = Len(l) + 1
    BY <1>14, <1>3
  <2>2. \A n \in 1 .. Len(k) : k[n] <= time
    BY <2>1, <1>14, <1>9, <1>1
  <2>3. ASSUME NEW m \in 1 .. Len(k), NEW n \in 1 .. Len(k), m <= n
        PROVE  k[m] <= k[n]
    <3>1. CASE n = Len(l) + 1
      BY <3>1, <2>2, <1>14
    <3>2. CASE n \in 1 .. Len(l)
      <4>1. m \in 1 .. Len(l)
        BY <3>2, <2>3, <1>3
      <4> QED
        BY <4>1, <3>2, <2>3, <1>14, <1>9
    <3> QED
      BY <3>1, <3>2, <2>1
  <2> QED
    BY <2>2, <2>3
<1>18. DequeIsWindow(s)' /\ LogInOrder(s)'
  <2>1. DOMAIN k = 1 .. Len(k)
    BY <1>14
  <2> QED
    BY <2>1, <1>15, <1>16, <1>17 DEF DequeIsWindow, LogInOrder, Sorted, f, k
<1>19. \A x \in Scopes \ {s} : failures'[x] = failures[x] /\ log'[x] = log[x]
  BY <1>5, <1>2
<1>20. \A x \in Scopes \ {s} : DequeIsWindow(x)' /\ LogInOrder(x)'
  BY <1>19 DEF DequeIsWindow, LogInOrder, Sorted, LinkInv
<1>21. Len(f) <= Len(k) /\ Len(f) > 0
  BY <1>11, <1>12, <1>13, <1>14, <1>3
<1>22. /\ failures' \in [Scopes -> Seq(T)]
       /\ log' \in [Scopes -> Seq(T)]
  BY <1>5, <1>6, <1>2, <1>13, <1>14 DEF f, k
<1> QED
  BY <1>2, <1>15, <1>18, <1>19, <1>20, <1>21, <1>22 DEF f, k, T

\* What the window holds after a failure was counted: as many failures as the
\* deque, the oldest of them at its head.
LEMMA WindowCounted ==
  ASSUME LinkInv, NEW s \in Scopes, CountFailure(s), UNCHANGED time
  PROVE  /\ Cardinality(InWindow(log'[s], time)) = Len(failures'[s])
         /\ Head(failures'[s]) = log'[s][Min(InWindow(log'[s], time))]
         /\ Head(failures'[s]) \in 0 .. MaxTime
<1> DEFINE f == failures'[s]
           k == log'[s]
           d == Len(k) - Len(f)
           W == InWindow(k, time)
<1>1. /\ time \in Nat /\ Window \in Nat /\ 0 .. MaxTime \subseteq Nat
  BY LinkNumbersAssumption DEF LinkInv, LinkTypeOK
<1>2. /\ failures' \in [Scopes -> Seq(0 .. MaxTime)]
      /\ log' \in [Scopes -> Seq(0 .. MaxTime)]
      /\ Len(f) <= Len(k)
      /\ DequeIsWindow(s)'
      /\ Len(f) > 0
      /\ \A n \in 1 .. Len(f) : f[n] + Window >= time
      /\ time' = time
  BY CountedWindow
<1>3. /\ f \in Seq(0 .. MaxTime) /\ k \in Seq(0 .. MaxTime)
      /\ Len(f) \in Nat /\ Len(k) \in Nat
      /\ DOMAIN k = 1 .. Len(k)
  <2>1. f \in Seq(0 .. MaxTime) /\ k \in Seq(0 .. MaxTime)
    BY <1>2
  <2> HIDE DEF f, k
  <2> QED
    BY <2>1
<1> HIDE DEF f, k
<1>4. \A n \in 1 .. Len(k) : k[n] \in Nat
  <2>1. \A n \in 1 .. Len(k) : k[n] \in 0 .. MaxTime
    BY <1>3, ElementOfSeq
  <2> QED
    BY <2>1, <1>1
<1>5. /\ \A n \in 1 .. Len(f) : f[n] = k[d + n]
      /\ \A n \in 1 .. d : k[n] + Window < time
  BY <1>2 DEF DequeIsWindow, f, k
<1>6. d \in Nat /\ d + Len(f) = Len(k)
  BY <1>2, <1>3
<1> HIDE DEF d
<1>7. W = d + 1 .. Len(k)
  <2>1. ASSUME NEW n \in 1 .. Len(k)
        PROVE  n \in d + 1 .. Len(k) <=> k[n] + Window >= time
    <3>1. CASE n \in 1 .. d
      <4>1. k[n] + Window < time /\ k[n] \in Nat
        BY <3>1, <1>4, <1>5
      <4> QED
        BY <3>1, <4>1, <1>1, <1>6
    <3>2. CASE n \notin 1 .. d
      <4> DEFINE j == n - d
      <4>1. j \in 1 .. Len(f) /\ d + j = n
        BY <3>2, <1>6, <1>3
      <4> HIDE DEF j
      <4>2. f[j] + Window >= time /\ f[j] = k[n]
        BY <4>1, <1>2, <1>5
      <4> QED
        BY <4>2, <3>2, <1>6, <1>3
    <3> QED
      BY <3>1, <3>2
  <2>2. d + 1 .. Len(k) \subseteq 1 .. Len(k)
    BY <1>6, <1>3
  <2> QED
    BY <2>1, <2>2, <1>3 DEF InWindow
<1>8. Cardinality(W) = Len(f)
  <2>1. d + 1 \in Int /\ Len(k) \in Int /\ ~(d + 1 > Len(k)) /\ Len(k) - (d + 1) + 1 = Len(f)
    BY <1>6, <1>3, <1>2
  <2> HIDE DEF W
  <2> QED
    BY <2>1, <1>7, FS_Interval
<1>9. Min(W) = d + 1
  <2>1. /\ W \in SUBSET Nat /\ d + 1 \in W /\ \A n \in W : d + 1 <= n
    BY <1>7, <1>6, <1>3, <1>2
  <2> HIDE DEF W
  <2> QED
    BY <2>1, MinIs
<1>10. Head(f) = f[1] /\ f[1] = k[d + 1] /\ f[1] \in 0 .. MaxTime
  <2>1. 1 \in 1 .. Len(f)
    BY <1>3, <1>2
  <2>2. f[1] \in 0 .. MaxTime /\ f[1] = k[d + 1]
    BY <2>1, <1>3, <1>5, ElementOfSeq
  <2>3. Head(f) = f[1]
    BY <1>3, <1>2
  <2> QED
    BY <2>2, <2>3
<1> QED
  BY <1>8, <1>9, <1>10 DEF f, k

\* Time that passes and windows that start anew leave each deque the end of
\* its log.
LEMMA WindowsKept ==
  ASSUME LinkInv, time' \in Nat, time <= time',
         \A s \in Scopes : \/ failures'[s] = failures[s] /\ log'[s] = log[s]
                           \/ failures'[s] = <<>> /\ log'[s] = <<>>
  PROVE  \A s \in Scopes : DequeIsWindow(s)' /\ LogInOrder(s)'
<1> SUFFICES ASSUME NEW s \in Scopes
             PROVE  DequeIsWindow(s)' /\ LogInOrder(s)'
  OBVIOUS
<1>1. CASE failures'[s] = failures[s] /\ log'[s] = log[s]
  <2>1. DequeIsWindow(s) /\ LogInOrder(s)
    BY DEF LinkInv
  <2>2. /\ \A n \in DOMAIN log[s] : n \in Nat /\ log[s][n] \in Nat
        /\ DOMAIN log[s] = 1 .. Len(log[s]) /\ Len(log[s]) \in Nat
        /\ failures[s] \in Seq(0 .. MaxTime) /\ Len(failures[s]) \in Nat
        /\ Window \in Nat /\ time \in Nat
    <3>1. log[s] \in Seq(0 .. MaxTime) /\ failures[s] \in Seq(0 .. MaxTime)
      BY DEF LinkInv, LinkTypeOK
    <3>2. \A n \in 1 .. Len(log[s]) : log[s][n] \in 0 .. MaxTime
      BY <3>1, ElementOfSeq
    <3>3. time \in Nat /\ Window \in Nat
      BY LinkNumbersAssumption DEF LinkInv, LinkTypeOK
    <3> QED
      BY <3>1, <3>2, <3>3
  <2>3. LogInOrder(s)'
    BY <1>1, <2>1, <2>2 DEF LogInOrder, Sorted
  <2>4. DequeIsWindow(s)'
    <3> DEFINE d == Len(log[s]) - Len(failures[s])
    <3>1. d \in Int /\ \A n \in 1 .. d : n \in DOMAIN log[s]
      BY <2>2
    <3>2. \A n \in 1 .. d : log[s][n] + Window < time'
      <4>1. \A n \in 1 .. d : log[s][n] + Window < time
        BY <2>1 DEF DequeIsWindow
      <4>2. \A n \in 1 .. d : log[s][n] \in Nat
        BY <3>1, <2>2
      <4> QED
        BY <4>1, <4>2, <2>2
    <3> QED
      BY <3>2, <1>1, <2>1 DEF DequeIsWindow
  <2> QED
    BY <2>3, <2>4
<1>2. CASE failures'[s] = <<>> /\ log'[s] = <<>>
  BY <1>2 DEF DequeIsWindow, LogInOrder, Sorted
<1> QED
  BY <1>1, <1>2

\* Emptying a window, or all of them, keeps the types.
LEMMA WindowsTyped ==
  ASSUME LinkInv
  PROVE  /\ \A s \in Scopes : Forget(s) =>
              /\ failures' \in [Scopes -> Seq(0 .. MaxTime)]
              /\ log' \in [Scopes -> Seq(0 .. MaxTime)]
              /\ failures'[s] = <<>> /\ log'[s] = <<>>
              /\ \A x \in Scopes \ {s} : failures'[x] = failures[x] /\ log'[x] = log[x]
              /\ \A x \in Scopes : Len(failures'[x]) <= Len(log'[x])
         /\ [s \in Scopes |-> <<>>] \in [Scopes -> Seq(0 .. MaxTime)]
<1>1. <<>> \in Seq(0 .. MaxTime) /\ Len(<<>>) <= Len(<<>>)
  OBVIOUS
<1> QED
  BY <1>1 DEF Forget, LinkInv, LinkTypeOK

\* The invariant holds when the process starts for the first time.
LEMMA LinkInvInit == LinkInit => LinkInv
<1> SUFFICES ASSUME LinkInit PROVE LinkInv
  OBVIOUS
<1>1. /\ <<>> \in Seq(0 .. MaxTime) /\ Len(<<>>) = 0 /\ 0 \in 0 .. MaxTime
      /\ 0 \in 0 .. MaxLines /\ 0 \in 0 .. MaxLinkFaults /\ ~(0 >= Threshold)
  BY LinkNumbersAssumption
<1>2. LinkTypeOK
  <2>1. /\ failures \in [Scopes -> Seq(0 .. MaxTime)] /\ log \in [Scopes -> Seq(0 .. MaxTime)]
        /\ \A s \in Scopes : failures[s] = log[s]
    BY <1>1 DEF LinkInit
  <2>2. \A s \in Scopes : Len(failures[s]) <= Len(log[s])
    BY <1>1 DEF LinkInit
  <2> QED
    BY <2>1, <2>2, <1>1 DEF LinkInit, LinkTypeOK
<1>3. opening \in [Scopes -> Openings]
  BY <1>1 DEF LinkInit, NoOpening, Openings
<1>4. \A s \in Scopes : DequeIsWindow(s) /\ LogInOrder(s)
  BY <1>1 DEF LinkInit, DequeIsWindow, LogInOrder, Sorted
<1>5. AlarmIsSound /\ BurstRaisesAlarm
  BY <1>1 DEF LinkInit, AlarmIsSound, AlarmIsEarned, StartIsOldestCounted, BurstRaisesAlarm
<1> QED
  BY <1>2, <1>3, <1>4, <1>5 DEF LinkInv

\* A failure line: an incident is opened by what the window holds.
LEMMA FailureLineStep ==
  ASSUME LinkInv, NEW s \in Scopes, NEW sure \in BOOLEAN, FailureLine(s, sure)
  PROVE  LinkInv'
<1>1. /\ CountFailure(s) /\ UNCHANGED <<time, up, reading, faults>>
      /\ unreported' = unreported \ {s}
  BY DEF FailureLine
<1>2. /\ failures' \in [Scopes -> Seq(0 .. MaxTime)]
      /\ log' \in [Scopes -> Seq(0 .. MaxTime)]
      /\ \A x \in Scopes : Len(failures'[x]) <= Len(log'[x])
      /\ \A x \in Scopes \ {s} : failures'[x] = failures[x] /\ log'[x] = log[x]
      /\ \A x \in Scopes : DequeIsWindow(x)' /\ LogInOrder(x)'
  BY <1>1, CountedWindow
<1>3. /\ Cardinality(InWindow(log'[s], time)) = Len(failures'[s])
      /\ Head(failures'[s]) = log'[s][Min(InWindow(log'[s], time))]
      /\ Head(failures'[s]) \in 0 .. MaxTime
  BY <1>1, WindowCounted
<1>4. /\ open \in [Scopes -> BOOLEAN] /\ firstAt \in [Scopes -> 0 .. MaxTime]
      /\ opening \in [Scopes -> Openings] /\ time \in 0 .. MaxTime
  BY DEF LinkInv, LinkTypeOK
<1>5. lines' \in 0 .. MaxLines
  BY <1>1, LinkNumbersAssumption DEF CountFailure, LinkInv, LinkTypeOK
<1>6. CASE /\ Confirmed(s, sure) /\ ~open[s]
  <2> DEFINE o == [sure |-> sure, log |-> log'[s], at |-> time]
  <2>1. /\ open' = [open EXCEPT ![s] = TRUE]
        /\ firstAt' = [firstAt EXCEPT ![s] = Head(failures'[s])]
        /\ opening' = [opening EXCEPT ![s] = o]
    BY <1>6 DEF FailureLine, ReportDown
  <2>2. o \in Openings /\ o.sure = sure /\ o.log = log'[s] /\ o.at = time
    BY <1>2, <1>4 DEF Openings
  <2> HIDE DEF o
  <2>3. /\ open' \in [Scopes -> BOOLEAN] /\ firstAt' \in [Scopes -> 0 .. MaxTime]
        /\ opening' \in [Scopes -> Openings]
        /\ open'[s] /\ firstAt'[s] = Head(failures'[s]) /\ opening'[s] = o
        /\ \A x \in Scopes \ {s} :
             open'[x] = open[x] /\ firstAt'[x] = firstAt[x] /\ opening'[x] = opening[x]
    BY <2>1, <2>2, <1>3, <1>4
  <2>4. sure \/ Cardinality(InWindow(opening'[s].log, opening'[s].at)) >= Threshold
    BY <2>2, <2>3, <1>3, <1>6 DEF Confirmed
  <2>5. AlarmIsSound'
    <3>1. AlarmIsEarned'
      BY <2>2, <2>3, <2>4 DEF AlarmIsEarned, LinkInv, AlarmIsSound, InWindow
    <3>2. StartIsOldestCounted'
      <4> SUFFICES ASSUME NEW x \in Scopes, open'[x]
                   PROVE  firstAt'[x] = opening'[x].log[Min(InWindow(opening'[x].log, opening'[x].at))]
        BY DEF StartIsOldestCounted, InWindow
      <4>1. CASE x = s
        BY <4>1, <2>2, <2>3, <1>3
      <4>2. CASE x # s
        BY <4>2, <2>3 DEF StartIsOldestCounted, LinkInv, AlarmIsSound
      <4> QED
        BY <4>1, <4>2
    <3> QED
      BY <3>1, <3>2 DEF AlarmIsSound
  <2>6. BurstRaisesAlarm'
    BY <2>3, <1>1, <1>2 DEF BurstRaisesAlarm, LinkInv
  <2>7. LinkTypeOK'
    BY <2>3, <1>1, <1>2, <1>5 DEF LinkInv, LinkTypeOK
  <2> QED
    BY <2>3, <2>5, <2>6, <2>7, <1>2 DEF LinkInv
<1>7. CASE ~(Confirmed(s, sure) /\ ~open[s])
  <2>1. UNCHANGED <<open, firstAt, opening>>
    BY <1>7 DEF FailureLine, ReportDown, storeVars
  <2>2. AlarmIsSound'
    BY <2>1 DEF LinkInv, AlarmIsSound, AlarmIsEarned, StartIsOldestCounted, InWindow
  <2>3. BurstRaisesAlarm'
    <3>1. Len(failures'[s]) >= Threshold => open[s]
      BY <1>7 DEF Confirmed
    <3> QED
      BY <2>1, <3>1, <1>1, <1>2 DEF BurstRaisesAlarm, LinkInv
  <2>4. LinkTypeOK'
    BY <2>1, <1>1, <1>2, <1>5 DEF LinkInv, LinkTypeOK
  <2> QED
    BY <2>1, <2>2, <2>3, <2>4, <1>2, <1>4 DEF LinkInv
<1> QED
  BY <1>6, <1>7

\* A report that raises: the failure is counted, the scope is remembered.
LEMMA ReportRaisesStep ==
  ASSUME LinkInv, NEW s \in Scopes, NEW sure \in BOOLEAN, ReportRaises(s, sure)
  PROVE  LinkInv'
<1>1. /\ CountFailure(s) /\ UNCHANGED <<time, up, open, firstAt, opening>>
      /\ reading' = FALSE /\ faults < MaxLinkFaults /\ faults' = faults + 1
      /\ unreported' = IF Confirmed(s, sure) THEN unreported \cup {s} ELSE unreported \ {s}
  BY DEF ReportRaises, storeVars
<1>2. /\ failures' \in [Scopes -> Seq(0 .. MaxTime)]
      /\ log' \in [Scopes -> Seq(0 .. MaxTime)]
      /\ \A x \in Scopes : Len(failures'[x]) <= Len(log'[x])
      /\ \A x \in Scopes \ {s} : failures'[x] = failures[x] /\ log'[x] = log[x]
      /\ \A x \in Scopes : DequeIsWindow(x)' /\ LogInOrder(x)'
  BY <1>1, CountedWindow
<1>3. lines' \in 0 .. MaxLines /\ faults' \in 0 .. MaxLinkFaults
  BY <1>1, LinkNumbersAssumption DEF CountFailure, LinkInv, LinkTypeOK
<1>4. AlarmIsSound'
  BY <1>1 DEF LinkInv, AlarmIsSound, AlarmIsEarned, StartIsOldestCounted, InWindow
<1>5. BurstRaisesAlarm'
  <2>1. Len(failures'[s]) >= Threshold => s \in unreported'
    BY <1>1 DEF Confirmed
  <2> QED
    BY <2>1, <1>1, <1>2 DEF BurstRaisesAlarm, LinkInv
<1>6. LinkTypeOK'
  BY <1>1, <1>2, <1>3 DEF LinkInv, LinkTypeOK
<1> QED
  BY <1>1, <1>2, <1>4, <1>5, <1>6 DEF LinkInv

\* A window that starts anew, whether its incident is closed or the report
\* raises.
LEMMA ForgetStep ==
  ASSUME LinkInv, NEW s \in Scopes, Forget(s), UNCHANGED <<time, up, lines, opening>>,
         reading' \in BOOLEAN, faults' \in 0 .. MaxLinkFaults,
         Heal(s) \/ UNCHANGED storeVars
  PROVE  LinkInv'
<1>1. /\ failures' \in [Scopes -> Seq(0 .. MaxTime)]
      /\ log' \in [Scopes -> Seq(0 .. MaxTime)]
      /\ failures'[s] = <<>> /\ log'[s] = <<>>
      /\ \A x \in Scopes \ {s} : failures'[x] = failures[x] /\ log'[x] = log[x]
      /\ \A x \in Scopes : Len(failures'[x]) <= Len(log'[x])
  BY WindowsTyped
<1>2. /\ unreported' = unreported \ {s} /\ UNCHANGED <<firstAt, opening>>
      /\ open' \in [Scopes -> BOOLEAN]
      /\ \A x \in Scopes : open'[x] => open[x]
      /\ \A x \in Scopes \ {s} : open'[x] = open[x]
  BY DEF Forget, Heal, storeVars, LinkInv, LinkTypeOK
<1>3. \A x \in Scopes : DequeIsWindow(x)' /\ LogInOrder(x)'
  <2>1. time' \in Nat /\ time <= time'
    BY LinkNumbersAssumption DEF LinkInv, LinkTypeOK
  <2> QED
    BY <2>1, <1>1, WindowsKept
<1>4. AlarmIsSound'
  BY <1>2 DEF LinkInv, AlarmIsSound, AlarmIsEarned, StartIsOldestCounted, InWindow
<1>5. BurstRaisesAlarm'
  <2>1. ~(Len(failures'[s]) >= Threshold)
    BY <1>1, LinkNumbersAssumption
  <2> QED
    BY <2>1, <1>1, <1>2 DEF BurstRaisesAlarm, LinkInv
<1>6. LinkTypeOK'
  BY <1>1, <1>2 DEF LinkInv, LinkTypeOK
<1> QED
  BY <1>1, <1>2, <1>3, <1>4, <1>5, <1>6 DEF LinkInv

\* A kill empties every window; the incidents stay.
LEMMA LinkCrashStep ==
  ASSUME LinkInv, Crash
  PROVE  LinkInv'
<1>1. /\ failures' \in [Scopes -> Seq(0 .. MaxTime)]
      /\ log' \in [Scopes -> Seq(0 .. MaxTime)]
      /\ \A x \in Scopes : failures'[x] = <<>> /\ log'[x] = <<>>
  BY WindowsTyped DEF Crash
<1>2. /\ unreported' = {} /\ reading' = FALSE
      /\ UNCHANGED <<time, up, open, firstAt, lines, opening>>
  BY DEF Crash, storeVars
<1>3. \A x \in Scopes : DequeIsWindow(x)' /\ LogInOrder(x)'
  <2>1. time' \in Nat /\ time <= time'
    BY <1>2, LinkNumbersAssumption DEF LinkInv, LinkTypeOK
  <2> QED
    BY <2>1, <1>1, WindowsKept
<1>4. AlarmIsSound'
  BY <1>2 DEF LinkInv, AlarmIsSound, AlarmIsEarned, StartIsOldestCounted, InWindow
<1>5. BurstRaisesAlarm'
  <2>1. \A x \in Scopes : ~(Len(failures'[x]) >= Threshold) /\ Len(failures'[x]) <= Len(log'[x])
    BY <1>1, LinkNumbersAssumption
  <2> QED
    BY <2>1 DEF BurstRaisesAlarm
<1>6. LinkTypeOK'
  <2>1. faults' \in 0 .. MaxLinkFaults
    BY LinkNumbersAssumption DEF Crash, LinkInv, LinkTypeOK
  <2>2. \A x \in Scopes : Len(failures'[x]) <= Len(log'[x])
    BY <1>1
  <2> QED
    BY <1>1, <1>2, <2>1, <2>2 DEF LinkInv, LinkTypeOK
<1> QED
  BY <1>2, <1>3, <1>4, <1>5, <1>6 DEF LinkInv

\* Steps that count nothing and report nothing: journalctl starts, a link
\* changes, time passes.
LEMMA OtherLinkSteps ==
  ASSUME LinkInv, time' \in 0 .. MaxTime, time <= time', up' \in [Connections -> BOOLEAN],
         reading' \in BOOLEAN,
         UNCHANGED <<failures, storeVars, lines, faults, historyVars>>
  PROVE  LinkInv'
<1>1. UNCHANGED <<failures, open, firstAt, lines, faults, log, opening, unreported>>
  BY DEF storeVars, historyVars
<1>2. \A x \in Scopes : DequeIsWindow(x)' /\ LogInOrder(x)'
  <2>1. time' \in Nat
    BY LinkNumbersAssumption
  <2> QED
    BY <2>1, <1>1, WindowsKept
<1>3. AlarmIsSound' /\ BurstRaisesAlarm'
  BY <1>1 DEF LinkInv, AlarmIsSound, AlarmIsEarned, StartIsOldestCounted, InWindow, BurstRaisesAlarm
<1>4. LinkTypeOK'
  BY <1>1 DEF LinkInv, LinkTypeOK
<1> QED
  BY <1>1, <1>2, <1>3, <1>4 DEF LinkInv

\* Every step of the monitor and of the world keeps the invariant.
LEMMA LinkInvStep == LinkInv /\ [LinkNext]_linkVars => LinkInv'
<1> SUFFICES ASSUME LinkInv, [LinkNext]_linkVars PROVE LinkInv'
  OBVIOUS
<1> USE DEF Scopes
<1>1. ASSUME NEW s \in Scopes, NEW sure \in BOOLEAN, FailureLine(s, sure) PROVE LinkInv'
  BY <1>1, FailureLineStep
<1>2. ASSUME NEW s \in Scopes, NEW sure \in BOOLEAN, ReportRaises(s, sure) PROVE LinkInv'
  BY <1>2, ReportRaisesStep
<1>0. \A n \in 0 .. MaxLinkFaults : n < MaxLinkFaults => n + 1 \in 0 .. MaxLinkFaults
  BY LinkNumbersAssumption
<1>3. ASSUME NEW s \in Scopes, HealRaises(s) PROVE LinkInv'
  <2>1. faults' \in 0 .. MaxLinkFaults
    BY <1>3, <1>0 DEF HealRaises, LinkInv, LinkTypeOK
  <2>2. /\ Forget(s) /\ UNCHANGED <<time, up, lines, opening>> /\ reading' \in BOOLEAN
        /\ UNCHANGED storeVars
    BY <1>3 DEF HealRaises
  <2> QED
    BY <2>1, <2>2, ForgetStep
<1>4. CASE RecoveryLine
  <2>1. /\ Forget(General) /\ Heal(General) /\ UNCHANGED <<time, up, lines, opening>>
        /\ reading' \in BOOLEAN /\ faults' \in 0 .. MaxLinkFaults
    BY <1>4 DEF RecoveryLine, LinkInv, LinkTypeOK
  <2> QED
    BY <2>1, ForgetStep
<1>5. ASSUME NEW c \in Connections, ReplyCompleted(c) PROVE LinkInv'
  <2>1. /\ Forget(c) /\ Heal(c) /\ UNCHANGED <<time, up, lines, opening>>
        /\ reading' \in BOOLEAN /\ faults' \in 0 .. MaxLinkFaults
    BY <1>5 DEF ReplyCompleted, LinkInv, LinkTypeOK
  <2> QED
    BY <2>1, ForgetStep
<1>6. time \in 0 .. MaxTime /\ time <= time /\ up \in [Connections -> BOOLEAN] /\ reading \in BOOLEAN
  BY LinkNumbersAssumption DEF LinkInv, LinkTypeOK
<1>7. ASSUME NEW c \in Connections, Flip(c) PROVE LinkInv'
  BY <1>6, <1>7, OtherLinkSteps DEF Flip, monitorVars
<1>8. CASE StartJournal
  BY <1>6, <1>8, OtherLinkSteps DEF StartJournal
<1>9. CASE Crash
  BY <1>9, LinkCrashStep
<1>10. CASE Tick
  <2>1. time' \in 0 .. MaxTime /\ time <= time'
    BY <1>6, <1>10, LinkNumbersAssumption DEF Tick
  <2> QED
    BY <2>1, <1>6, <1>10, OtherLinkSteps DEF Tick, monitorVars
<1>11. CASE UNCHANGED linkVars
  BY <1>6, <1>11, OtherLinkSteps DEF linkVars, monitorVars
<1> QED
  BY <1>1, <1>2, <1>3, <1>4, <1>5, <1>7, <1>8, <1>9, <1>10, <1>11 DEF LinkNext

\* The invariant of the journal monitor: each deque is exactly the end of its
\* scope's log that the window may still need, and alarms rest on it
\* (process_line of SealDiceJournalMonitor).
THEOREM LinkInvariant == LinkSpec => []LinkInv
BY LinkInvInit, LinkInvStep, PTL DEF LinkSpec

\* The variables of the journal monitor keep their types.
THEOREM LinkTypeCorrect == LinkSpec => []LinkTypeOK
<1>1. LinkInv => LinkTypeOK
  BY DEF LinkInv
<1> QED
  BY <1>1, LinkInvariant, PTL

\* An alarm no line states outright rests on Threshold failures of its own
\* scope in one window, and dates the outage from the oldest of them.
THEOREM AlarmsAreSound == LinkSpec => []AlarmIsSound
<1>1. LinkInv => AlarmIsSound
  BY DEF LinkInv
<1> QED
  BY <1>1, LinkInvariant, PTL

\* A window with Threshold failures has an incident, unless its last report
\* raised.
THEOREM BurstsRaiseAlarms == LinkSpec => []BurstRaisesAlarm
<1>1. LinkInv => BurstRaisesAlarm
  BY DEF LinkInv
<1> QED
  BY <1>1, LinkInvariant, PTL

=============================================================================

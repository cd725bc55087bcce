------------------------- MODULE ScheduledSendProofs -------------------------
(***************************************************************************)
(* Send-later for any number of records, requests, restarts and store      *)
(* errors: type correctness, the finality of an undisturbed cancel, and,   *)
(* without PATCH, the account of duplicate deliveries.                     *)
(***************************************************************************)
EXTENDS ScheduledSend, TLAPS

-----------------------------------------------------------------------------
(* The inductive invariant *)

\* A process in the middle of its work knows its record.
Stepping ==
  \A p \in Procs :
    /\ pc[p] \in PutSteps \cup {"send", "accepted"} => at[p] \in Ids /\ copy[p] \in Records
    /\ pc[p] \in {"delete", "abandon"} => at[p] \in Ids

\* Requests making a record are inside Put.
Makers == \A r \in Reqs : r \in making => pc[r] \in PutSteps

\* What is stored, listed or held was acknowledged, unless it is being made.
Known ==
  \A i \in Ids :
    /\ store[i] # NoRecord => i \in created
    /\ batch[i] # NoRecord => i \in created
    /\ \A p \in Procs : at[p] = i /\ p \notin making => i \in created
    /\ i \in quiet => i \in created

Sound == TypeOK /\ Stepping /\ Makers /\ Known

\* A record being made is in nobody else's hands.
Fresh ==
  \A r \in making :
    /\ at[r] \notin created
    /\ \A p \in Procs : p # r => at[p] # at[r]

\* The drain has sent its record and not disposed of it yet.
Sent(i) == at[Drain] = i /\ pc[Drain] \in {"accepted", "delete"}

\* The drain fires each listed record from its list, and holds none in between.
Firing ==
  /\ pc[Drain] \in {"idle", "next"} => at[Drain] = NoRecord
  /\ \A i \in Ids : at[Drain] = i => batch[i] = NoRecord

\* Without PATCH, only the maker of a record holds a copy that came by HTTP.
NoEdits == \A r \in Reqs : r \notin making => copy[r] = NoRecord

\* The record can still be sent.
AtLarge(i) == store[i] # NoRecord \/ Held(i)

\* As long as somebody may send a record again, every delivery of it is excused.
Excused ==
  \A i \in Ids :
    /\ delivered[i] <= 1 + excuses[i]
    /\ i \notin created => delivered[i] = 0
    /\ AtLarge(i) /\ ~Sent(i) => delivered[i] <= excuses[i]

-----------------------------------------------------------------------------
(* Type correctness *)

\* The records the handlers and the drain build are records.
LEMMA RecordForms ==
  /\ \A t \in Times, b \in Bodies : [sendAt |-> t, body |-> b, attempts |-> 0] \in Records
  /\ \A r \in Records, t \in Times, b \in Bodies : [r EXCEPT !.sendAt = t, !.body = b] \in Records
  /\ \A r \in Records : Counted(r) \in Records
<1>1. \A t \in Times, b \in Bodies : [sendAt |-> t, body |-> b, attempts |-> 0] \in Records
  BY DEF Records
<1>2. \A r \in Records, t \in Times, b \in Bodies : [r EXCEPT !.sendAt = t, !.body = b] \in Records
  BY DEF Records
<1>3. ASSUME NEW r \in Records
      PROVE  Counted(r) \in Records
  BY DEF Records, Counted
<1>4. QED
  BY <1>1, <1>2, <1>3

\* Counting one more keeps a vector of counters one.
LEMMA CountUp ==
  ASSUME NEW f \in [Ids -> Nat], NEW i \in Ids
  PROVE  [f EXCEPT ![i] = @ + 1] \in [Ids -> Nat]
OBVIOUS

\* The steps of the handlers, of Put, of the drain and of the process.
LEMMA Cases ==
  ASSUME [Next]_vars
  PROVE  \/ \E r \in Reqs, i \in Ids : CancelFind(r, i)
         \/ \E r \in Reqs, i \in Ids, t \in Times, b \in Bodies : Schedule(r, i, t, b) \/ Patch(r, i, t, b)
         \/ \E r \in Reqs : CancelDelete(r)
         \/ \E p \in Procs : PutCheck(p) \/ PutCount(p) \/ PutWrite(p)
         \/ ListDue \/ EndPass \/ \E i \in Ids : Fire(i) \/ SkipUnreadable(i)
         \/ SmtpRefuse \/ SmtpAccept \/ SmtpReply \/ SentDelete \/ Abandon
         \/ Boot \/ Crash \/ Stop \/ Stopped \/ Tick
         \/ UNCHANGED vars
BY DEF Next, Request, Put, Pass, Process, Procs

\* Every step keeps the types.
LEMMA TypeStep == TypeOK /\ Stepping /\ [Next]_vars => TypeOK'
<1> USE ScheduleAssumption DEF TypeOK, Procs, PutSteps
<1> SUFFICES ASSUME TypeOK, Stepping, [Next]_vars
             PROVE  TypeOK'
  OBVIOUS
<1>1. ASSUME NEW r \in Reqs, NEW i \in Ids, CancelFind(r, i)
      PROVE  TypeOK'
  BY <1>1 DEF CancelFind, Hold, sysVars, obsVars
<1>2. ASSUME NEW r \in Reqs, NEW i \in Ids, NEW t \in Times, NEW b \in Bodies,
             Schedule(r, i, t, b)
      PROVE  TypeOK'
  BY <1>2, RecordForms DEF Schedule, Hold, sysVars, obsVars
<1>3. ASSUME NEW r \in Reqs, NEW i \in Ids, NEW t \in Times, NEW b \in Bodies,
             Patch(r, i, t, b)
      PROVE  TypeOK'
  BY <1>3, RecordForms DEF Patch, Hold, sysVars, obsVars
<1>4. ASSUME NEW r \in Reqs, CancelDelete(r)
      PROVE  TypeOK'
  BY <1>4 DEF CancelDelete, Done, Hold, sysVars, Stepping
<1>5. ASSUME NEW p \in Procs, PutCheck(p)
      PROVE  TypeOK'
  BY <1>5 DEF PutCheck, Goto, sysVars, obsVars
<1>6. ASSUME NEW p \in Procs, PutCount(p)
      PROVE  TypeOK'
  BY <1>6 DEF PutCount, PutFails, Goto, Done, Hold, sysVars, Stepping
<1>7. ASSUME NEW p \in Procs, PutWrite(p)
      PROVE  TypeOK'
  BY <1>7 DEF PutWrite, PutFails, Goto, Done, Hold, sysVars, Stepping
<1>8. CASE ListDue \/ EndPass
  BY <1>8 DEF ListDue, EndPass, Goto, sysVars, obsVars
<1>9. ASSUME NEW i \in Ids, Fire(i) \/ SkipUnreadable(i)
      PROVE  TypeOK'
  BY <1>9 DEF Fire, AfterBuild, SkipUnreadable, Hold, sysVars, obsVars
<1>10. CASE SmtpRefuse \/ SmtpReply
  <2>1. /\ at[Drain] \in Ids /\ copy[Drain] \in Records
        /\ Counted(copy[Drain]) \in Records
    BY <1>10, RecordForms DEF SmtpRefuse, SmtpReply, Stepping
  <2>2. tries' \in [Ids -> Nat] /\ excuses' \in [Ids -> Nat]
    BY <1>10, <2>1, CountUp DEF SmtpRefuse, SmtpReply, SendFailed
  <2>3. QED
    BY <1>10, <2>1, <2>2 DEF SmtpRefuse, SmtpReply, SendFailed, AfterSent, Goto, Hold, sysVars
<1>11. CASE SmtpAccept
  BY <1>11, CountUp DEF SmtpAccept, Goto, sysVars, obsVars, Stepping
<1>12. CASE SentDelete \/ Abandon
  <2>1. at[Drain] \in Ids
    BY <1>12 DEF SentDelete, Abandon, Stepping
  <2>2. excuses' \in [Ids -> Nat]
    BY <1>12, <2>1, CountUp DEF SentDelete, Abandon, obsVars
  <2>3. QED
    BY <1>12, <2>1, <2>2 DEF SentDelete, Abandon, Done, Hold, sysVars, obsVars
<1>13. CASE Crash
  <2>1. excuses' \in [Ids -> Nat]
    BY <1>13 DEF Crash
  <2>2. QED
    BY <1>13, <2>1 DEF Crash, Die, NoBatch
<1>14. CASE Stopped
  BY <1>14 DEF Stopped, Die, NoBatch
<1>15. CASE Boot \/ Stop
  <2>1. UNCHANGED <<store, clock, procVars, delivered, obsVars>>
    BY <1>15 DEF Boot, Stop
  <2>2. up' \in BOOLEAN /\ stopping' \in BOOLEAN
    BY <1>15, Zenon DEF Boot, Stop
  <2>3. boots' = boots \/ boots' = boots + 1
    BY <1>15, Zenon DEF Boot, Stop
  <2>4. boots' \in Nat
    BY <2>3
  <2>5. QED
    BY <2>1, <2>2, <2>4 DEF procVars, obsVars
<1>16. CASE Tick
  <2>1. clock + 1 \in Times
    BY <1>16 DEF Tick, Times
  <2>2. QED
    BY <1>16, <2>1 DEF Tick, procVars, obsVars
<1>17. CASE UNCHANGED vars
  BY <1>17 DEF vars, sysVars, procVars, obsVars
<1>18. QED
  BY Cases, <1>1, <1>2, <1>3, <1>4, <1>5, <1>6, <1>7, <1>8, <1>9, <1>10, <1>11, <1>12,
     <1>13, <1>14, <1>15, <1>16, <1>17

\* The steps that end or begin work for everybody at once, or for nobody.
Global == ListDue \/ EndPass \/ Boot \/ Crash \/ Stop \/ Stopped \/ Tick \/ UNCHANGED vars

\* The steps of one process, apart from the drain turning to its next record.
Local(p) ==
  \/ p \in Reqs /\ \E i \in Ids : CancelFind(p, i)
  \/ p \in Reqs /\ \E i \in Ids, t \in Times, b \in Bodies : Schedule(p, i, t, b) \/ Patch(p, i, t, b)
  \/ p \in Reqs /\ CancelDelete(p)
  \/ PutCheck(p) \/ PutCount(p) \/ PutWrite(p)
  \/ p = Drain /\ (SmtpRefuse \/ SmtpAccept \/ SmtpReply \/ SentDelete \/ Abandon)
  \/ p = Drain /\ \E i \in Ids : Fire(i) \/ SkipUnreadable(i)

LEMMA LocalOrGlobal == [Next]_vars => Global \/ \E p \in Procs : Local(p)
<1>1. Drain \in Procs /\ Reqs \subseteq Procs
  BY DEF Procs
<1>2. QED
  BY <1>1, Cases DEF Global, Local

\* A local step moves nobody else.
LEMMA LocalFrame ==
  ASSUME TypeOK, NEW p \in Procs, Local(p)
  PROVE  /\ \A q \in Procs \ {p} : pc'[q] = pc[q] /\ at'[q] = at[q] /\ copy'[q] = copy[q]
         /\ \A r \in Reqs \ {p} : r \in making' => r \in making
         /\ \A r \in Reqs \ {p} : r \in making => r \in making'
<1> USE DEF TypeOK, Goto, Hold, Done
<1> DEFINE Frame == /\ \A q \in Procs \ {p} : pc'[q] = pc[q] /\ at'[q] = at[q] /\ copy'[q] = copy[q]
                    /\ \A r \in Reqs \ {p} : r \in making' => r \in making
                    /\ \A r \in Reqs \ {p} : r \in making => r \in making'
<1>1. ASSUME NEW i \in Ids, NEW t \in Times, NEW b \in Bodies,
             Schedule(p, i, t, b) \/ Patch(p, i, t, b)
      PROVE  Frame
  BY <1>1 DEF Schedule, Patch
<1>2. CASE CancelDelete(p) \/ \E i \in Ids : CancelFind(p, i)
  BY <1>2 DEF CancelDelete, CancelFind
<1>3. CASE PutCheck(p) \/ PutCount(p) \/ PutWrite(p)
  BY <1>3 DEF PutCheck, PutCount, PutWrite, PutFails
<1>4. CASE p = Drain /\ (SmtpRefuse \/ SmtpAccept \/ SmtpReply \/ SentDelete \/ Abandon)
  BY <1>4 DEF SmtpRefuse, SmtpAccept, SmtpReply, SendFailed, SentDelete, Abandon
<1>5. CASE p = Drain /\ \E i \in Ids : Fire(i) \/ SkipUnreadable(i)
  BY <1>5 DEF Fire, SkipUnreadable
<1>6. QED
  BY <1>1, <1>2, <1>3, <1>4, <1>5 DEF Local

\* A global step leaves everybody's work alone or ends it.
LEMMA GlobalFrame ==
  ASSUME TypeOK, Global, NEW p \in Procs
  PROVE  /\ \/ at'[p] = at[p] /\ copy'[p] = copy[p] /\ making' = making
            \/ at'[p] = NoRecord /\ copy'[p] = NoRecord
         /\ \/ pc'[p] = pc[p] /\ at'[p] = at[p] /\ copy'[p] = copy[p]
            \/ pc'[p] \in {"idle", "next"} /\ (p \in Reqs => making' = {})
         /\ making' = making \/ making' = {}
<1>1. CASE ListDue \/ EndPass
  BY <1>1, ScheduleAssumption DEF TypeOK, ListDue, EndPass, Goto, Procs
<1>2. CASE Boot \/ Stop \/ Tick \/ UNCHANGED vars
  <2>1. procVars' = procVars
    BY <1>2 DEF Boot, Stop, Tick, vars
  <2>2. QED
    BY <2>1 DEF procVars
<1>3. CASE Crash \/ Stopped
  BY <1>3 DEF Crash, Stopped, Die
<1>4. QED
  BY <1>1, <1>2, <1>3 DEF Global

\* Nobody gets into the middle of its work without a record.
LEMMA SteppingStep == TypeOK /\ Stepping /\ [Next]_vars => Stepping'
<1> SUFFICES ASSUME TypeOK, Stepping, [Next]_vars
             PROVE  Stepping'
  OBVIOUS
<1>1. CASE Global
  BY <1>1, GlobalFrame DEF Stepping, PutSteps
<1>2. ASSUME NEW p \in Procs, Local(p)
      PROVE  Stepping'
  <2>1. /\ pc'[p] \in PutSteps \cup {"send", "accepted"} => at'[p] \in Ids /\ copy'[p] \in Records
        /\ pc'[p] \in {"delete", "abandon"} => at'[p] \in Ids
    <3>1. CASE PutCheck(p) \/ PutCount(p) \/ PutWrite(p)
      BY <3>1 DEF PutCheck, PutCount, PutWrite, PutFails, Goto, Hold, Done, TypeOK, Stepping, PutSteps
    <3>2. CASE p = Drain /\ (SmtpRefuse \/ SmtpAccept \/ SmtpReply \/ SentDelete \/ Abandon)
      <4>1. CASE SmtpRefuse \/ SmtpAccept \/ SmtpReply
        <5>1. /\ at[Drain] \in Ids /\ copy[Drain] \in Records
              /\ Counted(copy[Drain]) \in Records
          BY <3>2, <4>1, RecordForms DEF SmtpRefuse, SmtpAccept, SmtpReply, Stepping
        <5>2. QED
          BY <3>2, <4>1, <5>1 DEF SmtpRefuse, SmtpAccept, SmtpReply, SendFailed, AfterSent,
                                  Goto, Hold, TypeOK, PutSteps
      <4>2. CASE SentDelete \/ Abandon
        BY <3>2, <4>2 DEF SentDelete, Abandon, Hold, Done, TypeOK, PutSteps
      <4>3. QED
        BY <3>2, <4>1, <4>2
    <3>3. CASE p = Drain /\ \E i \in Ids : Fire(i) \/ SkipUnreadable(i)
      BY <3>3 DEF Fire, SkipUnreadable, AfterBuild, Listed, Hold, TypeOK, Stepping, PutSteps
    <3>4. ASSUME NEW i \in Ids, NEW t \in Times, NEW b \in Bodies, p \in Reqs,
                 Schedule(p, i, t, b) \/ Patch(p, i, t, b)
          PROVE  at'[p] \in Ids /\ copy'[p] \in Records
      <4>1. CASE Schedule(p, i, t, b)
        BY <4>1, RecordForms DEF Schedule, Hold, TypeOK
      <4>2. CASE Patch(p, i, t, b)
        <5>1. store[i] \in Records
          BY <4>2 DEF Patch, TypeOK
        <5>2. [store[i] EXCEPT !.sendAt = t, !.body = b] \in Records
          BY <5>1, RecordForms
        <5>3. QED
          BY <4>2, <5>2 DEF Patch, Hold, TypeOK
      <4>3. QED
        BY <3>4, <4>1, <4>2
    <3>5. CASE p \in Reqs /\ (CancelDelete(p) \/ \E i \in Ids : CancelFind(p, i))
      BY <3>5, ScheduleAssumption DEF CancelDelete, CancelFind, Done, Hold, TypeOK, PutSteps
    <3>6. QED
      BY <1>2, <3>1, <3>2, <3>3, <3>4, <3>5 DEF Local
  <2>2. QED
    BY <1>2, <2>1, LocalFrame DEF Stepping
<1>3. QED
  BY <1>1, <1>2, LocalOrGlobal

\* A request counts as making a record until its Put is over.
LEMMA MakersStep == TypeOK /\ Makers /\ [Next]_vars => Makers'
<1> SUFFICES ASSUME TypeOK, Makers, [Next]_vars
             PROVE  Makers'
  OBVIOUS
<1>1. CASE Global
  BY <1>1, GlobalFrame DEF Makers, Procs
<1>2. ASSUME NEW p \in Procs, Local(p)
      PROVE  Makers'
  <2>1. p \in Reqs /\ p \in making' => pc'[p] \in PutSteps
    BY <1>2, ScheduleAssumption
       DEF Local, CancelFind, Schedule, Patch, CancelDelete, PutCheck, PutCount, PutWrite, PutFails,
           Goto, Hold, Done, TypeOK, Makers, PutSteps
  <2>2. QED
    BY <1>2, <2>1, LocalFrame DEF Makers, Procs
<1>3. QED
  BY <1>1, <1>2, LocalOrGlobal

\* What a local step stores, lists, takes up and cancels.
LEMMA LocalEffects ==
  ASSUME TypeOK, Stepping, Makers, Known, NEW p \in Procs, Local(p), NEW i \in Ids
  PROVE  /\ store'[i] # NoRecord => \/ store[i] # NoRecord
                                    \/ at[p] = i /\ copy[p] # NoRecord /\ (p \in making => i \in created')
         /\ batch'[i] # NoRecord => batch[i] # NoRecord
         /\ at'[p] = i => \/ at[p] = i /\ (p \in making' <=> p \in making)
                             /\ (copy'[p] # NoRecord => copy[p] # NoRecord)
                          \/ store[i] # NoRecord /\ p \in Reqs \ making'
                          \/ batch[i] # NoRecord /\ p = Drain /\ batch'[i] = NoRecord
                          \/ Unused(i) /\ p \in making' /\ p \in Reqs
         /\ i \in created => i \in created'
         /\ i \in quiet' => \/ i \in quiet
                            \/ /\ at[p] = i /\ p \notin making /\ ~Held(i)
                               /\ store'[i] = NoRecord /\ at'[p] # i
<1> USE ScheduleAssumption DEF TypeOK, Goto, Hold, Done
<1> DEFINE Effects ==
             /\ store'[i] # NoRecord => \/ store[i] # NoRecord
                                        \/ at[p] = i /\ copy[p] # NoRecord /\ (p \in making => i \in created')
             /\ batch'[i] # NoRecord => batch[i] # NoRecord
             /\ at'[p] = i => \/ at[p] = i /\ (p \in making' <=> p \in making)
                                 /\ (copy'[p] # NoRecord => copy[p] # NoRecord)
                              \/ store[i] # NoRecord /\ p \in Reqs \ making'
                              \/ batch[i] # NoRecord /\ p = Drain /\ batch'[i] = NoRecord
                              \/ Unused(i) /\ p \in making' /\ p \in Reqs
             /\ i \in created => i \in created'
             /\ i \in quiet' => \/ i \in quiet
                                \/ /\ at[p] = i /\ p \notin making /\ ~Held(i)
                                   /\ store'[i] = NoRecord /\ at'[p] # i
<1>1. CASE p \in Reqs /\ \E j \in Ids : CancelFind(p, j)
  BY <1>1 DEF CancelFind, Makers, PutSteps, obsVars
<1>2. ASSUME NEW j \in Ids, NEW t \in Times, NEW b \in Bodies, p \in Reqs, Schedule(p, j, t, b)
      PROVE  Effects
  BY <1>2 DEF Schedule, obsVars
<1>3. ASSUME NEW j \in Ids, NEW t \in Times, NEW b \in Bodies, p \in Reqs, Patch(p, j, t, b)
      PROVE  Effects
  BY <1>3 DEF Patch, Makers, PutSteps, obsVars
<1>4. CASE p \in Reqs /\ CancelDelete(p)
  BY <1>4 DEF CancelDelete, Makers, PutSteps
<1>5. CASE PutCheck(p) \/ PutCount(p)
  BY <1>5 DEF PutCheck, PutCount, PutFails, obsVars
<1>6. CASE PutWrite(p)
  BY <1>6 DEF PutWrite, PutFails, Stepping, PutSteps
<1>7. CASE p = Drain /\ (SmtpRefuse \/ SmtpReply)
  <2>1. copy[Drain] # NoRecord
    BY <1>7 DEF SmtpRefuse, SmtpReply, Stepping, Procs
  <2>2. QED
    BY <1>7, <2>1 DEF SmtpRefuse, SmtpReply, SendFailed
<1>8. CASE p = Drain /\ (SmtpAccept \/ SentDelete \/ Abandon)
  BY <1>8 DEF SmtpAccept, SentDelete, Abandon, obsVars
<1>9. CASE p = Drain /\ \E j \in Ids : Fire(j) \/ SkipUnreadable(j)
  BY <1>9 DEF Fire, SkipUnreadable, Listed, obsVars
<1>10. QED
  BY <1>1, <1>2, <1>3, <1>4, <1>5, <1>6, <1>7, <1>8, <1>9 DEF Local

\* Nor does a global step bring a record about.
LEMMA GlobalEffects ==
  ASSUME TypeOK, Global, NEW i \in Ids
  PROVE  /\ store'[i] = store[i]
         /\ batch'[i] # NoRecord => batch[i] # NoRecord \/ store[i] # NoRecord
         /\ created' = created /\ quiet' = quiet
<1>1. CASE ListDue \/ EndPass
  BY <1>1 DEF ListDue, EndPass, Due, obsVars, TypeOK
<1>2. CASE Boot \/ Stop \/ Tick \/ UNCHANGED vars
  BY <1>2 DEF Boot, Stop, Tick, vars, procVars, obsVars
<1>3. CASE Crash \/ Stopped
  BY <1>3 DEF Crash, Stopped, Die, NoBatch
<1>4. QED
  BY <1>1, <1>2, <1>3 DEF Global

\* Records come from acknowledged requests only.
LEMMA KnownStep == TypeOK /\ Stepping /\ Makers /\ Known /\ [Next]_vars => Known'
<1> SUFFICES ASSUME TypeOK, Stepping, Makers, Known, [Next]_vars, NEW i \in Ids
             PROVE  /\ store'[i] # NoRecord => i \in created'
                    /\ batch'[i] # NoRecord => i \in created'
                    /\ \A p \in Procs : at'[p] = i /\ p \notin making' => i \in created'
                    /\ i \in quiet' => i \in created'
  BY DEF Known
<1>1. CASE Global
  BY <1>1, GlobalFrame, GlobalEffects, ScheduleAssumption DEF Known, Makers
<1>2. ASSUME NEW p \in Procs, Local(p)
      PROVE  /\ store'[i] # NoRecord => i \in created'
             /\ batch'[i] # NoRecord => i \in created'
             /\ \A q \in Procs : at'[q] = i /\ q \notin making' => i \in created'
             /\ i \in quiet' => i \in created'
  <2>1. at'[p] = i /\ p \notin making' => i \in created'
    BY <1>2, LocalEffects DEF Known
  <2>2. ASSUME NEW q \in Procs \ {p}, at'[q] = i, q \notin making'
        PROVE  i \in created'
    <3>1. at[q] = i /\ q \notin making
      BY <1>2, <2>2, LocalFrame, ScheduleAssumption DEF TypeOK, Procs
    <3>2. QED
      BY <1>2, <3>1, LocalEffects DEF Known
  <2>3. QED
    BY <1>2, <2>1, <2>2, LocalEffects DEF Known
<1>3. QED
  BY <1>1, <1>2, LocalOrGlobal

\* A cancelled record that nobody holds can come back from nowhere.
LEMMA QuietStep == Sound /\ QuietCancelIsFinal /\ [Next]_vars => QuietCancelIsFinal'
<1> SUFFICES ASSUME Sound, QuietCancelIsFinal, [Next]_vars, NEW i \in Ids, i \in quiet'
             PROVE  store'[i] = NoRecord /\ ~Held(i)'
  BY TypeStep DEF Sound, TypeOK, QuietCancelIsFinal
<1> USE DEF Sound
<1>1. CASE Global
  BY <1>1, GlobalFrame, GlobalEffects DEF QuietCancelIsFinal, Held
<1>2. ASSUME NEW p \in Procs, Local(p)
      PROVE  store'[i] = NoRecord /\ ~Held(i)'
  <2>1. ~Held(i)
    BY <1>2, LocalEffects DEF QuietCancelIsFinal
  <2>2. \A q \in Procs \ {p} : at'[q] = i => copy'[q] = NoRecord
    BY <1>2, <2>1, LocalFrame DEF Held
  <2>3. CASE i \in quiet
    <3>1. i \in created /\ store[i] = NoRecord
      BY <2>3 DEF Known, QuietCancelIsFinal
    <3>2. at'[p] = i => copy'[p] = NoRecord
      BY <1>2, <2>1, <3>1, LocalEffects DEF Held, Unused
    <3>3. QED
      BY <1>2, <2>1, <2>2, <3>1, <3>2, LocalEffects DEF Held
  <2>4. CASE i \notin quiet
    BY <1>2, <2>1, <2>2, <2>4, LocalEffects DEF Held
  <2>5. QED
    BY <2>3, <2>4
<1>3. QED
  BY <1>1, <1>2, LocalOrGlobal

-----------------------------------------------------------------------------
(* The theorems *)

LEMMA InitSound == Init => Sound /\ QuietCancelIsFinal
<1> USE ScheduleAssumption
<1> SUFFICES ASSUME Init
             PROVE  Sound /\ QuietCancelIsFinal
  OBVIOUS
<1>1. /\ store \in [Ids -> Records \cup {NoRecord}] /\ clock \in Times /\ boots \in Nat
      /\ batch \in [Ids -> Records \cup {NoRecord}]
      /\ at \in [Procs -> Ids \cup {NoRecord}] /\ copy \in [Procs -> Records \cup {NoRecord}]
      /\ delivered \in [Ids -> Nat] /\ tries \in [Ids -> Nat] /\ excuses \in [Ids -> Nat]
  BY DEF Init, Times, NoBatch
<1>2. up \in BOOLEAN /\ stopping \in BOOLEAN
  BY Zenon DEF Init
<1>3. TypeOK
  BY <1>1, <1>2 DEF Init, TypeOK
<1>4. Stepping /\ Makers /\ Known /\ QuietCancelIsFinal
  BY DEF Init, Stepping, Makers, Known, QuietCancelIsFinal, NoBatch, PutSteps
<1>5. QED
  BY <1>3, <1>4 DEF Sound

\* Sound and the finality of quiet cancels hold throughout.
LEMMA SoundAlways == Spec => [](Sound /\ QuietCancelIsFinal)
<1>1. Sound /\ QuietCancelIsFinal /\ [Next]_vars => Sound' /\ QuietCancelIsFinal'
  BY TypeStep, SteppingStep, MakersStep, KnownStep, QuietStep DEF Sound
<1>2. QED
  BY InitSound, <1>1, PTL DEF Spec

\* Every variable of send-later keeps its type.
THEOREM ScheduleTypeCorrect == Spec => []TypeOK
<1>1. Sound /\ QuietCancelIsFinal => TypeOK
  BY DEF Sound
<1>2. QED
  BY <1>1, SoundAlways, PTL

\* QuietCancelIsFinal: a DELETE /v1/scheduled/:id that nobody raced is final for any
\* number of requests, passes, store errors and restarts.
THEOREM QuietCancelStays == Spec => []QuietCancelIsFinal
<1>1. QED
  BY SoundAlways, PTL

-----------------------------------------------------------------------------
(* What becomes of an accepted record *)

\* Why a record may be missing from the store.
Reason(i) ==
  \/ delivered[i] > 0
  \/ i \in cancelled \cup refused
  \/ tries[i] >= MaxAttempts

\* No copy of a record counts more attempts than were made.
Budget ==
  \A i \in Ids :
    /\ store[i] # NoRecord => store[i].attempts <= tries[i]
    /\ batch[i] # NoRecord => batch[i].attempts <= tries[i]
    /\ \A p \in Procs : at[p] = i /\ copy[p] # NoRecord => copy[p].attempts <= tries[i]

\* The drain deletes a record only with a reason.
Disposing ==
  /\ pc[Drain] \in {"accepted", "delete"} => delivered[at[Drain]] > 0
  /\ pc[Drain] = "abandon" => Reason(at[Drain])

Keeping == Budget /\ Disposing /\ NotDropped

\* The records the steps build carry on the count of those they are built from.
LEMMA AttemptsKept ==
  /\ \A t \in Times, b \in Bodies : [sendAt |-> t, body |-> b, attempts |-> 0].attempts = 0
  /\ \A r \in Records, t \in Times, b \in Bodies :
       [r EXCEPT !.sendAt = t, !.body = b].attempts = r.attempts
  /\ \A r \in Records : r.attempts \in Nat /\ Counted(r).attempts = r.attempts + 1
BY DEF Records, Counted

\* Nothing done for a record is ever undone.
LEMMA ReasonsStay ==
  ASSUME TypeOK, Stepping, [Next]_vars, NEW i \in Ids
  PROVE  /\ tries[i] \in Nat /\ tries'[i] \in Nat /\ tries'[i] >= tries[i]
         /\ delivered[i] > 0 => delivered'[i] > 0
         /\ Reason(i) => Reason(i)'
<1>1. TypeOK'
  BY TypeStep
<1>2. cancelled \subseteq cancelled' /\ refused \subseteq refused'
  <2>1. CASE Global
    BY <2>1 DEF Global, ListDue, EndPass, Boot, Stop, Crash, Stopped, Tick, Die, vars, obsVars
  <2>2. ASSUME NEW p \in Procs, Local(p)
        PROVE  cancelled \subseteq cancelled' /\ refused \subseteq refused'
    BY <2>2, Zenon
       DEF Local, CancelFind, Schedule, Patch, CancelDelete, PutCheck, PutCount, PutWrite, PutFails,
           SmtpRefuse, SmtpAccept, SmtpReply, SentDelete, Abandon, Fire, SkipUnreadable, obsVars
  <2>3. QED
    BY <2>1, <2>2, LocalOrGlobal
<1>3. tries'[i] >= tries[i]
  <2>1. CASE SmtpRefuse \/ SmtpReply
    BY <2>1 DEF SmtpRefuse, SmtpReply, SendFailed, TypeOK, Stepping, Procs
  <2>2. CASE ~SmtpRefuse /\ ~SmtpReply
    <3>1. tries' = tries
      BY <2>2, Cases, Zenon
         DEF CancelFind, Schedule, Patch, CancelDelete, PutCheck, PutCount, PutWrite, PutFails,
             ListDue, EndPass, SmtpAccept, SentDelete, Abandon, Fire, SkipUnreadable, Boot, Crash,
             Stop, Stopped, Tick, Die, vars, obsVars
    <3>2. QED
      BY <3>1 DEF TypeOK
  <2>3. QED
    BY <2>1, <2>2
<1>4. delivered'[i] >= delivered[i]
  <2>1. CASE SmtpAccept
    BY <2>1 DEF SmtpAccept, TypeOK, Stepping, Procs
  <2>2. CASE ~SmtpAccept
    <3>1. delivered' = delivered
      BY <2>2, Cases, Zenon
         DEF CancelFind, Schedule, Patch, CancelDelete, PutCheck, PutCount, PutWrite, ListDue,
             EndPass, SmtpRefuse, SmtpReply, SentDelete, Abandon, Fire, SkipUnreadable, Boot, Crash,
             Stop, Stopped, Tick, Die, vars
    <3>2. QED
      BY <3>1 DEF TypeOK
  <2>3. QED
    BY <2>1, <2>2
<1>5. QED
  BY <1>1, <1>2, <1>3, <1>4, ScheduleAssumption DEF Reason, TypeOK

\* A local step stores a copy, takes one up with its count, or counts an attempt.
LEMMA LocalCopies ==
  ASSUME TypeOK, Stepping, NEW p \in Procs, Local(p), NEW i \in Ids
  PROVE  /\ store'[i] \in {store[i], NoRecord} \/ (at[p] = i /\ store'[i] = copy[p])
         /\ batch'[i] = batch[i] \/ batch'[i] = NoRecord
         /\ at'[p] = i /\ copy'[p] # NoRecord =>
              \/ at[p] = i /\ copy'[p] = copy[p]
              \/ at[p] = i /\ copy[p] \in Records /\ copy'[p] = Counted(copy[p]) /\ tries'[i] = tries[i] + 1
              \/ batch[i] # NoRecord /\ copy'[p] = batch[i]
              \/ copy'[p].attempts = 0
              \/ store[i] \in Records /\ copy'[p].attempts = store[i].attempts
<1> DEFINE Kept == /\ store'[i] \in {store[i], NoRecord} \/ (at[p] = i /\ store'[i] = copy[p])
                   /\ batch'[i] = batch[i] \/ batch'[i] = NoRecord
           Counts == tries'[i] = tries[i] + 1
           Derived == \/ at[p] = i /\ copy'[p] = copy[p]
                      \/ at[p] = i /\ copy[p] \in Records /\ copy'[p] = Counted(copy[p]) /\ Counts
                      \/ batch[i] # NoRecord /\ copy'[p] = batch[i]
                      \/ copy'[p].attempts = 0
                      \/ store[i] \in Records /\ copy'[p].attempts = store[i].attempts
           Gone == at'[p] = NoRecord \/ copy'[p] = NoRecord
           Same == at'[p] = at[p] /\ copy'[p] = copy[p]
<1>0. NoRecord \notin Ids /\ NoRecord \notin Records
  BY ScheduleAssumption
<1>1. CASE p \in Reqs /\ (CancelDelete(p) \/ \E j \in Ids : CancelFind(p, j))
  <2>1. Kept /\ Gone
    BY <1>1 DEF CancelDelete, CancelFind, Hold, Done, TypeOK
  <2>2. QED
    BY <1>0, <2>1
<1>2. ASSUME NEW j \in Ids, NEW t \in Times, NEW b \in Bodies, p \in Reqs, Schedule(p, j, t, b)
      PROVE  Kept /\ copy'[p].attempts = 0
  <2>1. copy'[p] = [sendAt |-> t, body |-> b, attempts |-> 0]
    BY <1>2 DEF Schedule, Hold, TypeOK
  <2>2. QED
    BY <1>2, <2>1 DEF Schedule
<1>3. ASSUME NEW j \in Ids, NEW t \in Times, NEW b \in Bodies, p \in Reqs, Patch(p, j, t, b)
      PROVE  Kept /\ at'[p] = j /\ store[j] \in Records /\ copy'[p].attempts = store[j].attempts
  <2>1. /\ store' = store /\ batch' = batch
        /\ at'[p] = j /\ copy'[p] = [store[j] EXCEPT !.sendAt = t, !.body = b]
        /\ store[j] \in Records
    BY <1>3 DEF Patch, Hold, TypeOK
  <2>2. copy'[p].attempts = store[j].attempts
    BY <2>1, AttemptsKept
  <2>3. QED
    BY <2>1, <2>2
<1>4. CASE PutCheck(p) \/ PutCount(p) \/ PutWrite(p)
  <2>1. Kept /\ (Gone \/ Same)
    BY <1>4 DEF PutCheck, PutCount, PutWrite, PutFails, Goto, Hold, Done, TypeOK
  <2>2. QED
    BY <1>0, <2>1
<1>5. CASE p = Drain /\ (SmtpRefuse \/ SmtpReply)
  <2>1. at[p] \in Ids /\ copy[p] \in Records
    BY <1>5 DEF SmtpRefuse, SmtpReply, Stepping
  <2>2. \/ Same
        \/ at'[p] = at[p] /\ copy'[p] = Counted(copy[p]) /\ tries'[at[p]] = tries[at[p]] + 1
    BY <1>5, <2>1 DEF SmtpRefuse, SmtpReply, SendFailed, Goto, Hold, TypeOK
  <2>3. Kept
    BY <1>5 DEF SmtpRefuse, SmtpReply
  <2>4. QED
    BY <2>1, <2>2, <2>3
<1>6. CASE p = Drain /\ (SmtpAccept \/ SentDelete \/ Abandon)
  <2>1. Kept /\ (Gone \/ Same)
    BY <1>6 DEF SmtpAccept, SentDelete, Abandon, Goto, Hold, Done, TypeOK
  <2>2. QED
    BY <1>0, <2>1
<1>7. ASSUME NEW j \in Ids, p = Drain, Fire(j) \/ SkipUnreadable(j)
      PROVE  Kept /\ (Same \/ (at'[p] = j /\ batch[j] # NoRecord /\ copy'[p] = batch[j]))
  <2>1. CASE Fire(j)
    BY <1>7, <2>1 DEF Fire, Listed, Hold, TypeOK
  <2>2. CASE SkipUnreadable(j)
    BY <1>7, <2>2 DEF SkipUnreadable, TypeOK
  <2>3. QED
    BY <1>7, <2>1, <2>2
<1>8. QED
  BY <1>0, <1>1, <1>2, <1>3, <1>4, <1>5, <1>6, <1>7 DEF Local

\* Whoever stores or counts a record has the count of its copy.
LEMMA BudgetStep == Sound /\ Budget /\ [Next]_vars => Budget'
<1> SUFFICES ASSUME Sound, Budget, [Next]_vars, NEW i \in Ids
             PROVE  /\ store'[i] # NoRecord => store'[i].attempts <= tries'[i]
                    /\ batch'[i] # NoRecord => batch'[i].attempts <= tries'[i]
                    /\ \A q \in Procs : at'[q] = i /\ copy'[q] # NoRecord => copy'[q].attempts <= tries'[i]
  BY DEF Budget
<1> USE DEF Sound
<1>1. tries[i] \in Nat /\ tries'[i] \in Nat /\ tries'[i] >= tries[i]
  BY ReasonsStay
<1>2. \A r \in Records : r.attempts \in Nat
  BY AttemptsKept
<1>3. ASSUME NEW r \in Records, r.attempts <= tries[i]
      PROVE  r.attempts <= tries'[i]
  BY <1>1, <1>2, <1>3
<1>4. CASE Global
  <2>1. batch'[i] = batch[i] \/ batch'[i] = store[i] \/ batch'[i] = NoRecord
    BY <1>4 DEF Global, ListDue, EndPass, Boot, Stop, Crash, Stopped, Tick, Die, NoBatch, vars,
                procVars, TypeOK
  <2>2. store'[i] = store[i]
    BY <1>4, GlobalEffects
  <2>3. QED
    BY <1>3, <1>4, <2>1, <2>2, GlobalFrame, ScheduleAssumption DEF Budget, TypeOK
<1>5. ASSUME NEW p \in Procs, Local(p)
      PROVE  /\ store'[i] # NoRecord => store'[i].attempts <= tries'[i]
             /\ batch'[i] # NoRecord => batch'[i].attempts <= tries'[i]
             /\ \A q \in Procs : at'[q] = i /\ copy'[q] # NoRecord => copy'[q].attempts <= tries'[i]
  <2>1. /\ store'[i] # NoRecord => store'[i].attempts <= tries'[i]
        /\ batch'[i] # NoRecord => batch'[i].attempts <= tries'[i]
    BY <1>3, <1>5, LocalCopies DEF Budget, TypeOK
  <2>2. ASSUME at'[p] = i, copy'[p] # NoRecord
        PROVE  copy'[p].attempts <= tries'[i]
    <3>1. CASE at[p] = i /\ copy[p] \in Records /\ copy'[p] = Counted(copy[p]) /\ tries'[i] = tries[i] + 1
      <4>1. copy[p].attempts <= tries[i]
        BY <3>1, ScheduleAssumption DEF Budget
      <4>2. QED
        BY <1>1, <3>1, <4>1, AttemptsKept
    <3>2. CASE ~(at[p] = i /\ copy[p] \in Records /\ copy'[p] = Counted(copy[p]) /\ tries'[i] = tries[i] + 1)
      BY <1>1, <1>3, <1>5, <2>2, <3>2, LocalCopies, ScheduleAssumption DEF Budget, TypeOK
    <3>3. QED
      BY <3>1, <3>2
  <2>3. ASSUME NEW q \in Procs \ {p}, at'[q] = i, copy'[q] # NoRecord
        PROVE  copy'[q].attempts <= tries'[i]
    BY <1>3, <1>5, <2>3, LocalFrame DEF Budget, TypeOK
  <2>4. QED
    BY <2>1, <2>2, <2>3
<1>6. QED
  BY <1>4, <1>5, LocalOrGlobal

\* The drain comes to delete a record from an accepted delivery, a spent budget, a body
\* that cannot be built or a Put that failed.
LEMMA DisposingStep == Sound /\ Budget /\ Disposing /\ [Next]_vars => Disposing'
<1> SUFFICES ASSUME Sound, Budget, Disposing, [Next]_vars
             PROVE  Disposing'
  OBVIOUS
<1> USE DEF Sound
<1>0. Drain \in Procs /\ Drain \notin Reqs /\ TypeOK'
  BY TypeStep, ScheduleAssumption DEF Procs
<1>1. CASE pc'[Drain] = pc[Drain] /\ at'[Drain] = at[Drain]
  BY <1>0, <1>1, ReasonsStay DEF Disposing, Stepping
<1>2. CASE Global
  BY <1>0, <1>1, <1>2, GlobalFrame DEF Disposing
<1>3. ASSUME NEW p \in Procs, Local(p), p # Drain
      PROVE  Disposing'
  BY <1>0, <1>1, <1>3, LocalFrame
<1>4. CASE PutCheck(Drain) \/ PutCount(Drain) \/ PutWrite(Drain)
  <2>1. \/ pc'[Drain] \notin {"accepted", "delete", "abandon"}
        \/ pc'[Drain] = "abandon" /\ at'[Drain] = at[Drain] /\ at[Drain] \in refused'
    BY <1>0, <1>4 DEF PutCheck, PutCount, PutWrite, PutFails, Goto, Hold, Done, TypeOK
  <2>2. QED
    BY <2>1 DEF Disposing, Reason
<1>5. CASE SmtpRefuse \/ SmtpReply
  <2>1. at[Drain] \in Ids /\ copy[Drain] \in Records
    BY <1>0, <1>5 DEF SmtpRefuse, SmtpReply, Stepping
  <2>2. CASE SendFailed
    <3>1. copy[Drain].attempts <= tries[at[Drain]] /\ tries[at[Drain]] \in Nat
      BY <1>0, <2>1, ScheduleAssumption DEF Budget, TypeOK
    <3>2. /\ at'[Drain] = at[Drain] /\ tries'[at[Drain]] = tries[at[Drain]] + 1
          /\ \/ pc'[Drain] = "abandon" /\ Spent(Counted(copy[Drain]))
             \/ pc'[Drain] = "check"
      BY <1>0, <2>1, <2>2, Zenon DEF SendFailed, Hold, TypeOK
    <3>3. pc'[Drain] = "abandon" => tries'[at[Drain]] >= MaxAttempts
      BY <2>1, <3>1, <3>2, AttemptsKept, ScheduleAssumption DEF Spent
    <3>4. QED
      BY <3>2, <3>3 DEF Disposing, Reason
  <2>3. CASE SmtpReply /\ Goto(Drain, AfterSent)
    <3>1. /\ delivered[at[Drain]] > 0 /\ at'[Drain] = at[Drain] /\ delivered' = delivered
          /\ pc'[Drain] = "delete"
      BY <1>0, <2>3 DEF SmtpReply, Disposing, Goto, AfterSent, TypeOK
    <3>2. QED
      BY <3>1 DEF Disposing
  <2>4. QED
    BY <1>5, <2>2, <2>3 DEF SmtpRefuse, SmtpReply
<1>6. CASE SmtpAccept
  <2>1. /\ at[Drain] \in Ids /\ at'[Drain] = at[Drain] /\ pc'[Drain] = "accepted"
        /\ delivered'[at[Drain]] = delivered[at[Drain]] + 1 /\ delivered[at[Drain]] \in Nat
    BY <1>0, <1>6 DEF SmtpAccept, Goto, Stepping, TypeOK
  <2>2. QED
    BY <2>1 DEF Disposing
<1>7. CASE SentDelete \/ Abandon
  BY <1>0, <1>7 DEF SentDelete, Abandon, Done, Hold, TypeOK, Disposing
<1>8. ASSUME NEW i \in Ids, Fire(i)
      PROVE  Disposing'
  <2>1. \/ pc'[Drain] = "send"
        \/ pc'[Drain] = "abandon" /\ at'[Drain] = i /\ i \in refused'
    BY <1>0, <1>8 DEF Fire, AfterBuild, Hold, TypeOK
  <2>2. QED
    BY <2>1 DEF Disposing, Reason
<1>9. ASSUME NEW i \in Ids, SkipUnreadable(i)
      PROVE  Disposing'
  BY <1>1, <1>9 DEF SkipUnreadable
<1>10. QED
  BY <1>0, <1>2, <1>3, <1>4, <1>5, <1>6, <1>7, <1>8, <1>9, LocalOrGlobal DEF Local

\* What takes a record out of the store, and what acknowledges one.
LEMMA Removals ==
  ASSUME TypeOK, Stepping, [Next]_vars, NEW i \in Ids
  PROVE  /\ store[i] # NoRecord /\ store'[i] = NoRecord =>
              \/ i \in cancelled'
              \/ at[Drain] = i /\ pc[Drain] \in {"delete", "abandon"}
         /\ i \in created' /\ i \notin created => store'[i] # NoRecord
<1> USE ScheduleAssumption DEF TypeOK
<1>1. CASE Global
  BY <1>1, GlobalEffects
<1>2. ASSUME NEW p \in Procs, Local(p)
      PROVE  /\ store[i] # NoRecord /\ store'[i] = NoRecord =>
                  \/ i \in cancelled'
                  \/ at[Drain] = i /\ pc[Drain] \in {"delete", "abandon"}
             /\ i \in created' /\ i \notin created => store'[i] # NoRecord
  <2>1. CASE PutWrite(p)
    BY <2>1 DEF PutWrite, Stepping, PutSteps
  <2>2. CASE CancelDelete(p)
    BY <2>2 DEF CancelDelete
  <2>3. CASE SentDelete \/ Abandon
    BY <2>3 DEF SentDelete, Abandon, obsVars
  <2>4. CASE ~PutWrite(p) /\ ~CancelDelete(p) /\ ~SentDelete /\ ~Abandon
    <3>1. store' = store /\ created' = created
      BY <1>2, <2>4, Zenon
         DEF Local, CancelFind, Schedule, Patch, PutCheck, PutCount, SmtpRefuse, SmtpAccept,
             SmtpReply, Fire, SkipUnreadable, obsVars
    <3>2. QED
      BY <3>1
  <2>5. QED
    BY <2>1, <2>2, <2>3, <2>4
<1>3. QED
  BY <1>1, <1>2, LocalOrGlobal

\* A record that is gone had a reason to go, and keeps it.
LEMMA DroppedStep == Sound /\ Disposing /\ NotDropped /\ [Next]_vars => NotDropped'
<1> SUFFICES ASSUME Sound, Disposing, NotDropped, [Next]_vars,
                    NEW i \in created', store'[i] = NoRecord
             PROVE  Reason(i)'
  BY DEF NotDropped, Reason
<1> USE DEF Sound
<1>1. i \in Ids
  BY TypeStep DEF TypeOK
<1>2. i \in created
  BY <1>1, Removals
<1>3. CASE store[i] = NoRecord
  BY <1>1, <1>2, <1>3, ReasonsStay DEF NotDropped, Reason
<1>4. CASE store[i] # NoRecord
  <2>1. i \in cancelled' \/ Reason(i)
    BY <1>1, <1>4, Removals DEF Disposing, Reason
  <2>2. QED
    BY <1>1, <2>1, ReasonsStay DEF Reason
<1>5. QED
  BY <1>3, <1>4

\* RecordsAreKept: through any interleaving of POST, PATCH, DELETE and the drain, with
\* store errors, failed sends, crashes and restarts, a record that was acknowledged leaves
\* the store only delivered, cancelled, refused or after its whole budget of sends, and a
\* cancel that nobody raced is the last of it.
THEOREM AcceptedRecordsKept == Spec => []RecordsAreKept
<1>1. Init => Sound /\ QuietCancelIsFinal /\ Keeping
  <2>1. Init => Keeping
    BY ScheduleAssumption DEF Init, Keeping, Budget, Disposing, NotDropped, NoBatch, Procs
  <2>2. QED
    BY <2>1, InitSound
<1>2. Sound /\ QuietCancelIsFinal /\ Keeping /\ [Next]_vars
        => Sound' /\ QuietCancelIsFinal' /\ Keeping'
  BY TypeStep, SteppingStep, MakersStep, KnownStep, QuietStep, BudgetStep, DisposingStep, DroppedStep
     DEF Sound, Keeping
<1>3. QuietCancelIsFinal /\ Keeping => RecordsAreKept
  BY DEF Keeping, RecordsAreKept
<1>4. QED
  BY <1>1, <1>2, <1>3, PTL DEF Spec

-----------------------------------------------------------------------------
(* Duplicates, as long as nobody edits *)

\* A record under construction stays with its maker.
LEMMA FreshStep == Sound /\ Fresh /\ [Next]_vars => Fresh'
<1> SUFFICES ASSUME Sound, Fresh, [Next]_vars, NEW r \in making'
             PROVE  at'[r] \notin created' /\ \A q \in Procs : q # r => at'[q] # at'[r]
  BY TypeStep DEF Fresh
<1> USE DEF Sound
<1>1. r \in Reqs /\ r \in Procs /\ r # Drain
  BY TypeStep, ScheduleAssumption DEF TypeOK, Procs
<1>2. CASE Global
  <2>1. r \in making /\ at'[r] = at[r] /\ at[r] \in Ids
    BY <1>1, <1>2, GlobalFrame DEF Makers, Stepping, PutSteps, Procs
  <2>2. created' = created
    BY <1>2, <2>1, GlobalEffects
  <2>3. \A q \in Procs : at'[q] = at[q] \/ at'[q] = NoRecord
    BY <1>2, GlobalFrame
  <2>4. QED
    BY <2>1, <2>2, <2>3, ScheduleAssumption DEF Fresh
<1>3. ASSUME NEW p \in Procs, Local(p)
      PROVE  at'[r] \notin created' /\ \A q \in Procs : q # r => at'[q] # at'[r]
  <2>1. created' \subseteq created \cup {at[p]}
    BY <1>3, Zenon DEF Local, CancelFind, Schedule, Patch, CancelDelete, PutCheck, PutCount, PutWrite,
                PutFails, SmtpRefuse, SmtpAccept, SmtpReply, SendFailed, SentDelete, Abandon, Fire,
                SkipUnreadable, obsVars
  <2>2. CASE p # r
    <3>1. r \in making /\ at'[r] = at[r] /\ at[r] \in Ids
      BY <1>1, <1>3, <2>2, LocalFrame DEF Makers, Stepping
    <3>2. at[p] # at[r]
      BY <2>2, <3>1 DEF Fresh
    <3>3. at[r] \notin created /\ store[at[r]] = NoRecord /\ batch[at[r]] = NoRecord
      BY <3>1 DEF Fresh, Known
    <3>4. at'[p] # at[r]
      BY <1>1, <1>3, <3>1, <3>2, <3>3, LocalEffects DEF Unused
    <3>5. \A q \in Procs \ {p, r} : at'[q] # at[r]
      BY <1>3, <3>1, LocalFrame DEF Fresh
    <3>6. QED
      BY <2>1, <3>1, <3>2, <3>3, <3>4, <3>5
  <2>3. CASE p = r
    <3>1. created' = created /\ at'[r] \in Ids
      BY <1>1, <1>3, <2>3, MakersStep, SteppingStep, ScheduleAssumption
         DEF Local, CancelFind, Schedule, Patch, CancelDelete, PutCheck, PutCount, PutWrite,
             PutFails, Done, obsVars, Makers, Stepping
    <3>2. \/ at[r] = at'[r] /\ r \in making
          \/ Unused(at'[r])
      BY <1>1, <1>3, <2>3, <3>1, LocalEffects
    <3>3. \A q \in Procs \ {r} : at'[q] = at[q]
      BY <1>3, <2>3, LocalFrame
    <3>4. QED
      BY <1>1, <3>1, <3>2, <3>3 DEF Fresh, Unused
  <2>4. QED
    BY <2>2, <2>3
<1>4. QED
  BY <1>2, <1>3, LocalOrGlobal

\* The drain takes a record off its list when it fires it.
LEMMA FiringStep == Sound /\ Firing /\ [Next]_vars => Firing'
<1> SUFFICES ASSUME Sound, Firing, [Next]_vars
             PROVE  Firing'
  OBVIOUS
<1> USE DEF Sound
<1>0. Drain \in Procs
  BY DEF Procs
<1>1. pc'[Drain] \in {"idle", "next"} => at'[Drain] = NoRecord
  <2>1. CASE Global
    BY <1>0, <2>1 DEF Global, ListDue, EndPass, Boot, Stop, Tick, Crash, Stopped, Die, vars, procVars,
                      Goto, Firing, TypeOK
  <2>2. ASSUME NEW p \in Procs, Local(p), p # Drain
        PROVE  pc'[Drain] = pc[Drain] /\ at'[Drain] = at[Drain]
    BY <1>0, <2>2, LocalFrame
  <2>3. CASE Local(Drain)
    BY <1>0, <2>3, ScheduleAssumption
       DEF Local, PutCheck, PutCount, PutWrite, PutFails, SmtpRefuse, SmtpAccept, SmtpReply,
           SendFailed, SentDelete, Abandon, Fire, SkipUnreadable, AfterBuild, AfterSent, Goto, Hold,
           Done, TypeOK, Firing
  <2>4. QED
    BY <2>1, <2>2, <2>3, LocalOrGlobal DEF Firing
<1>2. ASSUME NEW i \in Ids, at'[Drain] = i
      PROVE  batch'[i] = NoRecord
  <2>1. CASE Global
    <3>1. at[Drain] = i
      BY <1>0, <1>2, <2>1, GlobalFrame, ScheduleAssumption
    <3>2. ~ListDue
      BY <3>1, ScheduleAssumption DEF ListDue, Firing
    <3>3. batch' = batch \/ batch' = NoBatch
      BY <2>1, <3>2 DEF Global, EndPass, Boot, Stop, Tick, Crash, Stopped, Die, vars, procVars
    <3>4. QED
      BY <3>1, <3>3 DEF Firing, NoBatch
  <2>2. ASSUME NEW p \in Procs, Local(p)
        PROVE  batch'[i] = NoRecord
    <3>1. CASE at[Drain] = i
      BY <2>2, <3>1, LocalEffects DEF Firing
    <3>2. CASE at[Drain] # i
      <4>1. p = Drain
        BY <1>0, <1>2, <2>2, <3>2, LocalFrame
      <4>2. QED
        BY <1>2, <2>2, <3>2, <4>1, LocalEffects, ScheduleAssumption
    <3>3. QED
      BY <3>1, <3>2
  <2>3. QED
    BY <2>1, <2>2, LocalOrGlobal
<1>3. QED
  BY <1>1, <1>2 DEF Firing

\* Without PATCH, a request holds a copy only while it makes the record.
LEMMA NoEditsStep ==
  ASSUME ~Patching
  PROVE  Sound /\ NoEdits /\ [Next]_vars => NoEdits'
<1> SUFFICES ASSUME Sound, NoEdits, [Next]_vars, NEW r \in Reqs, r \notin making'
             PROVE  copy'[r] = NoRecord
  BY DEF NoEdits
<1> USE DEF Sound
<1>0. r \in Procs
  BY DEF Procs
<1>1. CASE Global
  BY <1>0, <1>1, GlobalFrame DEF NoEdits
<1>2. ASSUME NEW p \in Procs, Local(p), p # r
      PROVE  copy'[r] = NoRecord
  BY <1>0, <1>2, LocalFrame DEF NoEdits
<1>3. CASE Local(r)
  BY <1>0, <1>3, ScheduleAssumption
     DEF Local, CancelFind, Schedule, Patch, CancelDelete, PutCheck, PutCount, PutWrite, PutFails,
         Goto, Hold, Done, TypeOK, NoEdits
<1>4. QED
  BY <1>1, <1>2, <1>3, LocalOrGlobal

\* No step brings a record about, except that a request makes a new one.
LEMMA AtLargeStep ==
  ASSUME Sound, [Next]_vars, NEW i \in Ids, AtLarge(i)'
  PROVE  AtLarge(i) \/ Unused(i)
<1> USE DEF Sound
<1>1. CASE Global
  BY <1>1, GlobalFrame, GlobalEffects, ScheduleAssumption DEF AtLarge, Held
<1>2. ASSUME NEW p \in Procs, Local(p)
      PROVE  AtLarge(i) \/ Unused(i)
  <2>1. CASE store'[i] # NoRecord \/ batch'[i] # NoRecord
    BY <1>2, <2>1, LocalEffects DEF AtLarge, Held
  <2>2. ASSUME NEW q \in Procs, at'[q] = i, copy'[q] # NoRecord
        PROVE  AtLarge(i) \/ Unused(i)
    <3>1. CASE q = p
      BY <1>2, <2>2, <3>1, LocalEffects DEF AtLarge, Held
    <3>2. CASE q # p
      BY <1>2, <2>2, <3>2, LocalFrame DEF AtLarge, Held
    <3>3. QED
      BY <3>1, <3>2
  <2>3. QED
    BY <2>1, <2>2 DEF AtLarge, Held
<1>3. QED
  BY <1>1, <1>2, LocalOrGlobal

\* The steps that move the account of the deliveries.
Settling == SmtpAccept \/ SmtpReply \/ SentDelete \/ Crash

\* No other step moves it, or parts the drain from a record it has sent.
LEMMA SettledFrame ==
  ASSUME Sound, [Next]_vars, ~Settling
  PROVE  /\ delivered' = delivered /\ excuses' = excuses
         /\ created \subseteq created'
         /\ \A i \in Ids : Sent(i) => Sent(i)'
<1> USE DEF Sound
<1>0. Drain \in Procs
  BY DEF Procs
<1>1. CASE Global
  <2>1. delivered' = delivered /\ excuses' = excuses /\ created' = created
    BY <1>1 DEF Settling, Global, ListDue, EndPass, Boot, Stop, Stopped, Tick, Die, vars, obsVars
  <2>2. ASSUME NEW i \in Ids, Sent(i)
        PROVE  Sent(i)'
    <3>1. ~ListDue /\ ~EndPass /\ ~Stopped
      BY <1>0, <2>2 DEF ListDue, EndPass, Stopped, Sent
    <3>2. procVars' = procVars
      BY <1>1, <3>1 DEF Settling, Global, Boot, Stop, Tick, vars
    <3>3. QED
      BY <2>2, <3>2 DEF procVars, Sent
  <2>3. QED
    BY <2>1, <2>2
<1>2. ASSUME NEW p \in Procs, Local(p)
      PROVE  /\ delivered' = delivered /\ excuses' = excuses
             /\ created \subseteq created'
             /\ \A i \in Ids : Sent(i) => Sent(i)'
  <2>1. delivered' = delivered /\ excuses' = excuses
    BY <1>2, Zenon
       DEF Settling, Local, CancelFind, Schedule, Patch, CancelDelete, PutCheck, PutCount, PutWrite,
           SmtpRefuse, Abandon, Fire, SkipUnreadable, obsVars
  <2>2. created \subseteq created'
    BY <1>2, LocalEffects DEF TypeOK
  <2>3. ASSUME NEW i \in Ids, Sent(i)
        PROVE  Sent(i)'
    <3>1. CASE p = Drain
      BY <1>2, <2>3, <3>1, ScheduleAssumption
         DEF Settling, Local, PutCheck, PutCount, PutWrite, SmtpRefuse, Abandon, Fire,
             SkipUnreadable, Sent
    <3>2. CASE p # Drain
      BY <1>0, <1>2, <2>3, <3>2, LocalFrame DEF Sent
    <3>3. QED
      BY <3>1, <3>2
  <2>4. QED
    BY <2>1, <2>2, <2>3
<1>3. QED
  BY <1>1, <1>2, LocalOrGlobal

\* The four steps that settle a record leave the account of the others alone.
LEMMA SettlingEffects ==
  ASSUME TypeOK, Stepping, Settling
  PROVE  /\ \A i \in Ids : at[Drain] # i => delivered'[i] = delivered[i] /\ excuses'[i] = excuses[i]
         /\ created' = created
<1>1. CASE SmtpAccept \/ SmtpReply \/ SentDelete
  BY <1>1 DEF SmtpAccept, SmtpReply, SentDelete, SendFailed, Goto, obsVars, TypeOK, Stepping, Crash, Die
<1>2. CASE Crash
  BY <1>2 DEF Crash, Die, TypeOK
<1>3. QED
  BY <1>1, <1>2 DEF Settling

\* Every delivery but the last of a record was excused, whatever the step.
LEMMA ExcusedStep ==
  ASSUME ~Patching
  PROVE  Sound /\ Fresh /\ Firing /\ NoEdits /\ Excused /\ [Next]_vars => Excused'
<1> SUFFICES ASSUME Sound, Fresh, Firing, NoEdits, Excused, [Next]_vars, NEW i \in Ids
             PROVE  /\ delivered'[i] <= 1 + excuses'[i]
                    /\ i \notin created' => delivered'[i] = 0
                    /\ AtLarge(i)' /\ ~Sent(i)' => delivered'[i] <= excuses'[i]
  BY DEF Excused
<1>0. /\ delivered[i] \in Nat /\ excuses[i] \in Nat
      /\ Drain \in Procs /\ Drain \notin making
      /\ Unused(i) => delivered[i] = 0
  BY ScheduleAssumption DEF Sound, TypeOK, Procs, Unused, Excused
<1>1. CASE ~Settling
  <2>1. delivered' = delivered /\ excuses' = excuses /\ created \subseteq created' /\ (Sent(i) => Sent(i)')
    BY <1>1, SettledFrame
  <2>2. AtLarge(i)' => AtLarge(i) \/ Unused(i)
    BY AtLargeStep
  <2>3. QED
    BY <1>0, <2>1, <2>2 DEF Excused
<1>2. CASE Settling /\ at[Drain] # i
  <2>1. delivered'[i] = delivered[i] /\ excuses'[i] = excuses[i] /\ created' = created
    BY <1>2, SettlingEffects DEF Sound
  <2>2. AtLarge(i)' => AtLarge(i) \/ Unused(i)
    BY AtLargeStep
  <2>3. ~Sent(i)
    BY <1>2 DEF Sent
  <2>4. QED
    BY <1>0, <2>1, <2>2, <2>3 DEF Excused
<1>3. CASE SmtpAccept /\ at[Drain] = i
  <2>1. /\ AtLarge(i) /\ ~Sent(i) /\ i \in created
    BY <1>0, <1>3, ScheduleAssumption DEF SmtpAccept, Sent, AtLarge, Held, Sound, Known, Stepping
  <2>2. /\ delivered'[i] = delivered[i] + 1 /\ excuses' = excuses /\ created' = created
        /\ Sent(i)'
    BY <1>0, <1>3 DEF SmtpAccept, Goto, obsVars, Sound, TypeOK, Sent
  <2>3. QED
    BY <1>0, <2>1, <2>2 DEF Excused
<1>4. CASE (SmtpReply \/ SentDelete \/ Crash) /\ at[Drain] = i
  <2>1. delivered'[i] = delivered[i] /\ created' = created
    BY <1>4 DEF SmtpReply, SentDelete, SendFailed, Crash, Die
  <2>2. \/ excuses'[i] = excuses[i] + 1
        \/ excuses'[i] = excuses[i] /\ (Sent(i)' \/ ~AtLarge(i)' \/ ~Sent(i))
    <3>1. CASE SmtpReply
      BY <1>0, <1>4, <3>1 DEF SmtpReply, AfterSent, Goto, Sent, Sound, TypeOK
    <3>2. CASE Crash
      BY <3>2 DEF Crash, Sent
    <3>3. CASE SentDelete
      <4>1. CASE excuses' = excuses /\ store' = [store EXCEPT ![at[Drain]] = NoRecord]
        <5>1. store'[i] = NoRecord /\ batch'[i] = NoRecord
          BY <1>4, <3>3, <4>1 DEF SentDelete, Firing, Sound, TypeOK
        <5>2. at'[Drain] # i
          BY <1>0, <3>3, ScheduleAssumption DEF SentDelete, Done, Hold, Sound, TypeOK
        <5>3. ASSUME NEW r \in Reqs, at'[r] = i
              PROVE  copy'[r] = NoRecord
          <6>1. r \in Procs /\ r # Drain
            BY ScheduleAssumption DEF Procs
          <6>2. at[r] = i /\ copy'[r] = copy[r]
            BY <3>3, <5>3, <6>1 DEF SentDelete, Done, Hold, Sound, TypeOK
          <6>3. r \notin making
            BY <1>0, <1>4, <6>1, <6>2 DEF Fresh
          <6>4. QED
            BY <6>2, <6>3 DEF NoEdits
        <5>4. ~AtLarge(i)'
          BY <5>1, <5>2, <5>3 DEF AtLarge, Held, Procs
        <5>5. QED
          BY <4>1, <5>4
      <4>2. CASE excuses' = [excuses EXCEPT ![at[Drain]] = @ + 1]
        BY <1>4, <4>2 DEF Sound, TypeOK
      <4>3. QED
        BY <3>3, <4>1, <4>2 DEF SentDelete
    <3>4. QED
      BY <1>4, <3>1, <3>2, <3>3
  <2>3. i \in created /\ (AtLarge(i)' => AtLarge(i) \/ Unused(i))
    BY <1>0, <1>4, AtLargeStep DEF Sound, Known
  <2>4. QED
    BY <1>0, <2>1, <2>2, <2>3 DEF Excused
<1>5. QED
  BY <1>1, <1>2, <1>3, <1>4 DEF Settling

LEMMA InitExcused == Init => Fresh /\ Firing /\ NoEdits /\ Excused
BY ScheduleAssumption
   DEF Init, Fresh, Firing, NoEdits, Excused, AtLarge, Held, NoBatch, Procs

\* DuplicatesExcused: while nobody edits records, a message is delivered once, and once
\* more for every time the drain could not take note of a delivery: fire deletes what it
\* has sent before it turns to the next record.
THEOREM DuplicatesAccounted ==
  ASSUME ~Patching
  PROVE  Spec => []DuplicatesExcused
<1> DEFINE Account == Sound /\ Fresh /\ Firing /\ NoEdits /\ Excused
<1>1. Init => Account
  BY InitSound, InitExcused
<1>2. Account /\ [Next]_vars => Account'
  <2>1. Sound /\ [Next]_vars => Sound'
    BY TypeStep, SteppingStep, MakersStep, KnownStep DEF Sound
  <2>2. QED
    BY <2>1, FreshStep, FiringStep, NoEditsStep, ExcusedStep
<1>3. Account => DuplicatesExcused
  BY DEF Excused, DuplicatesExcused
<1> HIDE DEF Account
<1>4. QED
  BY <1>1, <1>2, <1>3, PTL DEF Spec

=============================================================================

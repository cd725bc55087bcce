---------------------------- MODULE MailTasksProofs ----------------------------
(* The safety of the background work on new mail: the inductive invariant of    *)
(* MailTasks, for any number of messages, mailboxes, workers and attempts.      *)
EXTENDS MailTasks, TLAPS, FiniteSetTheorems

-----------------------------------------------------------------------------
(* The invariant *)

Notice(m) == <<m, "notification">>
Limit(t) == MaxAttempts[t[2]]

\* The steps of a notification before its text is accepted, and the moment a worker has done
\* what its task asks for.
Before == {"begin", "choose", "save", "send"}
Done(w) == pc[w] = "settle" /\ end[w] = "ready"

\* A worker is at a task exactly while it is not idle, and at one of its lane.
AtItsLane(w) ==
  /\ pc[w] = "idle" <=> job[w] = NoTask
  /\ job[w] # NoTask => LaneOf(job[w]) = Lane[w]
  /\ pc[w] \in {"body", "record"} => Lane[w] = "ai"
  /\ pc[w] \in {"choose", "save", "send", "accepted"} => Lane[w] = "notification"

\* A worker that still has its lease works within the attempts; one that began beyond them only
\* settles the failure.
WithinLimit(w) ==
  Owns(w) => \/ row[job[w]].attempts <= Limit(job[w])
             \/ pc[w] = "settle" /\ end[w] = "permanent"

\* A worker that reports success has what it reports, unless the mail is gone.
HasResult(w) ==
  job[w] # NoTask =>
    /\ pc[w] = "record" \/ Done(w) =>
         (job[w][2] = "analysis" => \/ job[w][1] \in summary \cup redoing
                                    \/ row[job[w]].status = "gone")
    /\ pc[w] = "accepted" \/ Done(w) =>
         (job[w][2] = "notification" => sent[job[w][1]] # {})

\* The text a worker holds is the one frozen in the row; whoever has to choose one and can still
\* save it finds none in the row; and what it is about to send is all that was ever sent.
HoldsText(w) ==
  /\ pc[w] \in {"begin", "choose", "send"} /\ note[w] # "none" =>
       row[job[w]].status = "gone" \/ row[job[w]].payload = note[w]
  /\ pc[w] \in {"begin", "choose"} /\ note[w] = "none" /\ Owns(w) => row[job[w]].payload = "none"
  /\ pc[w] = "save" => note[w] # "none" /\ (Owns(w) => row[job[w]].payload = "none")
  /\ pc[w] = "send" => note[w] # "none" /\ \A x \in sent[job[w][1]] : x = note[w]

WorkerIsSound(w) == AtItsLane(w) /\ WithinLimit(w) /\ HasResult(w) /\ HoldsText(w)

\* Those who are about to send the text of one mail hold the same one, even after it is deleted.
SendersAgree ==
  \A v, w \in Workers : pc[v] = "send" /\ pc[w] = "send" /\ job[v] = job[w] => note[v] = note[w]

\* A row is held exactly while it runs, its attempts are the executions up to the limit, and a
\* result that is ready is there.
RowIsSound(t) ==
  /\ row[t].status = "none" => row[t] = Nothing
  /\ row[t].holder # NoWorker <=> row[t].status = "running"
  /\ runs[t] = IF row[t].attempts <= Limit(t) THEN row[t].attempts ELSE Limit(t)
  /\ row[t].status = "failed" => t \in hopeless \/ runs[t] = Limit(t)
  /\ row[t].status = "ready" /\ t[2] = "analysis" => t[1] \in summary \cup redoing
  /\ row[t].status = "ready" /\ t[2] = "notification" => sent[t[1]] # {}

\* The texts that were accepted are one, and the row has it while the mail is there.
TextIsFrozen(m) ==
  /\ \A x, y \in sent[m] : x = y
  /\ "none" \notin sent[m]
  /\ \A t \in Tasks : t = Notice(m) =>
       \A x \in sent[m] : row[t].status = "gone" \/ row[t].payload = x

\* The workers that may yet deliver the notification of a mail, and whether one delivery is owed
\* or recorded: a worker under a live lease is delivering it, it is ready, or the mail is gone.
MayDeliver(m) == {w \in Workers : job[w] = Notice(m) /\ pc[w] \in Before}
IsDelivering(w, t) == /\ job[w] = t /\ row[t].holder = w /\ Live(t)
                      /\ pc[w] \in Before \cup {"accepted"} \/ Done(w)
Accounted(m) ==
  \E t \in Tasks : /\ t = Notice(m)
                   /\ row[t].status \in {"ready", "gone"} \/ \E w \in Workers : IsDelivering(w, t)

\* Accepted notifications, with those that may follow, exceed the excused ones by no more than
\* the one that is accounted for.
DeliveriesAreExcused(m) ==
  /\ IsFiniteSet(MayDeliver(m))
  /\ surplus[m] + Cardinality(MayDeliver(m)) <= IF Accounted(m) THEN 1 ELSE 0

MailIsSound(m) == TextIsFrozen(m) /\ DeliveriesAreExcused(m)

\* The AI tasks under live leases.
LiveAI == {t \in Tasks : t[2] \in AITypes /\ Live(t)}
Capped == IsFiniteSet(LiveAI) /\ Cardinality(LiveAI) <= MaxAI

TasksInv ==
  /\ TypeOK /\ SendersAgree /\ Capped
  /\ \A w \in Workers : WorkerIsSound(w)
  /\ \A t \in Tasks : RowIsSound(t)
  /\ \A m \in Messages : MailIsSound(m)

-----------------------------------------------------------------------------
(* Tasks and workers *)

LEMMA TaskForm ==
  /\ \A t \in Tasks : t[1] \in Messages /\ t[2] \in AITypes \cup {"notification"} /\ t[2] \in Types[t[1]]
  /\ \A m \in Messages : \A k \in Types[m] : <<m, k>> \in Tasks
  /\ \A t \in Tasks : Limit(t) \in Nat /\ Limit(t) # 0
BY MailTasksAssumption DEF MailTasksAssumption, Tasks, Limit

LEMMA NoticeForm ==
  /\ \A m : Notice(m)[1] = m /\ Notice(m)[2] = "notification"
  /\ \A t \in Tasks : t[2] = "notification" => t = Notice(t[1])
  /\ \A t \in Tasks : \A m \in Messages : t = Notice(m) => t[1] = m /\ t[2] = "notification"
BY DEF Notice, Tasks

\* Only the workers of its lane are at a notification.
LEMMA Lanes ==
  ASSUME TypeOK, NEW w \in Workers, WorkerIsSound(w), job[w] # NoTask
  PROVE  /\ job[w] \in Tasks
         /\ Lane[w] = "ai" <=> job[w][2] \in AITypes
         /\ Lane[w] = "notification" => job[w] = Notice(job[w][1]) /\ job[w][2] = "notification"
<1>1. job[w] \in Tasks
  BY DEF TypeOK
<1>2. LaneOf(job[w]) = Lane[w]
  BY DEF WorkerIsSound, AtItsLane
<1>3. job[w][2] \in AITypes \cup {"notification"} /\ (job[w][2] = "notification" => job[w] = Notice(job[w][1]))
  BY <1>1, TaskForm, NoticeForm
<1>4. QED
  BY <1>1, <1>2, <1>3 DEF LaneOf, AITypes

\* What the steps of others do to a worker: a row that it no longer holds may change, a row it
\* holds keeps its attempts and text, a text once frozen stays until the mail is gone, a summary
\* stays until then, and texts are sent only as they are held.
LEMMA OthersKeep ==
  ASSUME TasksInv, NEW w \in Workers,
         pc'[w] = pc[w], job'[w] = job[w], note'[w] = note[w], end'[w] = end[w],
         job[w] # NoTask =>
           /\ row'[job[w]].holder = w => /\ row[job[w]].holder = w
                                         /\ row'[job[w]].attempts = row[job[w]].attempts
                                         /\ row'[job[w]].payload = row[job[w]].payload
           /\ row[job[w]].status = "gone" => row'[job[w]].status = "gone"
           /\ \/ row'[job[w]].status = "gone" \/ row'[job[w]].payload = row[job[w]].payload
              \/ row[job[w]].payload = "none"
           /\ \/ row'[job[w]].status = "gone"
              \/ job[w][1] \in summary \cup redoing => job[w][1] \in summary' \cup redoing'
           /\ sent[job[w][1]] \subseteq sent'[job[w][1]]
           /\ pc[w] = "send" => sent'[job[w][1]] \subseteq sent[job[w][1]] \cup {note[w]}
  PROVE  WorkerIsSound(w)'
<1>0. WorkerIsSound(w) /\ (pc[w] = "idle" <=> job[w] = NoTask)
  BY DEF TasksInv, WorkerIsSound, AtItsLane
<1>1. AtItsLane(w)'
  BY <1>0 DEF AtItsLane, WorkerIsSound
<1>2. WithinLimit(w)'
  BY <1>0 DEF WithinLimit, Owns, Limit, WorkerIsSound
<1>3. HasResult(w)'
  BY <1>0 DEF HasResult, Done, WorkerIsSound
<1>4. HoldsText(w)'
  <2>1. Owns(w)' => Owns(w)
    BY DEF Owns
  <2>2. HoldsText(w)
    BY <1>0 DEF WorkerIsSound
  <2>3. ASSUME pc[w] \in {"begin", "choose", "send"}, note[w] # "none"
        PROVE  row'[job[w]].status = "gone" \/ row'[job[w]].payload = note[w]
    BY <1>0, <2>2, <2>3 DEF HoldsText
  <2>4. ASSUME pc[w] \in {"begin", "choose", "save"}, note[w] = "none" \/ pc[w] = "save", Owns(w)'
        PROVE  row'[job[w]].payload = "none"
    BY <1>0, <2>1, <2>2, <2>4 DEF HoldsText, Owns
  <2>5. pc[w] = "save" \/ pc[w] = "send" => note[w] # "none"
    BY <2>2 DEF HoldsText
  <2>6. pc[w] = "send" => \A x \in sent'[job[w][1]] : x = note[w]
    BY <1>0, <2>2 DEF HoldsText
  <2>7. QED
    BY <2>3, <2>4, <2>5, <2>6 DEF HoldsText
<1>5. QED
  BY <1>1, <1>2, <1>3, <1>4 DEF WorkerIsSound

-----------------------------------------------------------------------------
(* The accounts of a mail *)

LEMMA MayDeliverCount ==
  ASSUME TasksInv, NEW m \in Messages
  PROVE  /\ IsFiniteSet(MayDeliver(m)) /\ Cardinality(MayDeliver(m)) \in Nat /\ surplus[m] \in Int
         /\ surplus[m] + Cardinality(MayDeliver(m)) <= 1
         /\ ~Accounted(m) => surplus[m] + Cardinality(MayDeliver(m)) <= 0
<1>1. DeliveriesAreExcused(m) /\ surplus[m] \in Int
  BY DEF TasksInv, MailIsSound, TypeOK
<1>2. Cardinality(MayDeliver(m)) \in Nat
  BY <1>1, FS_CardinalityType DEF DeliveriesAreExcused
<1>3. QED
  BY <1>1, <1>2 DEF DeliveriesAreExcused

\* The account stays balanced if nothing is added and what was accounted for still is, or if
\* something is taken from it.
LEMMA Balanced ==
  ASSUME TasksInv, NEW m \in Messages, surplus'[m] \in Int, IsFiniteSet(MayDeliver(m)'),
         \/ /\ surplus'[m] + Cardinality(MayDeliver(m)') <= surplus[m] + Cardinality(MayDeliver(m))
            /\ Accounted(m) => Accounted(m)'
         \/ surplus'[m] + Cardinality(MayDeliver(m)') <= surplus[m] + Cardinality(MayDeliver(m)) - 1
  PROVE  DeliveriesAreExcused(m)'
<1>1. Cardinality(MayDeliver(m)') \in Nat
  BY FS_CardinalityType
<1>2. PICK n \in Nat : n = Cardinality(MayDeliver(m)')
  BY <1>1
<1>3. PICK c \in Nat : c = Cardinality(MayDeliver(m))
  BY MayDeliverCount
<1>4. PICK s \in Int : s = surplus[m]
  BY MayDeliverCount
<1>5. PICK z \in Int : z = surplus'[m]
  OBVIOUS
<1>6. s + c <= 1 /\ (~Accounted(m) => s + c <= 0)
  BY <1>3, <1>4, MayDeliverCount
<1>7. (z + n <= s + c /\ (Accounted(m) => Accounted(m)')) \/ z + n <= s + c - 1
  BY <1>2, <1>3, <1>4, <1>5
<1>8. z + n <= IF Accounted(m)' THEN 1 ELSE 0
  BY <1>6, <1>7
<1>9. QED
  BY <1>2, <1>5, <1>8 DEF DeliveriesAreExcused

-----------------------------------------------------------------------------
(* Steps of one worker that leave the rows alone *)

\* The other workers stay where they are, and w stays at its task or leaves it.
Moves(w) ==
  /\ \A v \in Workers \ {w} : pc'[v] = pc[v] /\ job'[v] = job[v] /\ note'[v] = note[v] /\ end'[v] = end[v]
  /\ job'[w] = job[w] \/ (job'[w] = NoTask /\ pc'[w] = "idle")

\* The accounts of mail beside which nothing is delivered.
LEMMA OtherMail ==
  ASSUME TasksInv, NEW w \in Workers, Moves(w), UNCHANGED row, NEW m \in Messages,
         job[w] # Notice(m) \/ (pc[w] = "idle" /\ pc'[w] = "idle"), surplus'[m] = surplus[m]
  PROVE  DeliveriesAreExcused(m)'
<1>1. MayDeliver(m)' = MayDeliver(m)
  BY DEF MayDeliver, Moves, Before
<1>2. Accounted(m) => Accounted(m)'
  <2>1. pc[w] = "idle" => job[w] = NoTask
    BY DEF TasksInv, WorkerIsSound, AtItsLane
  <2>2. QED
    BY <2>1, MailTasksAssumption DEF Accounted, IsDelivering, Live, Done, Moves, MailTasksAssumption
<1>3. IsFiniteSet(MayDeliver(m)') /\ surplus'[m] \in Int
  BY <1>1, MayDeliverCount
<1>4. surplus'[m] + Cardinality(MayDeliver(m)') <= surplus[m] + Cardinality(MayDeliver(m))
  BY <1>1, MayDeliverCount
<1>5. QED
  BY <1>2, <1>3, <1>4, Balanced

\* The account of the mail whose notification w delivers: w moves on before the text is accepted
\* (1); the text is accepted (2); w gives up before (3) or after it was accepted, which excuses a
\* second delivery (4); w has its success to report (5); or w has nothing to do with it (6).
LEMMA OwnMail ==
  ASSUME TasksInv, NEW w \in Workers, Moves(w), UNCHANGED row, NEW m \in Messages,
         job[w] = Notice(m), surplus'[m] \in Int,
         \/ pc[w] \in Before /\ pc'[w] \in Before /\ job'[w] = job[w] /\ surplus'[m] = surplus[m]
         \/ pc[w] \in Before /\ pc'[w] = "accepted" /\ job'[w] = job[w] /\ surplus'[m] = surplus[m] + 1
         \/ pc[w] \in Before /\ pc'[w] \notin Before /\ surplus'[m] = surplus[m]
         \/ pc[w] \notin Before /\ pc'[w] \notin Before /\ surplus'[m] = surplus[m] - 1
         \/ pc[w] \notin Before /\ Done(w)' /\ job'[w] = job[w] /\ surplus'[m] = surplus[m]
         \/ /\ pc[w] \notin Before \cup {"accepted"} /\ (Owns(w) => ~Done(w)) /\ pc'[w] \notin Before
            /\ surplus'[m] = surplus[m]
  PROVE  DeliveriesAreExcused(m)'
<1> DEFINE count == Cardinality(MayDeliver(m))
           left == Cardinality(MayDeliver(m)')
<1>0. IsFiniteSet(MayDeliver(m)) /\ count \in Nat /\ surplus[m] \in Int
  BY MayDeliverCount
<1>1. ASSUME (pc[w] \in Before) <=> (pc'[w] \in Before), pc'[w] \in Before => job'[w] = job[w]
      PROVE  IsFiniteSet(MayDeliver(m)') /\ left = count
  <2>1. MayDeliver(m)' = MayDeliver(m)
    BY <1>1 DEF MayDeliver, Moves
  <2>2. QED
    BY <1>0, <2>1
<1>2. ASSUME pc[w] \in Before, pc'[w] \notin Before
      PROVE  IsFiniteSet(MayDeliver(m)') /\ left = count - 1
  <2>1. MayDeliver(m)' = MayDeliver(m) \ {w} /\ w \in MayDeliver(m)
    BY <1>2 DEF MayDeliver, Moves
  <2>2. QED
    BY <1>0, <2>1, FS_RemoveElement
<1>3. ASSUME \A t \in Tasks : t = Notice(m) /\ IsDelivering(w, t) => IsDelivering(w, t)'
      PROVE  Accounted(m) => Accounted(m)'
  <2>1. \A v \in Workers \ {w} : \A t \in Tasks : IsDelivering(v, t) => IsDelivering(v, t)'
    BY DEF IsDelivering, Live, Done, Moves
  <2>2. QED
    BY <1>3, <2>1 DEF Accounted
<1>4. CASE pc[w] \in Before /\ pc'[w] \in Before /\ job'[w] = job[w] /\ surplus'[m] = surplus[m]
  <2>1. Accounted(m) => Accounted(m)'
    BY <1>3, <1>4 DEF IsDelivering, Live
  <2>2. QED
    BY <1>0, <1>1, <1>4, <2>1, Balanced
<1>5. CASE pc[w] \in Before /\ pc'[w] = "accepted" /\ job'[w] = job[w] /\ surplus'[m] = surplus[m] + 1
  <2>1. Accounted(m) => Accounted(m)'
    BY <1>3, <1>5 DEF IsDelivering, Live
  <2>2. pc'[w] \notin Before
    BY <1>5 DEF Before
  <2>3. IsFiniteSet(MayDeliver(m)') /\ left = count - 1
    BY <1>2, <1>5, <2>2
  <2>4. surplus'[m] + left <= surplus[m] + count
    BY <1>0, <1>5, <2>3
  <2>5. QED
    BY <2>1, <2>3, <2>4, Balanced
<1>6. CASE pc[w] \in Before /\ pc'[w] \notin Before /\ surplus'[m] = surplus[m]
  <2>1. IsFiniteSet(MayDeliver(m)')
    BY <1>0, <1>2, <1>6
  <2>2. surplus'[m] + left <= surplus[m] + count - 1
    BY <1>0, <1>2, <1>6
  <2>3. QED
    BY <2>1, <2>2, Balanced
<1>7. CASE pc[w] \notin Before /\ pc'[w] \notin Before /\ surplus'[m] = surplus[m] - 1
  <2>1. IsFiniteSet(MayDeliver(m)')
    BY <1>0, <1>1, <1>7
  <2>2. surplus'[m] + left <= surplus[m] + count - 1
    BY <1>0, <1>1, <1>7
  <2>3. QED
    BY <2>1, <2>2, Balanced
<1>8. CASE pc[w] \notin Before /\ Done(w)' /\ job'[w] = job[w] /\ surplus'[m] = surplus[m]
  <2>1. Accounted(m) => Accounted(m)'
    BY <1>3, <1>8 DEF IsDelivering, Live
  <2>2. pc'[w] \notin Before
    BY <1>8 DEF Before, Done
  <2>3. QED
    BY <1>0, <1>1, <1>8, <2>1, <2>2, Balanced
<1>9. CASE /\ pc[w] \notin Before \cup {"accepted"} /\ (Owns(w) => ~Done(w)) /\ pc'[w] \notin Before
           /\ surplus'[m] = surplus[m]
  <2>1. \A t \in Tasks : ~IsDelivering(w, t)
    BY <1>9, MailTasksAssumption DEF IsDelivering, Owns, MailTasksAssumption
  <2>2. Accounted(m) => Accounted(m)'
    BY <1>3, <2>1
  <2>3. QED
    BY <1>0, <1>1, <1>9, <2>2, Balanced
<1>10. QED
  BY <1>4, <1>5, <1>6, <1>7, <1>8, <1>9

\* What a step of one worker keeps if it leaves the rows and the counts of executions alone.
LEMMA RowsKept ==
  ASSUME TasksInv, NEW w \in Workers, Moves(w), WorkerIsSound(w)',
         UNCHANGED <<row, runs, hopeless>>,
         summary \cup redoing \subseteq summary' \cup redoing',
         \/ UNCHANGED sent
         \/ pc[w] = "send" /\ sent' = [sent EXCEPT ![job[w][1]] = @ \cup {note[w]}]
  PROVE  /\ \A v \in Workers : WorkerIsSound(v)'
         /\ \A t \in Tasks : RowIsSound(t)'
         /\ \A m \in Messages : TextIsFrozen(m)'
         /\ Capped'
<1>0. /\ TypeOK /\ SendersAgree /\ Capped /\ \A v \in Workers : WorkerIsSound(v)
      /\ \A t \in Tasks : RowIsSound(t)
      /\ \A m \in Messages : TextIsFrozen(m)
  BY DEF TasksInv, MailIsSound
<1>1. pc[w] = "send" => /\ job[w] \in Tasks /\ job[w] = Notice(job[w][1]) /\ job[w][1] \in Messages
                        /\ note[w] # "none" /\ \A x \in sent[job[w][1]] : x = note[w]
                        /\ row[job[w]].status = "gone" \/ row[job[w]].payload = note[w]
  <2>1. ASSUME pc[w] = "send" PROVE job[w] # NoTask /\ Lane[w] = "notification"
    BY <1>0, <2>1 DEF WorkerIsSound, AtItsLane
  <2>2. QED
    BY <1>0, <2>1, Lanes, TaskForm DEF WorkerIsSound, HoldsText
<1>2. \A m \in Messages : /\ sent[m] \subseteq sent'[m]
                          /\ sent'[m] # sent[m] => /\ pc[w] = "send" /\ m = job[w][1]
                                                   /\ sent'[m] = sent[m] \cup {note[w]}
  BY <1>0, <1>1 DEF TypeOK
<1>3. ASSUME NEW v \in Workers \ {w} PROVE WorkerIsSound(v)'
  <2>1. pc'[v] = pc[v] /\ job'[v] = job[v] /\ note'[v] = note[v] /\ end'[v] = end[v]
    BY DEF Moves
  <2>2. ASSUME job[v] # NoTask
        PROVE  /\ sent[job[v][1]] \subseteq sent'[job[v][1]]
               /\ pc[v] = "send" => sent'[job[v][1]] \subseteq sent[job[v][1]] \cup {note[v]}
    <3>1. job[v] \in Tasks /\ job[v][1] \in Messages
      BY <1>0, <2>2, TaskForm DEF TypeOK
    <3>2. pc[v] = "send" => job[v] = Notice(job[v][1])
      BY <1>0, <2>2, Lanes DEF WorkerIsSound, AtItsLane
    <3>3. pc[v] = "send" /\ sent'[job[v][1]] # sent[job[v][1]] => note[v] = note[w]
      BY <1>0, <1>1, <1>2, <3>1, <3>2 DEF SendersAgree
    <3>4. QED
      BY <1>2, <3>1, <3>3
  <2>3. QED
    BY <2>1, <2>2, OthersKeep
<1>4. ASSUME NEW t \in Tasks PROVE RowIsSound(t)'
  <2>1. t[1] \in Messages
    BY TaskForm
  <2>2. sent[t[1]] # {} => sent'[t[1]] # {}
    BY <1>2, <2>1
  <2>3. QED
    BY <1>0, <2>2 DEF RowIsSound
<1>5. ASSUME NEW m \in Messages PROVE TextIsFrozen(m)'
  <2>1. CASE sent'[m] = sent[m]
    <3>1. TextIsFrozen(m)
      BY <1>0
    <3>2. QED
      BY <2>1, <3>1 DEF TextIsFrozen
  <2>2. CASE sent'[m] # sent[m]
    <3>1. sent'[m] = {note[w]} /\ note[w] # "none" /\ job[w] = Notice(m)
      BY <1>1, <1>2, <2>2
    <3>2. row[job[w]].status = "gone" \/ row[job[w]].payload = note[w]
      BY <1>1, <1>2, <2>2
    <3>3. QED
      BY <3>1, <3>2 DEF TextIsFrozen
  <2>3. QED
    BY <2>1, <2>2
<1>6. Capped'
  <2>1. LiveAI' = LiveAI
    BY DEF LiveAI, Live
  <2>2. QED
    BY <1>0, <2>1 DEF Capped
<1>7. QED
  BY <1>3, <1>4, <1>5, <1>6

\* Nobody else is about to send what w is about to send now.
LEMMA SendersKept ==
  ASSUME TasksInv, NEW w \in Workers, Moves(w),
         pc'[w] = "send" => \A v \in Workers \ {w} : pc[v] = "send" /\ job[v] = job'[w] => note[v] = note'[w]
  PROVE  SendersAgree'
BY DEF TasksInv, SendersAgree, Moves

\* What such a step does to the account of the mail whose notification w delivers, and that it
\* leaves the others alone.
Accounts(w) ==
  \A m \in Messages :
    IF job[w] = Notice(m) /\ pc[w] # "idle"
      THEN \/ pc[w] \in Before /\ pc'[w] \in Before /\ job'[w] = job[w] /\ surplus'[m] = surplus[m]
           \/ pc[w] \in Before /\ pc'[w] = "accepted" /\ job'[w] = job[w] /\ surplus'[m] = surplus[m] + 1
           \/ pc[w] \in Before /\ pc'[w] \notin Before /\ surplus'[m] = surplus[m]
           \/ pc[w] \notin Before /\ pc'[w] \notin Before /\ surplus'[m] = surplus[m] - 1
           \/ pc[w] \notin Before /\ Done(w)' /\ job'[w] = job[w] /\ surplus'[m] = surplus[m]
           \/ /\ pc[w] \notin Before \cup {"accepted"} /\ (Owns(w) => ~Done(w)) /\ pc'[w] \notin Before
              /\ surplus'[m] = surplus[m]
      ELSE surplus'[m] = surplus[m]

LEMMA WorkerSteps ==
  ASSUME TasksInv, TypeOK', NEW w \in Workers, Moves(w), WorkerIsSound(w)',
         UNCHANGED <<row, runs, hopeless>>,
         summary \cup redoing \subseteq summary' \cup redoing',
         \/ UNCHANGED sent
         \/ pc[w] = "send" /\ sent' = [sent EXCEPT ![job[w][1]] = @ \cup {note[w]}],
         pc'[w] = "send" => \A v \in Workers \ {w} : pc[v] = "send" /\ job[v] = job'[w] => note[v] = note'[w],
         pc[w] = "idle" => pc'[w] = "idle",
         Accounts(w)
  PROVE  TasksInv'
<1>1. ASSUME NEW m \in Messages PROVE DeliveriesAreExcused(m)'
  <2>1. surplus'[m] \in Int
    BY DEF TypeOK
  <2>2. CASE job[w] = Notice(m) /\ pc[w] # "idle"
    BY <2>1, <2>2, OwnMail DEF Accounts
  <2>3. CASE ~(job[w] = Notice(m) /\ pc[w] # "idle")
    <3>1. surplus'[m] = surplus[m]
      BY <2>3, Zenon DEF Accounts
    <3>2. QED
      BY <2>3, <3>1, OtherMail
  <2>4. QED
    BY <2>2, <2>3
<1>2. SendersAgree'
  BY SendersKept
<1>3. QED
  BY <1>1, <1>2, RowsKept DEF TasksInv, MailIsSound

\* Where a worker goes.
LEMMA Gone ==
  ASSUME TypeOK, NEW w \in Workers, Forget(w)
  PROVE  /\ Moves(w) /\ pc'[w] = "idle" /\ job'[w] = NoTask
         /\ pc' \in [Workers -> {"idle", "begin", "body", "record", "choose", "save", "send", "accepted", "settle"}]
         /\ job' \in [Workers -> Tasks \cup {NoTask}] /\ note' \in [Workers -> Texts] /\ end' \in [Workers -> Ends]
         /\ WorkerIsSound(w)'
<1>1. /\ Moves(w) /\ pc'[w] = "idle" /\ job'[w] = NoTask
      /\ pc' \in [Workers -> {"idle", "begin", "body", "record", "choose", "save", "send", "accepted", "settle"}]
      /\ job' \in [Workers -> Tasks \cup {NoTask}] /\ note' \in [Workers -> Texts] /\ end' \in [Workers -> Ends]
  BY DEF Forget, TypeOK, Moves, Texts, Ends
<1>2. WorkerIsSound(w)'
  BY <1>1 DEF WorkerIsSound, AtItsLane, WithinLimit, Owns, HasResult, HoldsText
<1>3. QED
  BY <1>1, <1>2

LEMMA MovedOn ==
  ASSUME TypeOK, NEW w \in Workers, NEW label, NEW e, Goto(w, label) \/ (Finish(w, e) /\ label = "settle"),
         label \in {"idle", "begin", "body", "record", "choose", "save", "send", "accepted", "settle"}, e \in Ends
  PROVE  /\ Moves(w) /\ pc'[w] = label /\ job'[w] = job[w] /\ note'[w] = note[w]
         /\ (Finish(w, e) => end'[w] = e) /\ (label # "settle" => end'[w] = end[w])
         /\ pc' \in [Workers -> {"idle", "begin", "body", "record", "choose", "save", "send", "accepted", "settle"}]
         /\ job' \in [Workers -> Tasks \cup {NoTask}] /\ note' \in [Workers -> Texts] /\ end' \in [Workers -> Ends]
BY DEF Goto, Finish, TypeOK, Moves

Places == {"idle", "begin", "body", "record", "choose", "save", "send", "accepted", "settle"}

\* A worker that settles what it has is sound: a success it reports is one it had.
LEMMA Settling ==
  ASSUME TasksInv, NEW w \in Workers, NEW e \in Ends, Finish(w, e), pc[w] \notin {"idle", "settle"},
         UNCHANGED <<row, summary, redoing, sent>>, e = "ready" => pc[w] \in {"record", "accepted"}
  PROVE  WorkerIsSound(w)'
<1>0. /\ TypeOK /\ WorkerIsSound(w) /\ pc'[w] = "settle" /\ end'[w] = e
      /\ job'[w] = job[w] /\ job[w] # NoTask
  <2>1. TypeOK /\ WorkerIsSound(w)
    BY DEF TasksInv
  <2>2. pc'[w] = "settle" /\ job'[w] = job[w] /\ end'[w] = e
    BY <2>1, MovedOn
  <2>3. QED
    BY <2>1, <2>2 DEF WorkerIsSound, AtItsLane
<1>1. AtItsLane(w)'
  BY <1>0 DEF AtItsLane, WorkerIsSound
<1>2. WithinLimit(w)'
  BY <1>0 DEF WithinLimit, WorkerIsSound, Owns, Limit
<1>3. HasResult(w)'
  <2>1. CASE e # "ready"
    BY <1>0, <2>1 DEF HasResult, Done
  <2>2. CASE e = "ready" /\ pc[w] = "record"
    <3>1. Lane[w] = "ai" /\ job[w][2] \in AITypes
      BY <1>0, <2>2, Lanes DEF WorkerIsSound, AtItsLane
    <3>2. QED
      BY <1>0, <2>2, <3>1 DEF HasResult, WorkerIsSound, AITypes
  <2>3. CASE e = "ready" /\ pc[w] = "accepted"
    <3>1. job[w][2] = "notification"
      BY <1>0, <2>3, Lanes DEF WorkerIsSound, AtItsLane
    <3>2. QED
      BY <1>0, <2>3, <3>1 DEF HasResult, WorkerIsSound
  <2>4. QED
    BY <2>1, <2>2, <2>3
<1>4. HoldsText(w)'
  BY <1>0 DEF HoldsText
<1>5. QED
  BY <1>1, <1>2, <1>3, <1>4 DEF WorkerIsSound

\* A worker gives up, or is done without a notification.
LEMMA GivesUp ==
  ASSUME TasksInv, NEW w \in Workers, NEW e \in Ends, Finish(w, e),
         pc[w] \in Before \cup {"body", "record"},
         e = "ready" => pc[w] = "record",
         UNCHANGED <<row, mailVars, life, seenVars, runs, hopeless, boundVars>>
  PROVE  TasksInv'
<1>0. TypeOK /\ WorkerIsSound(w)
  BY DEF TasksInv
<1>1. /\ Moves(w) /\ pc'[w] = "settle" /\ pc' \in [Workers -> Places]
      /\ job' \in [Workers -> Tasks \cup {NoTask}] /\ note' \in [Workers -> Texts] /\ end' \in [Workers -> Ends]
  BY <1>0, MovedOn DEF Places
<1>2. TypeOK'
  BY <1>0, <1>1 DEF TypeOK, mailVars, seenVars, boundVars, Places
<1>3. WorkerIsSound(w)'
  BY Settling DEF mailVars, seenVars, Before
<1>4. Accounts(w)
  BY <1>1 DEF Accounts, seenVars, Before, Done
<1>5. QED
  BY <1>1, <1>2, <1>3, <1>4, WorkerSteps DEF mailVars, seenVars, Before

\* A worker goes on to a place before a text is accepted, or to the record of its result.
LEMMA GoesOn ==
  ASSUME TasksInv, NEW w \in Workers, NEW label \in Places \ {"idle", "settle", "accepted"}, Goto(w, label),
         WorkerIsSound(w)',
         (pc[w] \in Before /\ (label \in Before \/ Lane[w] = "ai")) \/ (pc[w] = "body" /\ label = "record"),
         label = "send" => \A v \in Workers \ {w} : pc[v] = "send" /\ job[v] = job[w] => note[v] = note[w],
         UNCHANGED <<row, due, waited, life, seenVars, runs, hopeless, boundVars>>,
         summary' \in SUBSET Messages, redoing' \in SUBSET Messages,
         summary \cup redoing \subseteq summary' \cup redoing'
  PROVE  TasksInv'
<1>0. TypeOK /\ WorkerIsSound(w)
  BY DEF TasksInv
<1>1. /\ Moves(w) /\ pc'[w] = label /\ job'[w] = job[w] /\ note'[w] = note[w] /\ pc' \in [Workers -> Places]
      /\ job' \in [Workers -> Tasks \cup {NoTask}] /\ note' \in [Workers -> Texts] /\ end' \in [Workers -> Ends]
  <2>1. "ready" \in Ends
    BY DEF Ends
  <2>2. QED
    BY <1>0, <2>1, MovedOn DEF Places
<1>2. TypeOK'
  BY <1>0, <1>1 DEF TypeOK, seenVars, boundVars, Places
<1>3. Accounts(w)
  <2>1. CASE Lane[w] = "ai"
    <3>1. \A m \in Messages : job[w] # Notice(m) \/ pc[w] = "idle"
      BY <1>0, <2>1, Lanes, NoticeForm DEF WorkerIsSound, AtItsLane, AITypes
    <3>2. QED
      BY <3>1 DEF Accounts, seenVars
  <2>2. CASE pc[w] \in Before /\ label \in Before
    BY <1>1, <2>2 DEF Accounts, seenVars
  <2>3. CASE pc[w] = "body"
    <3>1. Lane[w] = "ai"
      BY <1>0, <2>3 DEF WorkerIsSound, AtItsLane
    <3>2. QED
      BY <2>1, <3>1
  <2>4. QED
    BY <2>1, <2>2, <2>3
<1>4. pc'[w] = "send" => \A v \in Workers \ {w} : pc[v] = "send" /\ job[v] = job'[w] => note[v] = note'[w]
  BY <1>1
<1>5. QED
  BY <1>1, <1>2, <1>3, <1>4, WorkerSteps DEF seenVars, Before

-----------------------------------------------------------------------------
(* What a worker does *)

LEMMA SkipOrFail ==
  ASSUME TasksInv, NEW w \in Workers, Skip(w) \/ Fail(w)
  PROVE  TasksInv'
<1>1. PICK e \in Ends \ {"ready"} : Finish(w, e)
  BY DEF Skip, Fail, Ends
<1>2. /\ pc[w] \in Before \cup {"body", "record"}
      /\ UNCHANGED <<row, mailVars, life, seenVars, runs, hopeless, boundVars>>
  BY DEF Skip, Fail, Before
<1>3. QED
  BY <1>1, <1>2, GivesUp

LEMMA BeginStep ==
  ASSUME TasksInv, NEW w \in Workers, Begin(w)
  PROVE  TasksInv'
<1>0. /\ TypeOK /\ WorkerIsSound(w) /\ pc[w] = "begin" /\ Lane[w] \in {"ai", "notification"}
      /\ UNCHANGED <<row, mailVars, life, seenVars, runs, hopeless, boundVars>>
  BY MailTasksAssumption DEF TasksInv, Begin, MailTasksAssumption
<1>1. CASE Owns(w)
  <2> DEFINE label == IF Lane[w] = "ai" THEN "body" ELSE "choose"
  <2>1. Goto(w, label)
    BY <1>0, <1>1 DEF Begin, Step
  <2>2. label \in Places \ {"idle", "settle", "accepted"} /\ "ready" \in Ends
    BY DEF Places, Ends
  <2>3. pc'[w] = label /\ job'[w] = job[w] /\ note'[w] = note[w]
    BY <1>0, <2>1, <2>2, MovedOn DEF Places
  <2>4. WorkerIsSound(w)'
    <3>1. AtItsLane(w)'
      BY <1>0, <2>3 DEF AtItsLane, WorkerIsSound
    <3>2. WithinLimit(w)'
      BY <1>0, <2>3 DEF WithinLimit, WorkerIsSound, Owns, Limit
    <3>3. HasResult(w)'
      BY <1>0, <2>3 DEF HasResult, Done
    <3>4. HoldsText(w)'
      BY <1>0, <2>3 DEF HoldsText, WorkerIsSound, Owns
    <3>5. QED
      BY <3>1, <3>2, <3>3, <3>4 DEF WorkerIsSound
  <2>5. QED
    BY <1>0, <2>1, <2>2, <2>4, GoesOn DEF Before, mailVars, TypeOK
<1>2. CASE ~Owns(w)
  BY <1>0, <1>2, GivesUp DEF Begin, Step, Before, Ends
<1>3. QED
  BY <1>1, <1>2

LEMMA GenerateOrRecord ==
  ASSUME TasksInv, NEW w \in Workers, Generate(w) \/ Record(w)
  PROVE  TasksInv'
<1>0. TypeOK /\ WorkerIsSound(w)
  BY DEF TasksInv
<1>1. CASE Generate(w)
  <2> DEFINE new == {job[w][1]} \cap {m \in Messages : job[w][2] = "analysis"}
  <2>0. /\ pc[w] = "body" /\ Goto(w, "record") /\ job[w] \in Tasks /\ job[w][1] \in Messages
        /\ summary' = summary \cup new /\ redoing' = redoing \ new
        /\ UNCHANGED <<row, due, waited, life, seenVars, runs, hopeless, boundVars>>
    <3>1. pc[w] = "body" /\ job[w] # NoTask
      BY <1>0, <1>1 DEF Generate, WorkerIsSound, AtItsLane
    <3>2. QED
      BY <1>0, <1>1, <3>1, TaskForm DEF Generate, TypeOK
  <2>1. "record" \in Places \ {"idle", "settle", "accepted"} /\ "ready" \in Ends
    BY DEF Places, Ends
  <2>2. pc'[w] = "record" /\ job'[w] = job[w] /\ note'[w] = note[w]
    BY <1>0, <2>0, <2>1, MovedOn DEF Places
  <2>3. summary \cup redoing \subseteq summary' \cup redoing' /\ (job[w][2] = "analysis" => job[w][1] \in summary')
    BY <2>0
  <2>4. WorkerIsSound(w)'
    <3>1. AtItsLane(w)'
      BY <1>0, <2>0, <2>2 DEF AtItsLane, WorkerIsSound
    <3>2. WithinLimit(w)'
      BY <1>0, <2>0, <2>2 DEF WithinLimit, WorkerIsSound, Owns, Limit
    <3>3. HasResult(w)'
      BY <2>2, <2>3 DEF HasResult, Done
    <3>4. HoldsText(w)'
      BY <2>2 DEF HoldsText
    <3>5. QED
      BY <3>1, <3>2, <3>3, <3>4 DEF WorkerIsSound
  <2>5. summary' \in SUBSET Messages /\ redoing' \in SUBSET Messages
    BY <1>0, <2>0 DEF TypeOK
  <2>6. QED
    BY <2>0, <2>1, <2>3, <2>4, <2>5, GoesOn
<1>2. CASE Record(w)
  <2>1. PICK e \in Ends : Finish(w, e)
    BY <1>2 DEF Record, Ends
  <2>2. QED
    BY <1>2, <2>1, GivesUp DEF Record
<1>3. QED
  BY <1>1, <1>2

LEMMA ChooseStep ==
  ASSUME TasksInv, NEW w \in Workers, Choose(w)
  PROVE  TasksInv'
<1>0. /\ TypeOK /\ WorkerIsSound(w) /\ pc[w] = "choose" /\ job[w] # NoTask
      /\ job[w] \in Tasks /\ job[w] = Notice(job[w][1]) /\ job[w][1] \in Messages /\ row[job[w]].status # "gone"
      /\ UNCHANGED <<row, mailVars, life, seenVars, runs, hopeless, boundVars>>
  <2>1. TypeOK /\ WorkerIsSound(w) /\ pc[w] = "choose" /\ job[w] # NoTask /\ Lane[w] = "notification"
    BY DEF TasksInv, Choose, WorkerIsSound, AtItsLane
  <2>2. QED
    BY <2>1, Lanes, TaskForm DEF Choose
<1>1. CASE Frozen(w)
  <2>1. Goto(w, "send") /\ note[w] # "none"
    BY <1>1 DEF Choose, Frozen
  <2>2. "send" \in Places \ {"idle", "settle", "accepted"} /\ "ready" \in Ends
    BY DEF Places, Ends
  <2>3. pc'[w] = "send" /\ job'[w] = job[w] /\ note'[w] = note[w]
    BY <1>0, <2>1, <2>2, MovedOn DEF Places
  <2>4. row[job[w]].payload = note[w]
    BY <1>0, <2>1 DEF WorkerIsSound, HoldsText
  <2>5. \A x \in sent[job[w][1]] : x = note[w]
    BY <1>0, <2>4 DEF TasksInv, MailIsSound, TextIsFrozen
  <2>6. WorkerIsSound(w)'
    <3>1. AtItsLane(w)'
      BY <1>0, <2>3 DEF AtItsLane, WorkerIsSound
    <3>2. WithinLimit(w)'
      BY <1>0, <2>3 DEF WithinLimit, WorkerIsSound, Owns, Limit
    <3>3. HasResult(w)'
      BY <1>0, <2>3 DEF HasResult, Done
    <3>4. HoldsText(w)'
      BY <1>0, <2>1, <2>3, <2>4, <2>5 DEF HoldsText, seenVars
    <3>5. QED
      BY <3>1, <3>2, <3>3, <3>4 DEF WorkerIsSound
  <2>7. ASSUME NEW v \in Workers \ {w}, pc[v] = "send", job[v] = job[w] PROVE note[v] = note[w]
    <3>1. HoldsText(v)
      BY DEF TasksInv, WorkerIsSound
    <3>2. QED
      BY <1>0, <2>4, <2>7, <3>1 DEF HoldsText
  <2>8. QED
    BY <1>0, <2>1, <2>2, <2>6, <2>7, GoesOn DEF Before, mailVars, TypeOK
<1>2. CASE ~Frozen(w)
  <2>1. PICK x \in {"summary", "basic"} : note' = [note EXCEPT ![w] = x]
    BY <1>2 DEF Choose
  <2>2. /\ note[w] = "none" /\ note'[w] = x /\ x # "none" /\ pc'[w] = "save" /\ job'[w] = job[w]
        /\ note' \in [Workers -> Texts] /\ pc' \in [Workers -> Places] /\ Moves(w)
        /\ UNCHANGED <<job, end>>
    BY <1>0, <1>2, <2>1 DEF Choose, TypeOK, Texts, Places, Moves, Frozen
  <2>3. TypeOK'
    BY <1>0, <2>2 DEF TypeOK, mailVars, seenVars, boundVars, Places
  <2>4. WorkerIsSound(w)'
    <3>1. AtItsLane(w)'
      BY <1>0, <2>2 DEF AtItsLane, WorkerIsSound
    <3>2. WithinLimit(w)'
      BY <1>0, <2>2 DEF WithinLimit, WorkerIsSound, Owns, Limit
    <3>3. HasResult(w)'
      BY <1>0, <2>2 DEF HasResult, Done
    <3>4. HoldsText(w)'
      BY <1>0, <2>2 DEF HoldsText, WorkerIsSound, Owns
    <3>5. QED
      BY <3>1, <3>2, <3>3, <3>4 DEF WorkerIsSound
  <2>5. Accounts(w)
    BY <1>0, <2>2 DEF Accounts, Before, seenVars
  <2>6. QED
    BY <1>0, <2>2, <2>3, <2>4, <2>5, WorkerSteps DEF mailVars, seenVars
<1>3. QED
  BY <1>1, <1>2

\* The change of an account.
LEMMA SurplusForm ==
  ASSUME TypeOK, NEW w \in Workers, NEW n \in Int, Surplus(w, n), job[w] \in Tasks
  PROVE  /\ surplus' \in [Messages -> Int]
         /\ \A m \in Messages : surplus'[m] = IF job[w] = Notice(m) THEN surplus[m] + n ELSE surplus[m]
<1>1. job[w][1] \in Messages
  BY TaskForm
<1>2. CASE job[w][2] = "notification"
  <2>1. job[w] = Notice(job[w][1])
    BY <1>2, NoticeForm
  <2>2. \A m \in Messages : job[w] = Notice(m) <=> m = job[w][1]
    BY <2>1, NoticeForm
  <2>3. surplus' = [surplus EXCEPT ![job[w][1]] = @ + n]
    BY <1>2 DEF Surplus
  <2>4. QED
    BY <1>1, <2>2, <2>3 DEF TypeOK
<1>3. CASE job[w][2] # "notification"
  BY <1>3, NoticeForm DEF Surplus, TypeOK
<1>4. QED
  BY <1>2, <1>3

LEMMA SendStep ==
  ASSUME TasksInv, NEW w \in Workers, Send(w)
  PROVE  TasksInv'
<1>0. /\ TypeOK /\ WorkerIsSound(w) /\ pc[w] = "send" /\ job[w] # NoTask /\ "ready" \in Ends
      /\ job[w] \in Tasks /\ job[w] = Notice(job[w][1]) /\ job[w][1] \in Messages
      /\ UNCHANGED <<row, mailVars, life, runs, hopeless, boundVars>>
      /\ sent' = [sent EXCEPT ![job[w][1]] = @ \cup {note[w]}]
  <2>1. TypeOK /\ WorkerIsSound(w) /\ pc[w] = "send" /\ job[w] # NoTask /\ Lane[w] = "notification"
    BY DEF TasksInv, Send, WorkerIsSound, AtItsLane
  <2>2. QED
    BY <2>1, Lanes, TaskForm DEF Send, Accepted, Ends
<1>1. /\ Moves(w) /\ pc'[w] = "accepted" /\ job'[w] = job[w] /\ pc' \in [Workers -> Places]
      /\ job' \in [Workers -> Tasks \cup {NoTask}] /\ note' \in [Workers -> Texts] /\ end' \in [Workers -> Ends]
  BY <1>0, MovedOn DEF Send, Places
<1>2. /\ surplus' \in [Messages -> Int]
      /\ \A m \in Messages : surplus'[m] = IF job[w] = Notice(m) THEN surplus[m] + 1 ELSE surplus[m]
  BY <1>0, SurplusForm DEF Send
<1>3. sent' \in [Messages -> SUBSET Texts] /\ sent'[job[w][1]] # {}
  <2>1. note[w] \in Texts /\ sent \in [Messages -> SUBSET Texts]
    BY <1>0 DEF TypeOK
  <2>2. sent'[job[w][1]] = sent[job[w][1]] \cup {note[w]}
    BY <1>0, <2>1
  <2>3. QED
    BY <1>0, <2>1, <2>2
<1>4. TypeOK'
  BY <1>0, <1>1, <1>2, <1>3 DEF TypeOK, mailVars, boundVars, Places
<1>5. WorkerIsSound(w)'
  <2>1. AtItsLane(w)'
    BY <1>0, <1>1 DEF AtItsLane, WorkerIsSound
  <2>2. WithinLimit(w)'
    BY <1>0, <1>1 DEF WithinLimit, WorkerIsSound, Owns, Limit
  <2>3. HasResult(w)'
    BY <1>1, <1>3 DEF HasResult, Done
  <2>4. HoldsText(w)'
    BY <1>1 DEF HoldsText
  <2>5. QED
    BY <2>1, <2>2, <2>3, <2>4 DEF WorkerIsSound
<1>6. Accounts(w)
  BY <1>0, <1>1, <1>2 DEF Accounts, Before
<1>7. QED
  BY <1>0, <1>1, <1>4, <1>5, <1>6, WorkerSteps DEF mailVars

LEMMA AnswerStep ==
  ASSUME TasksInv, NEW w \in Workers, Answer(w)
  PROVE  TasksInv'
<1>0. /\ TypeOK /\ WorkerIsSound(w) /\ pc[w] = "accepted" /\ job[w] # NoTask
      /\ job[w] \in Tasks
      /\ UNCHANGED <<row, mailVars, life, sent, runs, hopeless, boundVars>>
  BY DEF TasksInv, Answer, WorkerIsSound, AtItsLane, TypeOK
<1>1. PICK e \in Ends : Finish(w, e) /\ ((e = "ready" /\ UNCHANGED surplus) \/ Surplus(w, -1))
  BY DEF Answer, Ends
<1>2. /\ Moves(w) /\ pc'[w] = "settle" /\ job'[w] = job[w] /\ pc' \in [Workers -> Places] /\ end'[w] = e
      /\ job' \in [Workers -> Tasks \cup {NoTask}] /\ note' \in [Workers -> Texts] /\ end' \in [Workers -> Ends]
  BY <1>0, <1>1, MovedOn DEF Places
<1>3. WorkerIsSound(w)'
  BY <1>0, <1>1, Settling DEF mailVars
<1>4. CASE e = "ready" /\ UNCHANGED surplus
  <2>1. TypeOK'
    BY <1>0, <1>2, <1>4 DEF TypeOK, mailVars, boundVars, Places
  <2>2. Accounts(w)
    BY <1>0, <1>2, <1>4 DEF Accounts, Before, Done
  <2>3. QED
    BY <1>0, <1>2, <1>3, <2>1, <2>2, WorkerSteps DEF mailVars
<1>5. CASE Surplus(w, -1)
  <2>1. /\ surplus' \in [Messages -> Int]
        /\ \A m \in Messages : surplus'[m] = IF job[w] = Notice(m) THEN surplus[m] + (-1) ELSE surplus[m]
    BY <1>0, <1>5, SurplusForm
  <2>2. \A m \in Messages : surplus'[m] = IF job[w] = Notice(m) THEN surplus[m] - 1 ELSE surplus[m]
    BY <1>0, <2>1 DEF TypeOK
  <2>3. TypeOK'
    BY <1>0, <1>2, <2>1 DEF TypeOK, mailVars, boundVars, Places
  <2>4. Accounts(w)
    BY <1>0, <1>2, <2>2 DEF Accounts, Before
  <2>5. QED
    BY <1>0, <1>2, <1>3, <2>3, <2>4, WorkerSteps DEF mailVars
<1>6. QED
  BY <1>1, <1>4, <1>5

LEMMA SettleFailsStep ==
  ASSUME TasksInv, NEW w \in Workers, SettleFails(w)
  PROVE  TasksInv'
<1>0. /\ TypeOK /\ pc[w] = "settle" /\ Forget(w) /\ job[w] \in Tasks
      /\ UNCHANGED <<row, mailVars, life, sent, runs, hopeless, retries, stops>>
      /\ losses' = losses + 1 /\ Surplus(w, IF end[w] = "ready" THEN -1 ELSE 0)
  <2>1. TypeOK /\ pc[w] = "settle" /\ job[w] # NoTask
    BY DEF TasksInv, SettleFails, WorkerIsSound, AtItsLane
  <2>2. QED
    BY <2>1 DEF SettleFails, TypeOK
<1>1. /\ Moves(w) /\ pc'[w] = "idle" /\ job'[w] = NoTask /\ WorkerIsSound(w)' /\ pc' \in [Workers -> Places]
      /\ job' \in [Workers -> Tasks \cup {NoTask}] /\ note' \in [Workers -> Texts] /\ end' \in [Workers -> Ends]
  BY <1>0, Gone DEF Places
<1>2. PICK n \in Int : n = IF end[w] = "ready" THEN -1 ELSE 0
  OBVIOUS
<1>3. /\ surplus' \in [Messages -> Int]
      /\ \A m \in Messages : surplus'[m] = IF job[w] = Notice(m) THEN surplus[m] + n ELSE surplus[m]
  BY <1>0, <1>2, SurplusForm
<1>4. TypeOK'
  BY <1>0, <1>1, <1>3 DEF TypeOK, mailVars, Places
<1>5. Accounts(w)
  <2>1. ASSUME NEW m \in Messages, job[w] = Notice(m)
        PROVE  surplus'[m] = IF end[w] = "ready" THEN surplus[m] - 1 ELSE surplus[m]
    BY <1>0, <1>2, <1>3, <2>1 DEF TypeOK
  <2>2. pc[w] \notin Before \cup {"accepted"} /\ pc'[w] \notin Before
    BY <1>0, <1>1 DEF Before
  <2>3. ASSUME NEW m \in Messages, job[w] # Notice(m) PROVE surplus'[m] = surplus[m]
    BY <1>3, <2>3
  <2>4. CASE end[w] = "ready"
    <3>1. \A m \in Messages : job[w] = Notice(m) => surplus'[m] = surplus[m] - 1
      BY <2>1, <2>4
    <3>2. pc[w] \notin Before /\ pc'[w] \notin Before
      BY <2>2
    <3>3. QED
      BY <2>3, <3>1, <3>2, <1>0 DEF Accounts
  <2>5. CASE end[w] # "ready"
    BY <2>1, <2>2, <2>3, <2>5 DEF Accounts, Done
  <2>6. QED
    BY <2>4, <2>5
<1>6. QED
  BY <1>0, <1>1, <1>4, <1>5, WorkerSteps DEF mailVars

LEMMA CrashStep ==
  ASSUME TasksInv, NEW w \in Workers, Crash(w)
  PROVE  TasksInv'
<1>0. /\ TypeOK /\ Forget(w) /\ (pc[w] = "idle" <=> job[w] = NoTask)
      /\ UNCHANGED <<row, mailVars, runs, hopeless, retries, losses>>
      /\ life' \in [Workers -> {"off", "on", "stopping"}] /\ stops' \in Nat
  BY DEF TasksInv, Crash, WorkerIsSound, AtItsLane, TypeOK
<1>1. /\ Moves(w) /\ pc'[w] = "idle" /\ job'[w] = NoTask /\ WorkerIsSound(w)' /\ pc' \in [Workers -> Places]
      /\ job' \in [Workers -> Tasks \cup {NoTask}] /\ note' \in [Workers -> Texts] /\ end' \in [Workers -> Ends]
  BY <1>0, Gone DEF Places
<1>2. pc[w] # "idle" => job[w] \in Tasks /\ job[w][1] \in Messages
  BY <1>0, TaskForm DEF TypeOK
<1>3. ASSUME sent' \in [Messages -> SUBSET Texts], surplus' \in [Messages -> Int]
      PROVE  TypeOK'
  BY <1>0, <1>1, <1>3 DEF TypeOK, mailVars, Places
<1>4. CASE pc[w] = "send" /\ Accepted(w) /\ Surplus(w, 0)
  <2>1. sent' = [sent EXCEPT ![job[w][1]] = @ \cup {note[w]}] /\ note[w] \in Texts
    BY <1>0, <1>4 DEF Accepted, TypeOK
  <2>2. sent \in [Messages -> SUBSET Texts]
    BY <1>0 DEF TypeOK
  <2>3. sent' \in [Messages -> SUBSET Texts]
    BY <2>1, <2>2
  <2>4. /\ surplus' \in [Messages -> Int]
        /\ \A m \in Messages : surplus'[m] = IF job[w] = Notice(m) THEN surplus[m] + 0 ELSE surplus[m]
    BY <1>0, <1>2, <1>4, SurplusForm
  <2>5. \A m \in Messages : surplus'[m] = surplus[m]
    BY <1>0, <2>4 DEF TypeOK
  <2>6. TypeOK'
    BY <1>3, <2>3, <2>4
  <2>7. Accounts(w)
    BY <1>1, <1>4, <2>5 DEF Accounts, Before
  <2>8. QED
    BY <1>0, <1>1, <1>4, <2>1, <2>6, <2>7, WorkerSteps DEF mailVars
<1>5. CASE UNCHANGED sent /\ (pc[w] = "accepted" \/ Done(w)) /\ Surplus(w, -1)
  <2>1. /\ surplus' \in [Messages -> Int]
        /\ \A m \in Messages : surplus'[m] = IF job[w] = Notice(m) THEN surplus[m] + (-1) ELSE surplus[m]
    BY <1>0, <1>2, <1>5, SurplusForm DEF Done
  <2>2. \A m \in Messages : surplus'[m] = IF job[w] = Notice(m) THEN surplus[m] - 1 ELSE surplus[m]
    BY <1>0, <2>1 DEF TypeOK
  <2>3. TypeOK'
    BY <1>0, <1>3, <1>5, <2>1 DEF TypeOK
  <2>4. Accounts(w)
    BY <1>1, <1>5, <2>2 DEF Accounts, Before, Done
  <2>5. QED
    BY <1>0, <1>1, <1>5, <2>3, <2>4, WorkerSteps DEF mailVars
<1>6. CASE UNCHANGED sent /\ ~(pc[w] = "accepted" \/ Done(w)) /\ UNCHANGED surplus
  <2>1. TypeOK'
    BY <1>0, <1>3, <1>6 DEF TypeOK
  <2>2. Accounts(w)
    BY <1>1, <1>6 DEF Accounts, Before
  <2>3. QED
    BY <1>0, <1>1, <1>6, <2>1, <2>2, WorkerSteps DEF mailVars
<1>7. QED
  BY <1>4, <1>5, <1>6 DEF Crash, Done

-----------------------------------------------------------------------------
(* Steps that change a row *)

\* The accounts of mail of which neither a row nor a delivery changes.
LEMMA SameMail ==
  ASSUME TasksInv, NEW m \in Messages, surplus'[m] = surplus[m],
         \A w \in Workers : /\ job'[w] = Notice(m) /\ pc'[w] \in Before => job[w] = Notice(m) /\ pc[w] \in Before
                            /\ job[w] = Notice(m) /\ pc[w] \in Before => job'[w] = Notice(m) /\ pc'[w] \in Before,
         Accounted(m) => Accounted(m)'
  PROVE  DeliveriesAreExcused(m)'
<1>1. MayDeliver(m)' = MayDeliver(m)
  BY DEF MayDeliver
<1>2. IsFiniteSet(MayDeliver(m)') /\ surplus'[m] \in Int
  BY <1>1, MayDeliverCount
<1>3. surplus'[m] + Cardinality(MayDeliver(m)') <= surplus[m] + Cardinality(MayDeliver(m))
  BY <1>1, MayDeliverCount
<1>4. QED
  BY <1>2, <1>3, Balanced

\* Fewer AI tasks under live leases.
LEMMA LiveShrinks ==
  ASSUME TasksInv, LiveAI' \subseteq LiveAI
  PROVE  Capped'
<1>1. IsFiniteSet(LiveAI) /\ Cardinality(LiveAI) <= MaxAI /\ MaxAI \in Nat
  BY MailTasksAssumption DEF TasksInv, Capped, MailTasksAssumption
<1>2. IsFiniteSet(LiveAI') /\ Cardinality(LiveAI') <= Cardinality(LiveAI)
  BY <1>1, FS_Subset
<1>3. Cardinality(LiveAI) \in Nat /\ Cardinality(LiveAI') \in Nat
  BY <1>1, <1>2, FS_CardinalityType
<1>4. QED
  BY <1>1, <1>2, <1>3 DEF Capped

LEMMA SaveStep ==
  ASSUME TasksInv, NEW w \in Workers, Save(w)
  PROVE  TasksInv'
<1>0. /\ TypeOK /\ WorkerIsSound(w) /\ pc[w] = "save" /\ job[w] # NoTask
      /\ job[w] \in Tasks /\ job[w] = Notice(job[w][1]) /\ job[w][1] \in Messages /\ "ready" \in Ends
      /\ UNCHANGED <<mailVars, life, seenVars, runs, hopeless, boundVars>>
  <2>1. TypeOK /\ WorkerIsSound(w) /\ pc[w] = "save" /\ job[w] # NoTask /\ Lane[w] = "notification"
    BY DEF TasksInv, Save, WorkerIsSound, AtItsLane
  <2>2. QED
    BY <2>1, Lanes, TaskForm DEF Save, Ends
<1>1. CASE ~Owns(w)
  BY <1>0, <1>1, GivesUp DEF Save, Step, Before, Ends
<1>2. CASE Owns(w)
  <2>1. /\ Moves(w) /\ pc'[w] = "send" /\ job'[w] = job[w] /\ note'[w] = note[w] /\ pc' \in [Workers -> Places]
        /\ job' \in [Workers -> Tasks \cup {NoTask}] /\ note' \in [Workers -> Texts] /\ end' \in [Workers -> Ends]
    BY <1>0, <1>2, MovedOn DEF Save, Step, Places
  <2>2. PICK t \in Tasks : t = job[w]
    BY <1>0
  <2>3. PICK x \in Texts : x = note[w] /\ x # "none"
    BY <1>0 DEF TypeOK, WorkerIsSound, HoldsText
  <2>4. row' = [row EXCEPT ![t].payload = x] /\ row[t] \in Rows
    BY <1>0, <1>2, <2>2, <2>3 DEF Save, TypeOK
  <2>5. /\ row' \in [Tasks -> Rows] /\ \A u \in Tasks \ {t} : row'[u] = row[u]
        /\ row'[t].payload = x /\ row'[t].status = row[t].status /\ row'[t].attempts = row[t].attempts
        /\ row'[t].holder = row[t].holder /\ row'[t].lease = row[t].lease
    <3>1. row \in [Tasks -> Rows]
      BY <1>0 DEF TypeOK
    <3>2. [row[t] EXCEPT !.payload = x] \in Rows
      BY <2>4 DEF Rows
    <3>3. QED
      BY <2>4, <3>1, <3>2 DEF Rows
  <2>6. row[t].payload = "none" /\ row[t].holder = w /\ row[t].status = "running"
    <3>1. row[t].holder = w /\ row[t].payload = "none"
      BY <1>0, <1>2, <2>2 DEF Owns, WorkerIsSound, HoldsText
    <3>2. QED
      BY <3>1, MailTasksAssumption DEF TasksInv, RowIsSound, MailTasksAssumption
  <2>7. TypeOK'
    BY <1>0, <2>1, <2>5 DEF TypeOK, mailVars, seenVars, boundVars, Places
  <2>8. sent[t[1]] = {}
    <3>1. \A y \in sent[t[1]] : y = "none"
      BY <1>0, <2>2, <2>6 DEF TasksInv, MailIsSound, TextIsFrozen
    <3>2. "none" \notin sent[t[1]]
      BY <1>0, <2>2 DEF TasksInv, MailIsSound, TextIsFrozen
    <3>3. QED
      BY <3>1, <3>2
  <2>9. ASSUME NEW v \in Workers \ {w} PROVE WorkerIsSound(v)' /\ ~(pc[v] = "send" /\ job[v] = t)
    <3>1. pc'[v] = pc[v] /\ job'[v] = job[v] /\ note'[v] = note[v] /\ end'[v] = end[v]
      BY <2>1 DEF Moves
    <3>2. job[v] # NoTask => job[v] \in Tasks
      BY <1>0 DEF TypeOK
    <3>3. ~(pc[v] = "send" /\ job[v] = t)
      BY <2>6 DEF TasksInv, WorkerIsSound, HoldsText
    <3>4. WorkerIsSound(v)'
      BY <1>0, <2>5, <2>6, <3>1, <3>2, OthersKeep DEF mailVars, seenVars
    <3>5. QED
      BY <3>3, <3>4
  <2>10. WorkerIsSound(w)'
    <3>1. AtItsLane(w)'
      BY <1>0, <2>1 DEF AtItsLane, WorkerIsSound
    <3>2. WithinLimit(w)'
      BY <1>0, <2>1, <2>2, <2>5 DEF WithinLimit, WorkerIsSound, Owns, Limit
    <3>3. HasResult(w)'
      BY <2>1 DEF HasResult, Done
    <3>4. HoldsText(w)'
      BY <1>0, <2>1, <2>2, <2>3, <2>5, <2>8 DEF HoldsText, seenVars
    <3>5. QED
      BY <3>1, <3>2, <3>3, <3>4 DEF WorkerIsSound
  <2>11. SendersAgree'
    BY <2>1, <2>2, <2>9, SendersKept
  <2>12. ASSUME NEW u \in Tasks PROVE RowIsSound(u)'
    <3>1. RowIsSound(u)
      BY DEF TasksInv
    <3>2. /\ row'[u].status = row[u].status /\ row'[u].attempts = row[u].attempts /\ row'[u].holder = row[u].holder
          /\ row'[u].status = "none" => row'[u] = row[u]
      BY <2>5, <2>6
    <3>3. QED
      BY <1>0, <3>1, <3>2 DEF RowIsSound, mailVars, seenVars
  <2>13. ASSUME NEW m \in Messages PROVE TextIsFrozen(m)'
    <3>1. TextIsFrozen(m)
      BY DEF TasksInv, MailIsSound
    <3>2. t = Notice(m) => sent[m] = {}
      BY <2>8, NoticeForm
    <3>3. QED
      BY <1>0, <2>5, <3>1, <3>2 DEF TextIsFrozen, seenVars
  <2>14. ASSUME NEW m \in Messages PROVE DeliveriesAreExcused(m)'
    <3>1. \A v \in Workers : pc'[v] # pc[v] => v = w
      BY <2>1 DEF Moves
    <3>2. \A v \in Workers : job'[v] = job[v] /\ (v # w => pc'[v] = pc[v] /\ end'[v] = end[v])
      BY <2>1 DEF Moves
    <3>3. Accounted(m) => Accounted(m)'
      <4>1. ASSUME NEW u \in Tasks, NEW v \in Workers, IsDelivering(v, u) PROVE IsDelivering(v, u)'
        BY <1>0, <2>1, <2>5, <3>2, <4>1 DEF IsDelivering, Live, Done, Before
      <4>2. \A u \in Tasks : row'[u].status = row[u].status
        BY <2>5
      <4>3. QED
        BY <4>1, <4>2 DEF Accounted
    <3>4. QED
      BY <1>0, <2>1, <3>2, <3>3, SameMail DEF seenVars, Before
  <2>15. Capped'
    <3>1. LiveAI' = LiveAI
      BY <2>5 DEF LiveAI, Live
    <3>2. QED
      BY <3>1, LiveShrinks
  <2>16. QED
    BY <2>7, <2>9, <2>10, <2>11, <2>12, <2>13, <2>14, <2>15 DEF TasksInv, MailIsSound
<1>3. QED
  BY <1>1, <1>2

\* A step that leaves the work and the rows alone.
LEMMA OnlyMail ==
  ASSUME TasksInv, TypeOK', UNCHANGED <<row, workVars, seenVars, runs, hopeless>>,
         summary \cup redoing \subseteq summary' \cup redoing'
  PROVE  TasksInv'
<1>0. UNCHANGED <<row, pc, job, note, end, sent, surplus, runs, hopeless>>
  BY DEF workVars, seenVars
<1>1. ASSUME NEW w \in Workers PROVE WorkerIsSound(w)'
  BY <1>0, OthersKeep
<1>2. ASSUME NEW t \in Tasks PROVE RowIsSound(t)'
  BY <1>0 DEF RowIsSound, TasksInv
<1>3. ASSUME NEW m \in Messages PROVE MailIsSound(m)'
  <2>1. TextIsFrozen(m)'
    BY <1>0 DEF TasksInv, MailIsSound, TextIsFrozen
  <2>2. Accounted(m) => Accounted(m)'
    BY <1>0 DEF Accounted, IsDelivering, Live, Done
  <2>3. QED
    BY <1>0, <2>1, <2>2, SameMail DEF MailIsSound
<1>4. Capped' /\ SendersAgree'
  <2>1. LiveAI' = LiveAI
    BY <1>0 DEF LiveAI, Live
  <2>2. QED
    BY <1>0, <2>1, LiveShrinks DEF TasksInv, SendersAgree
<1>5. QED
  BY <1>1, <1>2, <1>3, <1>4 DEF TasksInv

LEMMA MailSteps ==
  ASSUME TasksInv,
         \/ \E m \in Messages : Wait(m) \/ Redo(m) \/ Redone(m)
         \/ \E t \in Tasks : Elapse(t)
         \/ \E w \in Workers : Start(w) \/ Stop(w) \/ Stopped(w)
  PROVE  TasksInv'
<1>0. TypeOK
  BY DEF TasksInv
<1>1. CASE \E m \in Messages : Wait(m) \/ Redo(m) \/ Redone(m)
  <2>1. PICK m \in Messages : Wait(m) \/ Redo(m) \/ Redone(m)
    BY <1>1
  <2>2. /\ UNCHANGED <<row, due, life, workVars, seenVars, runs, hopeless, boundVars>>
        /\ summary' \in SUBSET Messages /\ redoing' \in SUBSET Messages /\ waited' \in SUBSET Messages
        /\ summary \cup redoing \subseteq summary' \cup redoing'
    BY <1>0, <2>1 DEF Wait, Redo, Redone, TypeOK
  <2>3. TypeOK'
    BY <1>0, <2>2 DEF TypeOK, workVars, seenVars, boundVars
  <2>4. QED
    BY <2>2, <2>3, OnlyMail
<1>2. CASE \E t \in Tasks : Elapse(t)
  <2>1. /\ UNCHANGED <<row, waited, summary, redoing, life, workVars, seenVars, runs, hopeless, boundVars>>
        /\ due' \in SUBSET Tasks
    BY <1>0, <1>2 DEF Elapse, TypeOK
  <2>2. TypeOK'
    BY <1>0, <2>1 DEF TypeOK, workVars, seenVars, boundVars
  <2>3. QED
    BY <2>1, <2>2, OnlyMail
<1>3. CASE \E w \in Workers : Start(w) \/ Stop(w) \/ Stopped(w)
  <2>1. /\ UNCHANGED <<row, mailVars, workVars, seenVars, runs, hopeless, retries, losses>>
        /\ life' \in [Workers -> {"off", "on", "stopping"}] /\ stops' \in Nat
    BY <1>0, <1>3 DEF Start, Stop, Stopped, TypeOK, boundVars
  <2>2. TypeOK'
    BY <1>0, <2>1 DEF TypeOK, workVars, seenVars, mailVars
  <2>3. QED
    BY <2>1, <2>2, OnlyMail DEF mailVars
<1>4. QED
  BY <1>1, <1>2, <1>3

\* A row that is held is held by a worker that runs it.
LEMMA HeldRows ==
  ASSUME TasksInv, NEW t \in Tasks
  PROVE  /\ row[t] \in Rows /\ Limit(t) \in Nat /\ Limit(t) # 0 /\ t[1] \in Messages
         /\ row[t].status = "running" => row[t].holder \in Workers
         /\ row[t].status # "running" => row[t].holder = NoWorker
         /\ NoWorker \notin Workers
<1>1. row[t] \in Rows /\ RowIsSound(t)
  BY DEF TasksInv, TypeOK
<1>2. QED
  BY <1>1, TaskForm, MailTasksAssumption DEF Rows, RowIsSound, MailTasksAssumption

LEMMA LeaseOverStep ==
  ASSUME TasksInv, NEW t \in Tasks, LeaseOver(t)
  PROVE  TasksInv'
<1> DEFINE w == row[t].holder
<1>0. /\ TypeOK /\ row[t].status = "running" /\ w \in Workers /\ row[t] \in Rows
      /\ UNCHANGED <<mailVars, life, workVars, sent, runs, hopeless, retries, stops>>
      /\ row' = [row EXCEPT ![t].lease = "over"]
  BY HeldRows DEF TasksInv, LeaseOver, Live
<1>1. /\ row' \in [Tasks -> Rows] /\ \A u \in Tasks \ {t} : row'[u] = row[u]
      /\ row'[t].payload = row[t].payload /\ row'[t].status = row[t].status
      /\ row'[t].attempts = row[t].attempts /\ row'[t].holder = row[t].holder /\ row'[t].lease = "over"
  <2>1. row \in [Tasks -> Rows]
    BY <1>0 DEF TypeOK
  <2>2. [row[t] EXCEPT !.lease = "over"] \in Rows
    BY <1>0 DEF Rows
  <2>3. QED
    BY <1>0, <2>1, <2>2 DEF Rows
<1>2. /\ surplus' \in [Messages -> Int] /\ losses' \in Nat
      /\ \A m \in Messages : surplus'[m] = IF t = Notice(m) /\ job[w] = t THEN surplus[m] + (-1) ELSE surplus[m]
  <2>1. CASE job[w] = t
    <3>1. Surplus(w, -1) /\ losses' = losses + 1
      BY <2>1 DEF LeaseOver
    <3>2. QED
      BY <1>0, <2>1, <3>1, SurplusForm DEF TypeOK
  <2>2. CASE job[w] # t
    BY <1>0, <2>2 DEF LeaseOver, TypeOK
  <2>3. QED
    BY <2>1, <2>2
<1>3. TypeOK'
  BY <1>0, <1>1, <1>2 DEF TypeOK, mailVars, workVars
<1>4. UNCHANGED <<pc, job, note, end, summary, redoing, sent, runs, hopeless>>
  BY <1>0 DEF workVars, mailVars
<1>5. ASSUME NEW v \in Workers PROVE WorkerIsSound(v)'
  <2>1. job[v] # NoTask => job[v] \in Tasks
    BY <1>0 DEF TypeOK
  <2>2. QED
    BY <1>1, <1>4, <2>1, OthersKeep
<1>6. ASSUME NEW u \in Tasks PROVE RowIsSound(u)'
  <2>1. RowIsSound(u)
    BY DEF TasksInv
  <2>2. /\ row'[u].status = row[u].status /\ row'[u].attempts = row[u].attempts /\ row'[u].holder = row[u].holder
        /\ row'[u].status = "none" => row'[u] = row[u]
    BY <1>0, <1>1
  <2>3. QED
    BY <1>4, <2>1, <2>2 DEF RowIsSound
<1>7. ASSUME NEW m \in Messages PROVE TextIsFrozen(m)'
  BY <1>1, <1>4 DEF TextIsFrozen, TasksInv, MailIsSound
<1>8. ASSUME NEW m \in Messages PROVE DeliveriesAreExcused(m)'
  <2>1. MayDeliver(m)' = MayDeliver(m)
    BY <1>4 DEF MayDeliver
  <2>2. CASE t = Notice(m) /\ job[w] = t
    <3>1. surplus'[m] + Cardinality(MayDeliver(m)') <= surplus[m] + Cardinality(MayDeliver(m)) - 1
      BY <1>2, <2>1, <2>2, MayDeliverCount
    <3>2. QED
      BY <1>2, <2>1, <3>1, MayDeliverCount, Balanced
  <2>3. CASE ~(t = Notice(m) /\ job[w] = t)
    <3>1. surplus'[m] = surplus[m]
      BY <1>2, <2>3
    <3>2. Accounted(m) => Accounted(m)'
      <4>1. CASE t = Notice(m)
        BY <1>0, <2>3, <4>1 DEF Accounted, IsDelivering
      <4>2. CASE t # Notice(m)
        BY <1>1, <1>4, <4>2 DEF Accounted, IsDelivering, Live, Done
      <4>3. QED
        BY <4>1, <4>2
    <3>3. QED
      BY <1>4, <3>1, <3>2, SameMail
  <2>4. QED
    BY <2>2, <2>3
<1>9. Capped' /\ SendersAgree'
  <2>1. LiveAI' \subseteq LiveAI
    BY <1>1 DEF LiveAI, Live
  <2>2. QED
    BY <1>4, <2>1, LiveShrinks DEF TasksInv, SendersAgree
<1>10. QED
  BY <1>3, <1>5, <1>6, <1>7, <1>8, <1>9 DEF TasksInv, MailIsSound

\* Rows change while the workers stay where they are: those that change are let go of.
LEMMA RowsChange ==
  ASSUME TasksInv, TypeOK', UNCHANGED <<workVars, seenVars>>,
         \A u \in Tasks : row'[u] = row[u] \/ row'[u].holder = NoWorker,
         \A u \in Tasks : row[u].status \in {"ready", "gone"} => row'[u].status \in {row[u].status, "gone"},
         \A u \in Tasks : row'[u].status = "gone" \/ row'[u].payload = row[u].payload,
         \A u \in Tasks : \/ row'[u].status = "gone"
                          \/ u[1] \in summary \cup redoing => u[1] \in summary' \cup redoing',
         \A u \in Tasks : RowIsSound(u)',
         \A u \in Tasks : Live(u) => row'[u] = row[u] \/ row'[u].status = "gone",
         \A u \in Tasks : Live(u)' => row'[u] = row[u]
  PROVE  TasksInv'
<1>0. UNCHANGED <<pc, job, note, end, sent, surplus>> /\ TypeOK /\ NoWorker \notin Workers
  BY MailTasksAssumption DEF workVars, seenVars, TasksInv, MailTasksAssumption
<1>1. ASSUME NEW v \in Workers PROVE WorkerIsSound(v)'
  <2>1. job[v] # NoTask => job[v] \in Tasks
    BY <1>0 DEF TypeOK
  <2>2. QED
    BY <1>0, <2>1, OthersKeep
<1>2. ASSUME NEW m \in Messages PROVE TextIsFrozen(m)'
  <2>1. TextIsFrozen(m)
    BY DEF TasksInv, MailIsSound
  <2>2. QED
    BY <1>0, <2>1 DEF TextIsFrozen
<1>3. ASSUME NEW m \in Messages PROVE DeliveriesAreExcused(m)'
  <2>1. ASSUME Accounted(m) PROVE Accounted(m)'
    <3>1. PICK t \in Tasks : /\ t = Notice(m)
                             /\ row[t].status \in {"ready", "gone"} \/ \E w \in Workers : IsDelivering(w, t)
      BY <2>1 DEF Accounted
    <3>2. CASE row[t].status \in {"ready", "gone"}
      <4>1. row'[t].status \in {"ready", "gone"}
        BY <3>2
      <4>2. QED
        BY <3>1, <4>1 DEF Accounted
    <3>3. CASE \E w \in Workers : IsDelivering(w, t)
      <4>1. PICK w \in Workers : IsDelivering(w, t)
        BY <3>3
      <4>2. row'[t] = row[t] \/ row'[t].status = "gone"
        BY <4>1 DEF IsDelivering
      <4>3. row'[t] = row[t] => IsDelivering(w, t)'
        BY <1>0, <4>1 DEF IsDelivering, Live, Done
      <4>4. QED
        BY <3>1, <4>2, <4>3 DEF Accounted
    <3>4. QED
      BY <3>1, <3>2, <3>3
  <2>2. QED
    BY <1>0, <2>1, SameMail
<1>4. Capped'
  <2>1. LiveAI' \subseteq LiveAI
    BY DEF LiveAI, Live
  <2>2. QED
    BY <2>1, LiveShrinks
<1>5. SendersAgree'
  BY <1>0 DEF TasksInv, SendersAgree
<1>6. QED
  BY <1>1, <1>2, <1>3, <1>4, <1>5 DEF TasksInv, MailIsSound

LEMMA EnqueueStep ==
  ASSUME TasksInv, NEW m \in Messages, Enqueue(m)
  PROVE  TasksInv'
<1> DEFINE New == [Nothing EXCEPT !.status = "pending"]
<1>0. /\ TypeOK /\ row \in [Tasks -> Rows] /\ due \in SUBSET Tasks
      /\ UNCHANGED <<waited, summary, redoing, life, workVars, seenVars, runs, hopeless, boundVars>>
  BY DEF TasksInv, TypeOK, Enqueue
<1>1. PICK wanted \in SUBSET Types[m] : /\ row' = [t \in Tasks |-> IF t \in {m} \X wanted THEN New ELSE row[t]]
                                        /\ due' = due \cup ({m} \X wanted)
  BY DEF Enqueue
<1>2. ASSUME NEW u \in {m} \X wanted PROVE u \in Tasks /\ row[u] = Nothing
  <2>1. PICK k \in Types[m] : u = <<m, k>>
    OBVIOUS
  <2>2. u \in Tasks /\ row[u].status = "none"
    BY <2>1, TaskForm DEF Enqueue
  <2>3. QED
    BY <2>2 DEF TasksInv, RowIsSound
<1>3. /\ New \in Rows /\ New.status = "pending" /\ New.attempts = 0 /\ New.holder = NoWorker /\ New.payload = "none"
      /\ Nothing.status = "none" /\ Nothing.attempts = 0 /\ Nothing.holder = NoWorker /\ Nothing.payload = "none"
  BY DEF Nothing, Rows, Texts
<1>4. PICK new \in Rows : new = New
  BY <1>3
<1>5. \A u \in Tasks : row'[u] = row[u] \/ (row[u] = Nothing /\ row'[u] = new)
  BY <1>1, <1>2, <1>4
<1>6. row' \in [Tasks -> Rows] /\ due' \in SUBSET Tasks
  <2>1. due' \in SUBSET Tasks
    BY <1>0, <1>1, <1>2
  <2>2. row' \in [Tasks -> Rows]
    BY <1>0, <1>1, <1>4
  <2>3. QED
    BY <2>1, <2>2
<1>7. TypeOK'
  BY <1>0, <1>6 DEF TypeOK, workVars, seenVars, boundVars
<1>8. ASSUME NEW u \in Tasks PROVE RowIsSound(u)'
  <2>1. RowIsSound(u) /\ UNCHANGED <<runs, hopeless, summary, redoing, sent>>
    BY <1>0 DEF TasksInv, seenVars
  <2>2. CASE row'[u] = row[u]
    BY <2>1, <2>2 DEF RowIsSound
  <2>3. CASE row[u] = Nothing /\ row'[u] = new
    BY <1>3, <1>4, <2>1, <2>3 DEF RowIsSound
  <2>4. QED
    BY <1>5, <2>2, <2>3
<1>9. ASSUME NEW u \in Tasks
      PROVE  /\ row'[u] = row[u] \/ row'[u].holder = NoWorker
             /\ row[u].status \in {"ready", "gone"} => row'[u].status \in {row[u].status, "gone"}
             /\ row'[u].payload = row[u].payload
             /\ Live(u) => row'[u] = row[u]
             /\ Live(u)' => row'[u] = row[u]
  BY <1>3, <1>4, <1>5 DEF Live
<1>10. QED
  BY <1>0, <1>7, <1>8, <1>9, RowsChange

LEMMA RetryStep ==
  ASSUME TasksInv, NEW t \in Tasks, Retry(t)
  PROVE  TasksInv'
<1>0. /\ TypeOK /\ row \in [Tasks -> Rows] /\ row[t].status = "failed" /\ row[t].holder = NoWorker /\ row[t] \in Rows
      /\ Limit(t) \in Nat
      /\ UNCHANGED <<waited, summary, redoing, life, workVars, seenVars, losses, stops>>
  BY HeldRows DEF TasksInv, TypeOK, Retry, Repeatable
<1>1. PICK new \in Rows : new = [row[t] EXCEPT !.status = "pending", !.attempts = 0]
  BY <1>0 DEF Rows
<1>2. /\ new.status = "pending" /\ new.attempts = 0 /\ new.holder = NoWorker /\ new.payload = row[t].payload
  BY <1>0, <1>1 DEF Rows
<1>3. row' = [row EXCEPT ![t] = new]
  BY <1>0, <1>1 DEF Retry
<1>4. row' \in [Tasks -> Rows] /\ row'[t] = new /\ \A u \in Tasks \ {t} : row'[u] = row[u]
  BY <1>0, <1>1, <1>3
<1>5. runs' \in [Tasks -> Nat] /\ runs'[t] = 0 /\ \A u \in Tasks \ {t} : runs'[u] = runs[u]
  BY <1>0 DEF Retry, TypeOK
<1>6. hopeless' = hopeless \ {t} /\ due' \in SUBSET Tasks /\ retries' \in Nat
  BY <1>0 DEF Retry, TypeOK
<1>7. TypeOK'
  BY <1>0, <1>4, <1>5, <1>6 DEF TypeOK, workVars, seenVars
<1>8. ASSUME NEW u \in Tasks PROVE RowIsSound(u)'
  <2>1. RowIsSound(u) /\ UNCHANGED <<summary, redoing, sent>>
    BY <1>0 DEF TasksInv, seenVars
  <2>2. CASE u # t
    BY <1>4, <1>5, <1>6, <2>1, <2>2 DEF RowIsSound
  <2>3. CASE u = t
    BY <1>0, <1>2, <1>4, <1>5, <2>1, <2>3 DEF RowIsSound
  <2>4. QED
    BY <2>2, <2>3
<1>9. ASSUME NEW u \in Tasks
      PROVE  /\ row'[u] = row[u] \/ row'[u].holder = NoWorker
             /\ row[u].status \in {"ready", "gone"} => row'[u].status \in {row[u].status, "gone"}
             /\ row'[u].payload = row[u].payload
             /\ Live(u) => row'[u] = row[u]
             /\ Live(u)' => row'[u] = row[u]
  BY <1>0, <1>2, <1>4 DEF Live
<1>10. QED
  BY <1>0, <1>7, <1>8, <1>9, RowsChange

LEMMA DeleteMessageStep ==
  ASSUME TasksInv, NEW m \in Messages, DeleteMessage(m)
  PROVE  TasksInv'
<1>0. /\ TypeOK /\ row \in [Tasks -> Rows]
      /\ UNCHANGED <<life, workVars, seenVars, boundVars>>
  BY DEF TasksInv, TypeOK, DeleteMessage
<1>1. PICK gone \in Rows : gone = [Nothing EXCEPT !.status = "gone"]
  BY DEF Nothing, Rows, Texts
<1>2. gone.status = "gone" /\ gone.attempts = 0 /\ gone.holder = NoWorker
  BY <1>1 DEF Nothing
<1>3. row' = [t \in Tasks |-> IF t[1] = m THEN gone ELSE row[t]]
  BY <1>1 DEF DeleteMessage
<1>4. /\ row' \in [Tasks -> Rows]
      /\ \A u \in Tasks : IF u[1] = m THEN row'[u] = gone ELSE row'[u] = row[u]
  BY <1>0, <1>1, <1>3
<1>5. /\ runs' \in [Tasks -> Nat]
      /\ \A u \in Tasks : IF u[1] = m THEN runs'[u] = 0 ELSE runs'[u] = runs[u]
  BY <1>0 DEF DeleteMessage, TypeOK
<1>6. /\ hopeless' = {t \in hopeless : t[1] # m} /\ due' \in SUBSET Tasks /\ waited' \in SUBSET Messages
      /\ summary' = summary \ {m} /\ redoing' = redoing \ {m} /\ hopeless' \in SUBSET Tasks
      /\ summary' \in SUBSET Messages /\ redoing' \in SUBSET Messages
  BY <1>0 DEF DeleteMessage, TypeOK
<1>7. TypeOK'
  BY <1>0, <1>4, <1>5, <1>6 DEF TypeOK, workVars, seenVars, boundVars
<1>8. ASSUME NEW u \in Tasks PROVE RowIsSound(u)'
  <2>1. RowIsSound(u) /\ UNCHANGED sent /\ Limit(u) \in Nat
    BY <1>0, TaskForm DEF TasksInv, seenVars
  <2>2. CASE u[1] # m
    BY <1>4, <1>5, <1>6, <2>1, <2>2 DEF RowIsSound
  <2>3. CASE u[1] = m
    BY <1>2, <1>4, <1>5, <2>1, <2>3 DEF RowIsSound
  <2>4. QED
    BY <2>2, <2>3
<1>9. ASSUME NEW u \in Tasks
      PROVE  /\ row'[u] = row[u] \/ row'[u].holder = NoWorker
             /\ row[u].status \in {"ready", "gone"} => row'[u].status \in {row[u].status, "gone"}
             /\ row'[u].status = "gone" \/ row'[u].payload = row[u].payload
             /\ \/ row'[u].status = "gone"
                \/ u[1] \in summary \cup redoing => u[1] \in summary' \cup redoing'
             /\ Live(u) => row'[u] = row[u] \/ row'[u].status = "gone"
             /\ Live(u)' => row'[u] = row[u]
  BY <1>2, <1>4, <1>6 DEF Live
<1>10. QED
  BY <1>0, <1>7, <1>8, <1>9, RowsChange

\* One row changes and keeps its text.
LEMMA OneRow ==
  ASSUME TasksInv, NEW t \in Tasks, RowIsSound(t)', row'[t].status # "gone", row[t].status # "gone",
         row'[t].payload = row[t].payload,
         \A u \in Tasks \ {t} : row'[u] = row[u] /\ runs'[u] = runs[u] /\ (u \in hopeless => u \in hopeless'),
         UNCHANGED <<summary, redoing, sent>>
  PROVE  /\ \A u \in Tasks : RowIsSound(u)'
         /\ \A m \in Messages : TextIsFrozen(m)'
<1>1. ASSUME NEW u \in Tasks PROVE RowIsSound(u)'
  <2>1. RowIsSound(u)
    BY DEF TasksInv
  <2>2. CASE u = t
    BY <2>2
  <2>3. CASE u # t
    BY <2>1, <2>3 DEF RowIsSound
  <2>4. QED
    BY <2>2, <2>3
<1>2. ASSUME NEW m \in Messages PROVE TextIsFrozen(m)'
  <2>1. TextIsFrozen(m)
    BY DEF TasksInv, MailIsSound
  <2>2. \A u \in Tasks : row'[u].payload = row[u].payload /\ (row[u].status = "gone" => row'[u].status = "gone")
    OBVIOUS
  <2>3. QED
    BY <2>1, <2>2 DEF TextIsFrozen
<1>3. QED
  BY <1>1, <1>2

LEMMA ClaimStep ==
  ASSUME TasksInv, NEW w \in Workers, Claim(w)
  PROVE  TasksInv'
<1>0. /\ TypeOK /\ row \in [Tasks -> Rows] /\ pc[w] = "idle" /\ job[w] = NoTask /\ NoTask \notin Tasks /\ NoWorker \notin Workers
      /\ UNCHANGED <<mailVars, life, seenVars, hopeless, boundVars>> /\ UNCHANGED <<due, waited, summary, redoing, sent, surplus>>
  BY MailTasksAssumption DEF TasksInv, TypeOK, Claim, WorkerIsSound, AtItsLane, MailTasksAssumption, mailVars, seenVars
<1>1. PICK t \in Tasks :
        /\ Candidate(w, t)
        /\ row' = [row EXCEPT ![t] = Claimed(@, w)]
        /\ job' = [job EXCEPT ![w] = t]
        /\ note' = [note EXCEPT ![w] = row[t].payload]
        /\ IF Exhausted(t)
             THEN /\ pc' = [pc EXCEPT ![w] = "settle"]
                  /\ end' = [end EXCEPT ![w] = "permanent"]
                  /\ UNCHANGED runs
             ELSE /\ pc' = [pc EXCEPT ![w] = "begin"]
                  /\ UNCHANGED end
                  /\ runs' = [runs EXCEPT ![t] = @ + 1]
  BY DEF Claim
<1>2. /\ row[t] \in Rows /\ row[t].attempts \in Nat /\ row[t].payload \in Texts /\ Limit(t) \in Nat /\ Limit(t) # 0
      /\ row[t].status \in {"pending", "running"} /\ ~Live(t) /\ LaneOf(t) = Lane[w]
  BY <1>0, <1>1, HeldRows DEF Candidate, Ready, Live, Rows
<1>3. PICK new \in Rows : new = Claimed(row[t], w)
  <2>1. PICK n \in Nat : n = row[t].attempts + 1
    BY <1>2
  <2>2. [row[t] EXCEPT !.status = "running", !.attempts = n, !.holder = w, !.lease = "live"] \in Rows
    BY <1>2 DEF Rows
  <2>3. Claimed(row[t], w) = [row[t] EXCEPT !.status = "running", !.attempts = n, !.holder = w, !.lease = "live"]
    BY <1>2, <2>1 DEF Claimed, Rows
  <2>4. QED
    BY <2>2, <2>3
<1>4. /\ new.status = "running" /\ new.attempts = row[t].attempts + 1 /\ new.holder = w /\ new.lease = "live"
      /\ new.payload = row[t].payload
  BY <1>2, <1>3 DEF Claimed, Rows
<1>5. row' \in [Tasks -> Rows] /\ row'[t] = new /\ \A u \in Tasks \ {t} : row'[u] = row[u]
  BY <1>0, <1>1, <1>3
<1>6. /\ job' \in [Workers -> Tasks \cup {NoTask}] /\ note' \in [Workers -> Texts] /\ end' \in [Workers -> Ends]
      /\ pc' \in [Workers -> Places] /\ runs' \in [Tasks -> Nat]
  BY <1>0, <1>1, <1>2 DEF TypeOK, Places, Ends
<1>7. TypeOK'
  BY <1>0, <1>5, <1>6 DEF TypeOK, mailVars, seenVars, boundVars, Places
<1>8. \A v \in Workers \ {w} : pc'[v] = pc[v] /\ job'[v] = job[v] /\ note'[v] = note[v] /\ end'[v] = end[v]
  BY <1>0, <1>1 DEF TypeOK
<1>9. /\ job'[w] = t /\ note'[w] = row[t].payload /\ \A u \in Tasks \ {t} : runs'[u] = runs[u]
      /\ Exhausted(t) => pc'[w] = "settle" /\ end'[w] = "permanent" /\ runs'[t] = runs[t]
      /\ ~Exhausted(t) => pc'[w] = "begin" /\ runs'[t] = runs[t] + 1
  BY <1>0, <1>1 DEF TypeOK
<1>10. Exhausted(t) <=> row[t].attempts + 1 > Limit(t)
  BY DEF Exhausted, Limit
<1>11. ASSUME NEW v \in Workers \ {w} PROVE WorkerIsSound(v)'
  <2>1. job[v] # NoTask => job[v] \in Tasks
    BY <1>0 DEF TypeOK
  <2>2. QED
    BY <1>0, <1>2, <1>4, <1>5, <1>8, <2>1, OthersKeep
<1>12. WorkerIsSound(w)'
  <2>1. AtItsLane(w)'
    BY <1>0, <1>2, <1>9 DEF AtItsLane, LaneOf
  <2>2. WithinLimit(w)'
    BY <1>2, <1>4, <1>5, <1>9, <1>10 DEF WithinLimit, Owns, Limit
  <2>3. HasResult(w)'
    BY <1>9 DEF HasResult, Done
  <2>4. HoldsText(w)'
    BY <1>4, <1>5, <1>9 DEF HoldsText
  <2>5. QED
    BY <2>1, <2>2, <2>3, <2>4 DEF WorkerIsSound
<1>13. SendersAgree'
  <2>1. pc'[w] # "send"
    BY <1>9
  <2>2. QED
    BY <1>8, <2>1 DEF TasksInv, SendersAgree
<1>14. RowIsSound(t)'
  <2>1. runs[t] = IF row[t].attempts <= Limit(t) THEN row[t].attempts ELSE Limit(t)
    BY DEF TasksInv, RowIsSound
  <2>2. PICK a \in Nat, l \in Nat : a = row[t].attempts /\ l = Limit(t)
    BY <1>2
  <2>3. runs'[t] = IF a + 1 <= l THEN a + 1 ELSE l
    BY <1>9, <1>10, <2>1, <2>2
  <2>4. QED
    BY <1>0, <1>4, <1>5, <2>2, <2>3 DEF RowIsSound, Limit
<1>15. (\A u \in Tasks : RowIsSound(u)') /\ (\A m \in Messages : TextIsFrozen(m)')
  BY <1>0, <1>2, <1>4, <1>5, <1>9, <1>14, OneRow
<1>16. ASSUME NEW m \in Messages PROVE DeliveriesAreExcused(m)'
  <2>1. CASE t # Notice(m)
    <3>1. Accounted(m) => Accounted(m)'
      BY <1>0, <1>5, <1>8, <2>1 DEF Accounted, IsDelivering, Live, Done
    <3>2. \A v \in Workers : /\ job'[v] = Notice(m) /\ pc'[v] \in Before => job[v] = Notice(m) /\ pc[v] \in Before
                             /\ job[v] = Notice(m) /\ pc[v] \in Before => job'[v] = Notice(m) /\ pc'[v] \in Before
      BY <1>0, <1>8, <1>9, <2>1 DEF Before
    <3>3. QED
      BY <1>0, <3>1, <3>2, SameMail
  <2>2. CASE t = Notice(m)
    <3>1. ~Accounted(m)
      BY <1>2, <2>2 DEF Accounted, IsDelivering
    <3>2. CASE Exhausted(t)
      <4>1. \A v \in Workers : /\ job'[v] = Notice(m) /\ pc'[v] \in Before => job[v] = Notice(m) /\ pc[v] \in Before
                               /\ job[v] = Notice(m) /\ pc[v] \in Before => job'[v] = Notice(m) /\ pc'[v] \in Before
        BY <1>0, <1>8, <1>9, <3>2 DEF Before
      <4>2. QED
        BY <1>0, <3>1, <4>1, SameMail
    <3>3. CASE ~Exhausted(t)
      <4>1. /\ MayDeliver(m)' = MayDeliver(m) \cup {w}
            /\ w \notin MayDeliver(m)
        BY <1>0, <1>8, <1>9, <2>2, <3>3 DEF MayDeliver, Before
      <4>2. IsFiniteSet(MayDeliver(m)') /\ Cardinality(MayDeliver(m)') = Cardinality(MayDeliver(m)) + 1
        BY <4>1, MayDeliverCount, FS_AddElement
      <4>3. surplus'[m] + Cardinality(MayDeliver(m)') <= 1
        BY <1>0, <3>1, <4>2, MayDeliverCount
      <4>4. IsDelivering(w, t)'
        BY <1>4, <1>5, <1>9, <3>3 DEF IsDelivering, Live, Before
      <4>5. Accounted(m)'
        BY <2>2, <4>4 DEF Accounted
      <4>6. QED
        BY <4>2, <4>3, <4>5 DEF DeliveriesAreExcused
    <3>4. QED
      BY <3>2, <3>3
  <2>3. QED
    BY <2>1, <2>2
<1>17. Capped'
  <2>1. LiveAI' \subseteq LiveAI \cup {t} /\ t \notin LiveAI
    BY <1>2, <1>5 DEF LiveAI, Live
  <2>2. CASE t[2] \notin AITypes
    <3>1. LiveAI' \subseteq LiveAI
      BY <2>1, <2>2 DEF LiveAI
    <3>2. QED
      BY <3>1, LiveShrinks
  <2>3. CASE t[2] \in AITypes
    <3>1. IsFiniteSet(LiveAI) /\ Cardinality(LiveAI) < MaxAI
      BY <1>1, <2>3 DEF Candidate, Capacity, LiveAI, TasksInv, Capped
    <3>2. IsFiniteSet(LiveAI \cup {t}) /\ Cardinality(LiveAI \cup {t}) = Cardinality(LiveAI) + 1
      BY <2>1, <3>1, FS_AddElement
    <3>3. IsFiniteSet(LiveAI') /\ Cardinality(LiveAI') <= Cardinality(LiveAI \cup {t})
      BY <2>1, <3>2, FS_Subset
    <3>4. Cardinality(LiveAI) \in Nat /\ Cardinality(LiveAI') \in Nat /\ MaxAI \in Nat
      BY <3>1, <3>3, FS_CardinalityType, MailTasksAssumption DEF MailTasksAssumption
    <3>5. QED
      BY <3>1, <3>2, <3>3, <3>4 DEF Capped
  <2>4. QED
    BY <2>2, <2>3
<1>18. QED
  BY <1>7, <1>11, <1>12, <1>13, <1>15, <1>16, <1>17 DEF TasksInv, MailIsSound

LEMMA SettleStep ==
  ASSUME TasksInv, NEW w \in Workers, Settle(w)
  PROVE  TasksInv'
<1> DEFINE e == end[w]
<1>0. /\ TypeOK /\ row \in [Tasks -> Rows] /\ WorkerIsSound(w) /\ pc[w] = "settle" /\ Forget(w)
      /\ job[w] # NoTask /\ job[w] \in Tasks /\ e \in Ends /\ NoTask \notin Tasks /\ NoWorker \notin Workers
      /\ UNCHANGED <<waited, summary, redoing, life, seenVars, boundVars>> /\ UNCHANGED <<sent, surplus>>
  BY MailTasksAssumption DEF TasksInv, Settle, WorkerIsSound, AtItsLane, TypeOK, MailTasksAssumption, seenVars
<1>1. /\ Moves(w) /\ pc'[w] = "idle" /\ job'[w] = NoTask /\ WorkerIsSound(w)' /\ pc' \in [Workers -> Places]
      /\ job' \in [Workers -> Tasks \cup {NoTask}] /\ note' \in [Workers -> Texts] /\ end' \in [Workers -> Ends]
  BY <1>0, Gone DEF Places
<1>2. CASE ~Owns(w)
  <2>1. UNCHANGED <<row, due, runs, hopeless>>
    BY <1>2 DEF Settle
  <2>2. TypeOK'
    BY <1>0, <1>1, <2>1 DEF TypeOK, seenVars, boundVars, Places
  <2>3. Accounts(w)
    BY <1>0, <1>1, <1>2 DEF Accounts, Before
  <2>4. QED
    BY <1>0, <1>1, <2>1, <2>2, <2>3, WorkerSteps
<1>3. CASE Owns(w)
  <2>1. PICK t \in Tasks : t = job[w]
    BY <1>0
  <2>2. PICK s \in {"ready", "skipped", "pending", "failed"} : s = Outcome(t, e)
    BY DEF Outcome
  <2>3. /\ row' = [row EXCEPT ![t].status = s, ![t].attempts = Refunded(@, e), ![t].holder = NoWorker, ![t].lease = "none"]
        /\ due' = IF e = "interrupted" THEN due \cup {t} ELSE due \ {t}
        /\ runs' = IF e = "interrupted" /\ runs[t] > 0 THEN [runs EXCEPT ![t] = @ - 1] ELSE runs
        /\ hopeless' = IF s = "failed" /\ e # "transient" /\ row[t].attempts <= Limit(t)
                         THEN hopeless \cup {t} ELSE hopeless
    BY <1>3, <2>1, <2>2 DEF Settle, Limit
  <2>4. /\ row[t] \in Rows /\ row[t].attempts \in Nat /\ row[t].holder = w /\ row[t].status = "running"
        /\ Limit(t) \in Nat /\ Limit(t) # 0
    <3>1. row[t] \in Rows /\ row[t].holder = w /\ w # NoWorker
      BY <1>0, <1>3, <2>1 DEF Owns
    <3>2. QED
      BY <3>1, HeldRows DEF Rows
  <2>5. PICK n \in Nat : n = Refunded(row[t].attempts, e)
    BY <2>4 DEF Refunded
  <2>6. PICK new \in Rows : new = [row[t] EXCEPT !.status = s, !.attempts = n, !.holder = NoWorker, !.lease = "none"]
    BY <2>4 DEF Rows
  <2>7. /\ new.status = s /\ new.attempts = n /\ new.holder = NoWorker /\ new.lease = "none"
        /\ new.payload = row[t].payload
    BY <2>4, <2>6 DEF Rows
  <2>8. row' = [row EXCEPT ![t] = new]
    BY <1>0, <2>3, <2>4, <2>5, <2>6
  <2>9. row' \in [Tasks -> Rows] /\ row'[t] = new /\ \A u \in Tasks \ {t} : row'[u] = row[u]
    BY <1>0, <2>6, <2>8
  <2>10. /\ runs' \in [Tasks -> Nat] /\ due' \in SUBSET Tasks /\ hopeless' \in SUBSET Tasks /\ hopeless \subseteq hopeless'
         /\ \A u \in Tasks \ {t} : runs'[u] = runs[u]
         /\ runs'[t] = IF e = "interrupted" /\ runs[t] > 0 THEN runs[t] - 1 ELSE runs[t]
    BY <1>0, <2>3 DEF TypeOK
  <2>11. TypeOK'
    BY <1>0, <1>1, <2>9, <2>10 DEF TypeOK, seenVars, boundVars, Places
  <2>12. ASSUME NEW v \in Workers \ {w} PROVE WorkerIsSound(v)'
    <3>1. job[v] # NoTask => job[v] \in Tasks
      BY <1>0 DEF TypeOK
    <3>2. pc'[v] = pc[v] /\ job'[v] = job[v] /\ note'[v] = note[v] /\ end'[v] = end[v]
      BY <1>1 DEF Moves
    <3>3. QED
      BY <1>0, <2>4, <2>7, <2>9, <3>1, <3>2, OthersKeep
  <2>13. SendersAgree'
    BY <1>1, SendersKept
  <2>14. s = "ready" => e = "ready"
    BY <2>2 DEF Outcome
  <2>15. RowIsSound(t)'
    <3>1. runs[t] = IF row[t].attempts <= Limit(t) THEN row[t].attempts ELSE Limit(t)
      BY DEF TasksInv, RowIsSound
    <3>2. PICK a \in Nat, l \in Nat, r \in Nat : a = row[t].attempts /\ l = Limit(t) /\ r = runs'[t]
      BY <2>4, <2>10
    <3>3. a <= l \/ e = "permanent"
      BY <1>0, <1>3, <2>1, <3>2 DEF WorkerIsSound, WithinLimit, Limit
    <3>4. r = IF n <= l THEN n ELSE l
      <4>1. n = IF e = "interrupted" /\ a > 0 THEN a - 1 ELSE a
        BY <2>5, <3>2 DEF Refunded
      <4>2. runs[t] = IF a <= l THEN a ELSE l
        BY <3>1, <3>2
      <4>3. r = IF e = "interrupted" /\ runs[t] > 0 THEN runs[t] - 1 ELSE runs[t]
        BY <2>10, <3>2
      <4>4. QED
        BY <3>3, <4>1, <4>2, <4>3
    <3>5. ASSUME s = "failed" PROVE t \in hopeless' \/ r = l
      <4>1. ~Retryable(t, e) /\ e \notin {"ready", "skipped", "interrupted"}
        BY <2>2, <3>5 DEF Outcome, Retryable
      <4>2. e = "transient" => a >= l
        BY <3>2, <4>1 DEF Retryable, Limit
      <4>3. n = a
        BY <2>5, <3>2, <4>1 DEF Refunded
      <4>4. a <= l /\ e # "transient" => t \in hopeless'
        BY <2>3, <3>2, <3>5
      <4>5. QED
        BY <3>4, <4>2, <4>3, <4>4
    <3>6. s = "ready" => /\ t[2] = "analysis" => t[1] \in summary \cup redoing
                         /\ t[2] = "notification" => sent[t[1]] # {}
      BY <1>0, <2>1, <2>4, <2>14 DEF WorkerIsSound, HasResult, Done
    <3>7. QED
      BY <1>0, <2>7, <2>9, <3>2, <3>4, <3>5, <3>6 DEF RowIsSound, Limit
  <2>16. (\A u \in Tasks : RowIsSound(u)') /\ (\A m \in Messages : TextIsFrozen(m)')
    BY <1>0, <2>4, <2>7, <2>9, <2>10, <2>15, OneRow
  <2>17. ASSUME NEW m \in Messages PROVE DeliveriesAreExcused(m)'
    <3>1. ASSUME NEW v \in Workers
          PROVE  /\ job'[v] = Notice(m) /\ pc'[v] \in Before => job[v] = Notice(m) /\ pc[v] \in Before
                 /\ job[v] = Notice(m) /\ pc[v] \in Before => job'[v] = Notice(m) /\ pc'[v] \in Before
      BY <1>0, <1>1 DEF Moves, Before
    <3>2. ASSUME Accounted(m) PROVE Accounted(m)'
      <4>1. PICK u \in Tasks : /\ u = Notice(m)
                               /\ row[u].status \in {"ready", "gone"} \/ \E v \in Workers : IsDelivering(v, u)
        BY <3>2 DEF Accounted
      <4>2. CASE u = t
        <5>1. PICK v \in Workers : IsDelivering(v, t)
          BY <2>4, <4>1, <4>2
        <5>2. e = "ready"
          BY <1>0, <2>4, <5>1 DEF IsDelivering, Before, Done
        <5>3. row'[t].status = "ready"
          BY <2>2, <2>7, <2>9, <5>2 DEF Outcome
        <5>4. QED
          BY <4>1, <4>2, <5>3 DEF Accounted
      <4>3. CASE u # t
        <5>1. row'[u] = row[u]
          BY <2>9, <4>3
        <5>2. ASSUME NEW v \in Workers, IsDelivering(v, u) PROVE IsDelivering(v, u)'
          <6>1. v # w
            BY <2>1, <4>3, <5>2 DEF IsDelivering
          <6>2. QED
            BY <1>1, <5>1, <5>2, <6>1 DEF IsDelivering, Live, Done, Moves
        <5>3. QED
          BY <4>1, <5>1, <5>2 DEF Accounted
      <4>4. QED
        BY <4>2, <4>3
    <3>3. QED
      BY <1>0, <3>1, <3>2, SameMail
  <2>18. Capped'
    <3>1. LiveAI' \subseteq LiveAI
      BY <2>7, <2>9 DEF LiveAI, Live
    <3>2. QED
      BY <3>1, LiveShrinks
  <2>19. QED
    BY <1>1, <2>11, <2>12, <2>13, <2>16, <2>17, <2>18 DEF TasksInv, MailIsSound
<1>4. QED
  BY <1>2, <1>3

-----------------------------------------------------------------------------
(* The invariant holds *)

LEMMA TasksInit == Init => TasksInv
<1> SUFFICES ASSUME Init PROVE TasksInv
  OBVIOUS
<1>0. NoWorker \notin Workers /\ NoTask \notin Tasks /\ MaxAI \in Nat /\ Nothing \in Rows
  BY MailTasksAssumption DEF MailTasksAssumption, Nothing, Rows, Texts
<1>1. TypeOK
  BY <1>0 DEF Init, TypeOK, Texts, Ends
<1>2. /\ \A t \in Tasks : row[t] = Nothing /\ runs[t] = 0
      /\ \A w \in Workers : pc[w] = "idle" /\ job[w] = NoTask
      /\ \A m \in Messages : sent[m] = {} /\ surplus[m] = 0
  BY DEF Init
<1>3. Nothing.status = "none" /\ Nothing.attempts = 0 /\ Nothing.holder = NoWorker
  BY DEF Nothing
<1>4. ASSUME NEW w \in Workers PROVE WorkerIsSound(w)
  BY <1>2, <1>4 DEF WorkerIsSound, AtItsLane, WithinLimit, Owns, HasResult, HoldsText, Done
<1>5. ASSUME NEW t \in Tasks PROVE RowIsSound(t)
  BY <1>2, <1>3, TaskForm DEF RowIsSound
<1>6. ASSUME NEW m \in Messages PROVE MailIsSound(m)
  <2>1. MayDeliver(m) = {}
    BY <1>2 DEF MayDeliver, Before
  <2>2. IsFiniteSet(MayDeliver(m)) /\ Cardinality(MayDeliver(m)) = 0
    BY <2>1, FS_EmptySet
  <2>3. DeliveriesAreExcused(m)
    BY <1>2, <2>2 DEF DeliveriesAreExcused
  <2>4. TextIsFrozen(m)
    BY <1>2 DEF TextIsFrozen
  <2>5. QED
    BY <2>3, <2>4 DEF MailIsSound
<1>7. Capped
  <2>1. LiveAI = {}
    BY <1>2, <1>3 DEF LiveAI, Live
  <2>2. IsFiniteSet(LiveAI) /\ Cardinality(LiveAI) = 0
    BY <2>1, FS_EmptySet
  <2>3. QED
    BY <1>0, <2>2 DEF Capped
<1>8. SendersAgree
  BY <1>2 DEF SendersAgree
<1>9. QED
  BY <1>1, <1>4, <1>5, <1>6, <1>7, <1>8 DEF TasksInv

LEMMA TasksStep ==
  ASSUME TasksInv, [Next]_vars
  PROVE  TasksInv'
<1>1. ASSUME NEW w \in Workers, Execute(w) PROVE TasksInv'
  BY <1>1, SkipOrFail, BeginStep, GenerateOrRecord, ChooseStep, SaveStep, SendStep, AnswerStep, SettleStep,
     SettleFailsStep DEF Execute
<1>2. ASSUME NEW w \in Workers, Claim(w) \/ Runner(w) PROVE TasksInv'
  BY <1>2, ClaimStep, MailSteps, CrashStep DEF Runner
<1>3. ASSUME NEW m \in Messages, Mail(m) PROVE TasksInv'
  BY <1>3, EnqueueStep, DeleteMessageStep, MailSteps DEF Mail
<1>4. ASSUME NEW t \in Tasks, Elapse(t) \/ LeaseOver(t) \/ Retry(t) PROVE TasksInv'
  BY <1>4, MailSteps, LeaseOverStep, RetryStep
<1>5. CASE UNCHANGED vars
  <2>1. TypeOK'
    BY <1>5 DEF TasksInv, TypeOK, vars, mailVars, workVars, seenVars, boundVars
  <2>2. QED
    BY <1>5, <2>1, OnlyMail DEF vars, mailVars
<1>6. QED
  BY <1>1, <1>2, <1>3, <1>4, <1>5 DEF Next

LEMMA TasksInvariant == Spec => []TasksInv
<1>1. TasksInv /\ [Next]_vars => TasksInv'
  BY TasksStep
<1>2. QED
  BY TasksInit, <1>1, PTL DEF Spec

-----------------------------------------------------------------------------
(* The results *)

\* Every variable of the tasks, their workers and the observers has its type.
THEOREM TasksTypesCorrect == Spec => []TypeOK
<1>1. TasksInv => TypeOK
  BY DEF TasksInv
<1>2. QED
  BY TasksInvariant, <1>1, PTL

\* The work that mailstore and its workers report is accounted for, whatever workers overlap, die or
\* lose their leases: no mail is notified with two texts, or twice unless the success of a delivery
\* was lost; what is ready was done; and a task is executed no more often than its limit, and fails
\* for good only on its merits or when the limit is used up.
THEOREM WorkAddsUp == Spec => []WorkIsAccounted
<1>1. ASSUME TasksInv PROVE WorkIsAccounted
  <2>1. ASSUME NEW m \in Messages PROVE Cardinality(sent[m]) <= 1 /\ surplus[m] <= 1
    <3>1. \A x, y \in sent[m] : x = y
      BY <1>1 DEF TasksInv, MailIsSound, TextIsFrozen
    <3>2. ASSUME sent[m] = {} PROVE Cardinality(sent[m]) <= 1
      <4>1. Cardinality(sent[m]) = 0
        BY <3>2, FS_EmptySet, Zenon
      <4>2. QED
        BY <4>1
    <3>3. ASSUME \E x : x \in sent[m] PROVE Cardinality(sent[m]) <= 1
      <4>1. PICK x : x \in sent[m]
        BY <3>3
      <4>2. sent[m] = {x}
        BY <3>1, <4>1
      <4>3. Cardinality(sent[m]) = 1
        BY <4>2, FS_Singleton, Zenon
      <4>4. QED
        BY <4>3
    <3>4. Cardinality(sent[m]) <= 1
      BY <3>2, <3>3
    <3>5. PICK c \in Nat : c = Cardinality(MayDeliver(m))
      BY <1>1, MayDeliverCount
    <3>6. PICK s \in Int : s = surplus[m]
      BY <1>1, MayDeliverCount
    <3>7. s + c <= 1
      BY <1>1, <3>5, <3>6, MayDeliverCount
    <3>8. QED
      BY <3>4, <3>6, <3>7
  <2>2. OneText /\ NotifiedTwiceInDoubt
    BY <2>1 DEF OneText, NotifiedTwiceInDoubt
  <2>3. ASSUME NEW t \in Tasks
        PROVE  /\ row[t].status = "ready" => /\ t[2] = "notification" => sent[t[1]] # {}
                                             /\ t[2] = "analysis" => t[1] \in summary \cup redoing
               /\ runs[t] <= MaxAttempts[t[2]]
               /\ row[t].status = "failed" => t \in hopeless \/ runs[t] = MaxAttempts[t[2]]
    <3>1. RowIsSound(t) /\ row[t].attempts \in Nat /\ Limit(t) \in Nat
      BY <1>1, HeldRows DEF TasksInv, Rows
    <3>2. QED
      BY <3>1 DEF RowIsSound, Limit
  <2>4. ReadyMeansDone /\ BudgetKept
    BY <2>3 DEF ReadyMeansDone, BudgetKept
  <2>5. QED
    BY <2>2, <2>4 DEF WorkIsAccounted
<1>2. QED
  BY TasksInvariant, <1>1, PTL

\* However many processes and mailboxes there are, no more than mailTaskMaxConcurrentAI workers run
\* AI tasks under live leases: the claim counts the leases of the whole table.
THEOREM CapacityKept == Spec => []AICapacity
<1>1. ASSUME TasksInv PROVE AICapacity
  <2> DEFINE busy == {w \in Workers : Working(w) /\ job[w][2] \in AITypes}
             held == {t \in LiveAI : row[t].holder \in busy}
             f == [t \in held |-> row[t].holder]
  <2>1. IsFiniteSet(LiveAI) /\ Cardinality(LiveAI) <= MaxAI /\ MaxAI \in Nat
    BY <1>1, MailTasksAssumption DEF TasksInv, Capped, MailTasksAssumption
  <2>2. IsFiniteSet(held) /\ Cardinality(held) <= Cardinality(LiveAI)
    BY <2>1, FS_Subset
  <2>3. ASSUME NEW w \in busy PROVE \E t \in held : f[t] = w
    <3>1. job[w] \in Tasks /\ row[job[w]].holder = w /\ Live(job[w]) /\ job[w][2] \in AITypes
      BY <1>1 DEF Working, Owns, TasksInv, TypeOK
    <3>2. job[w] \in held
      BY <3>1 DEF LiveAI
    <3>3. QED
      BY <3>1, <3>2
  <2>4. f \in Surjection(held, busy)
    BY <2>3 DEF Surjection
  <2>5. IsFiniteSet(busy) /\ Cardinality(busy) <= Cardinality(held)
    BY <2>2, <2>4, FS_Surjection
  <2>6. Cardinality(busy) \in Nat /\ Cardinality(held) \in Nat /\ Cardinality(LiveAI) \in Nat
    BY <2>1, <2>2, <2>5, FS_CardinalityType
  <2>7. Cardinality(busy) <= MaxAI
    BY <2>1, <2>2, <2>5, <2>6
  <2>8. QED
    BY <2>7 DEF AICapacity
<1>2. QED
  BY TasksInvariant, <1>1, PTL

\* No step runs what has succeeded or was skipped again: not the late settlement of a worker that
\* lost its lease, not a claim, and not an explicit retry.
THEOREM DoneStaysDone == Spec => DoneIsFinal
<1> DEFINE Final == \A t \in Tasks : row[t].status \in {"ready", "skipped"} =>
                      row'[t].status \in {row[t].status, "gone"}
<1>1. ASSUME TasksInv, Next, NEW t \in Tasks, row[t].status \in {"ready", "skipped"}
      PROVE  row'[t].status \in {row[t].status, "gone"}
  <2>0. row \in [Tasks -> Rows] /\ row[t] \in Rows /\ row[t].holder = NoWorker /\ NoWorker \notin Workers
    BY <1>1, HeldRows DEF TasksInv, TypeOK
  <2>1. ASSUME NEW w \in Workers, Claim(w) PROVE row'[t] = row[t]
    <3>1. PICK u \in Tasks : Candidate(w, u) /\ row' = [row EXCEPT ![u] = Claimed(@, w)]
      BY <2>1 DEF Claim
    <3>2. u # t
      BY <1>1, <3>1 DEF Candidate, Ready
    <3>3. QED
      BY <2>0, <3>1, <3>2
  <2>2. ASSUME NEW w \in Workers, Save(w) PROVE row'[t].status = row[t].status
    <3>1. CASE Owns(w)
      <4>1. PICK x : x = note[w]
        OBVIOUS
      <4>2. PICK u \in Tasks : u = job[w]
        BY <1>1, <3>1 DEF Owns, TasksInv, TypeOK
      <4>3. row' = [row EXCEPT ![u].payload = x]
        BY <2>2, <3>1, <4>1, <4>2 DEF Save
      <4>4. QED
        BY <2>0, <4>3 DEF Rows
    <3>2. CASE ~Owns(w)
      BY <2>2, <3>2 DEF Save
    <3>3. QED
      BY <3>1, <3>2
  <2>3. ASSUME NEW w \in Workers, Settle(w) PROVE row'[t] = row[t]
    <3>1. CASE Owns(w)
      <4>1. PICK u \in Tasks : u = job[w] /\ row[u].holder = w
        BY <1>1, <3>1 DEF Owns, TasksInv, TypeOK
      <4>2. u # t
        BY <2>0, <4>1
      <4>3. PICK new : row' = [row EXCEPT ![u] = new]
        BY <2>3, <3>1, <4>1 DEF Settle
      <4>4. QED
        BY <2>0, <4>2, <4>3
    <3>2. CASE ~Owns(w)
      BY <2>3, <3>2 DEF Settle
    <3>3. QED
      BY <3>1, <3>2
  <2>4. ASSUME NEW w \in Workers, Execute(w), ~Save(w), ~Settle(w) PROVE row' = row
    BY <2>4 DEF Execute, Skip, Begin, Generate, Record, Choose, Send, Answer, Fail, SettleFails
  <2>5. ASSUME NEW w \in Workers, Runner(w) PROVE row' = row
    BY <2>5 DEF Runner, Start, Stop, Stopped, Crash
  <2>6. ASSUME NEW m \in Messages, Enqueue(m) PROVE row'[t] = row[t]
    <3>1. PICK wanted \in SUBSET Types[m] :
            row' = [u \in Tasks |-> IF u \in {m} \X wanted THEN [Nothing EXCEPT !.status = "pending"] ELSE row[u]]
      BY <2>6 DEF Enqueue
    <3>2. t \notin {m} \X wanted
      BY <1>1, <2>6 DEF Enqueue
    <3>3. QED
      BY <3>1, <3>2
  <2>7. ASSUME NEW m \in Messages, DeleteMessage(m) PROVE row'[t] = row[t] \/ row'[t].status = "gone"
    <3>0. [Nothing EXCEPT !.status = "gone"].status = "gone"
      BY DEF Nothing
    <3>1. PICK gone : gone = [Nothing EXCEPT !.status = "gone"] /\ gone.status = "gone"
      BY <3>0, Zenon
    <3>2. row' = [u \in Tasks |-> IF u[1] = m THEN gone ELSE row[u]]
      BY <2>7, <3>1 DEF DeleteMessage
    <3>3. QED
      BY <3>1, <3>2
  <2>8. ASSUME NEW m \in Messages, Wait(m) \/ Redo(m) \/ Redone(m) PROVE row' = row
    BY <2>8 DEF Wait, Redo, Redone
  <2>9. ASSUME NEW u \in Tasks, LeaseOver(u) PROVE row'[t] = row[t]
    <3>1. u # t /\ row' = [row EXCEPT ![u].lease = "over"]
      BY <1>1, <2>9 DEF LeaseOver, Live
    <3>2. QED
      BY <2>0, <3>1
  <2>10. ASSUME NEW u \in Tasks, Retry(u) PROVE row'[t] = row[t]
    <3>1. u # t /\ row' = [row EXCEPT ![u].status = "pending", ![u].attempts = 0]
      BY <1>1, <2>10 DEF Retry, Repeatable
    <3>2. QED
      BY <2>0, <3>1
  <2>11. ASSUME NEW u \in Tasks, Elapse(u) PROVE row' = row
    BY <2>11 DEF Elapse
  <2>12. QED
    BY <1>1, <2>1, <2>2, <2>3, <2>4, <2>5, <2>6, <2>7, <2>8, <2>9, <2>10, <2>11 DEF Next, Mail
<1>2. TasksInv /\ [Next]_vars => [Final]_vars
  BY <1>1
<1>3. QED
  BY TasksInvariant, <1>2, PTL DEF Spec, DoneIsFinal

=============================================================================

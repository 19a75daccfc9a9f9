---------------------------- MODULE TaskPoolProofs ----------------------------
(***************************************************************************)
(* TaskPool keeps its types, implements the FIFO lanes of TaskLanes, loses *)
(* and reorders nothing and spreads the tasks, for any number of           *)
(* submitters, tasks and threads and any counter width.                    *)
(***************************************************************************)
EXTENDS TaskPool, SequenceTheorems, FiniteSetTheorems, TLAPS

-----------------------------------------------------------------------------
(* Counting modulo a number, and sequences *)

\* What division and remainder are.
LEMMA DivMod ==
  \A a \in Int, n \in Nat \ {0} :
     /\ a \div n \in Int /\ a % n \in 0 .. n - 1
     /\ a = n * (a \div n) + (a % n)
OBVIOUS

LEMMA Product ==
  \A n \in Nat \ {0}, k \in Int :
     /\ n * k \in Int
     /\ k >= 1 => n * k >= n
     /\ k <= 0 => n * k <= 0
OBVIOUS

\* Counting modulo n.
LEMMA ModSucc ==
  \A a \in Nat, n \in Nat \ {0} :
     (a + 1) % n = IF a % n = n - 1 THEN 0 ELSE (a % n) + 1
<1> SUFFICES ASSUME NEW a \in Nat, NEW n \in Nat \ {0}
             PROVE  (a + 1) % n = IF a % n = n - 1 THEN 0 ELSE (a % n) + 1
  OBVIOUS
<1> DEFINE p == a \div n
           q == (a + 1) \div n
           r == a % n
           s == (a + 1) % n
<1>1. /\ p \in Int /\ r \in 0 .. n - 1 /\ a = n * p + r
      /\ q \in Int /\ s \in 0 .. n - 1 /\ a + 1 = n * q + s
  BY DivMod
<1>2. /\ n * (q - p) = n * q - n * p /\ n * p \in Int /\ n * q \in Int
      /\ n * (q - p - 1) = n * q - n * p - n
      /\ n * (p - q) = n * p - n * q
  BY <1>1
<1> HIDE DEF p, q, r, s
<1>3. q - p >= 0
  <2> SUFFICES ASSUME p - q >= 1 PROVE FALSE
    BY <1>1
  <2>1. n * (p - q) >= n
    BY <1>1, Product
  <2> QED
    BY <1>1, <1>2, <2>1
<1>4. q - p - 1 <= 0
  <2> SUFFICES ASSUME q - p - 1 >= 1 PROVE FALSE
    BY <1>1
  <2>1. n * (q - p - 1) >= n
    BY <1>1, Product
  <2> QED
    BY <1>1, <1>2, <2>1
<1>5. CASE q = p
  <2>1. s = r + 1
    BY <1>1, <1>5
  <2> QED
    BY <1>1, <2>1 DEF r, s
<1>6. CASE q = p + 1
  <2>1. n * (q - p) = n
    BY <1>1, <1>6
  <2>2. s = r + 1 - n
    BY <1>1, <1>2, <2>1
  <2>3. s = 0 /\ r = n - 1
    BY <1>1, <2>2
  <2> QED
    BY <2>3 DEF r, s
<1> QED
  BY <1>1, <1>3, <1>4, <1>5, <1>6

\* Taking the first element of a concatenation takes it from the first part.
LEMMA HeadTailConcat ==
  ASSUME NEW S, NEW s \in Seq(S), NEW t \in Seq(S), s # <<>>
  PROVE  /\ s \o t # <<>>
         /\ Head(s \o t) = Head(s)
         /\ Tail(s \o t) = Tail(s) \o t
<1>1. s \o t \in Seq(S) /\ s \o t # <<>>
  BY ConcatProperties, ConcatEqualIffEmpty
<1>2. Len(s) > 0
  BY EmptySeq, LenProperties
<1>3. Head(s \o t) = Head(s)
  BY <1>1, <1>2, ConcatProperties
<1>4. Tail(s) \in Seq(S) /\ Tail(s) \o t \in Seq(S) /\ Tail(s \o t) \in Seq(S)
  BY <1>1, HeadTailProperties, ConcatProperties
<1>5. Len(Tail(s \o t)) = Len(Tail(s) \o t)
  BY <1>1, <1>4, HeadTailProperties, ConcatProperties
<1>6. ASSUME NEW i \in 1 .. Len(Tail(s \o t))
      PROVE  Tail(s \o t)[i] = (Tail(s) \o t)[i]
  <2>1. Tail(s \o t)[i] = (s \o t)[i + 1]
    BY <1>1, HeadTailProperties
  <2>2. i + 1 \in 1 .. Len(s) + Len(t)
    BY <1>1, HeadTailProperties, ConcatProperties
  <2>3. (s \o t)[i + 1] = IF i + 1 <= Len(s) THEN s[i + 1] ELSE t[i + 1 - Len(s)]
    BY <2>2, ConcatProperties
  <2>4. Len(Tail(s)) = Len(s) - 1
    BY HeadTailProperties
  <2>5. i \in 1 .. Len(Tail(s)) + Len(t)
    BY <2>2, <2>4
  <2>6. (Tail(s) \o t)[i] = IF i <= Len(Tail(s)) THEN Tail(s)[i] ELSE t[i - Len(Tail(s))]
    BY <1>4, <2>5, ConcatProperties
  <2>7. i <= Len(Tail(s)) => Tail(s)[i] = s[i + 1]
    BY <2>4, <2>5, HeadTailProperties
  <2>8. CASE i <= Len(Tail(s))
    BY <2>1, <2>3, <2>4, <2>6, <2>7, <2>8, <1>2
  <2>9. CASE ~(i <= Len(Tail(s)))
    <3>1. i - Len(Tail(s)) = i + 1 - Len(s)
      BY <2>4
    <3> QED
      BY <2>1, <2>3, <2>4, <2>6, <2>9, <1>2, <3>1
  <2> QED
    BY <2>8, <2>9
<1> QED
  BY <1>1, <1>3, <1>4, <1>5, <1>6, SeqEqual

\* Appending to a concatenation appends to the second part.
LEMMA ConcatAppend ==
  ASSUME NEW S, NEW s \in Seq(S), NEW t \in Seq(S), NEW e \in S
  PROVE  s \o Append(t, e) = Append(s \o t, e)
<1>1. Append(t, e) = t \o <<e>> /\ <<e>> \in Seq(S)
  BY AppendIsConcat
<1>2. Append(s \o t, e) = (s \o t) \o <<e>>
  BY ConcatProperties, AppendIsConcat
<1> QED
  BY <1>1, <1>2, ConcatAssociative

\* What is left of a concatenation behind its first part is the second part.
LEMMA DropFirstPart ==
  ASSUME NEW S, NEW s \in Seq(S), NEW t \in Seq(S)
  PROVE  SubSeq(s \o t, Len(s) + 1, Len(s \o t)) = t
<1>1. Len(s \o t) = Len(s) + Len(t) /\ Len(s) \in Nat /\ Len(t) \in Nat
  BY ConcatProperties, LenProperties
<1>2. ASSUME NEW i \in Len(s) + 1 .. Len(s \o t)
      PROVE  (s \o t)[i] \in S /\ (s \o t)[i] = t[i - Len(s)]
  BY <1>1, ConcatProperties, ElementOfSeq
<1> DEFINE u == SubSeq(s \o t, Len(s) + 1, Len(s \o t))
<1>3. /\ u \in Seq(S)
      /\ Len(u) = Len(t)
      /\ \A i \in 1 .. Len(t) : u[i] = (s \o t)[Len(s) + i]
  BY <1>1, <1>2, SubSeqProperties
<1>4. \A i \in 1 .. Len(t) : u[i] = t[i]
  BY <1>1, <1>2, <1>3, SMTT(30)
<1> QED
  BY <1>3, <1>4, SeqEqual

-----------------------------------------------------------------------------

\* A task an addNewTask() call holds is not fresh any more, and no other call
\* holds it.  Without this the put of a task could not be seen as the one moment
\* at which it is accepted: another call could still be about to put it.
HeldOnce ==
    /\ \A s \in Submitter : call[s].task \notin fresh
    /\ \A s, u \in Submitter :
          call[s].task \in Task /\ call[s].task = call[u].task => s = u

\* startAll() is in its loop only while a thread is left to start.
StartBound == main_pc = "starting" => started < N

IInv == TypeOK /\ HeldOnce /\ StartBound

LEMMA IdleType == Idle \in [task : Task \cup {NullTask, NoTask}, thread : Thread]
BY SizeAssumption, SMT DEF Idle, Thread

LEMMA ThreadAtType == \A i \in Nat : ThreadAt(i) \in Thread
BY SizeAssumption, SMT DEF ThreadAt, Thread

-----------------------------------------------------------------------------
LEMMA InitIInv == Init => IInv
<1> SUFFICES ASSUME Init PROVE IInv
  OBVIOUS
<1>1. TypeOK
  <2>1. 0 \in Thread /\ Thread \subseteq Nat
    BY SizeAssumption DEF Thread
  <2>2. call \in [Submitter -> [task : Task \cup {NullTask, NoTask}, thread : Thread]]
    BY IdleType DEF Init
  <2> QED
    BY <2>1, <2>2, SizeAssumption DEF Init, TypeOK
<1>2. HeldOnce
  BY TaskAssumption DEF Init, HeldOnce, Idle
<1> QED
  BY <1>1, <1>2 DEF IInv, StartBound, Init

LEMMA DrawIInv == ASSUME NEW s \in Submitter, NEW k \in Task \cup {NullTask}, IInv, Draw(s, k)
                  PROVE  IInv'
<1> USE DEF IInv
<1> DEFINE c == [task |-> k, thread |-> ThreadAt(cur_thread_idx)]
<1>1. ThreadAt(cur_thread_idx) \in Thread
  BY ThreadAtType, SizeAssumption DEF TypeOK
<1>2. /\ call' = [call EXCEPT ![s] = c]
      /\ c \in [task : Task \cup {NullTask, NoTask}, thread : Thread]
      /\ c.task = k
  BY <1>1 DEF Draw
<1>3. call' \in [Submitter -> [task : Task \cup {NullTask, NoTask}, thread : Thread]]
  BY <1>2 DEF TypeOK
<1>4. \A u \in Submitter : call'[u] = IF u = s THEN c ELSE call[u]
  BY <1>2 DEF TypeOK
<1>5. TypeOK'
  <2>1. cur_thread_idx' \in 0 .. IdxModulus - 1
    BY SizeAssumption DEF Draw, TypeOK
  <2>2. \A u \in Submitter : call'[u].task = NoTask => call'[u] = Idle
    BY <1>2, <1>4, TaskAssumption DEF TypeOK
  <2>3. draws' \in [Thread -> Nat] /\ wraps' \in Nat /\ fresh' \subseteq Task
    <3>1. draws' = [draws EXCEPT ![ThreadAt(cur_thread_idx)] = @ + 1]
      BY DEF Draw
    <3>2. draws[ThreadAt(cur_thread_idx)] + 1 \in Nat
      BY <1>1 DEF TypeOK
    <3>3. draws' \in [Thread -> Nat]
      BY <3>1, <3>2, <1>1 DEF TypeOK
    <3>4. wraps' \in Nat /\ fresh' \subseteq Task
      BY DEF Draw, TypeOK
    <3> QED
      BY <3>3, <3>4
  <2> QED
    BY <1>3, <2>1, <2>2, <2>3 DEF Draw, TypeOK, worker, main
<1>6. HeldOnce'
  <2>1. fresh' = fresh \ {k} /\ (k \in fresh \/ k = NullTask)
    BY DEF Draw
  <2>2. \A u \in Submitter : call'[u].task \notin fresh'
    BY <1>2, <1>4, <2>1 DEF HeldOnce
  <2>3. \A u \in Submitter : call[u].task = k => k = NullTask
    BY <2>1 DEF HeldOnce
  <2> QED
    BY <1>2, <1>4, <2>2, <2>3, TaskAssumption DEF HeldOnce
<1> QED
  BY <1>5, <1>6 DEF StartBound, Draw, main

LEMMA PutIInv == ASSUME NEW s \in Submitter, IInv, Put(s)
                 PROVE  IInv'
<1> USE DEF IInv
<1> DEFINE t == call[s].thread
           k == call[s].task
<1>1. /\ call' = [call EXCEPT ![s] = Idle]
      /\ t \in Thread
      /\ k \in Task \cup {NullTask}
  BY DEF Put, TypeOK
<1>2. \A u \in Submitter : call'[u] = IF u = s THEN Idle ELSE call[u]
  BY <1>1 DEF TypeOK
<1>3. call' \in [Submitter -> [task : Task \cup {NullTask, NoTask}, thread : Thread]]
  BY <1>1, IdleType DEF TypeOK
<1>4. task_queue' \in [Thread -> Seq(Task)] /\ assigned' \in [Thread -> Seq(Task)]
  <2>1. CASE k = NullTask
    BY <2>1 DEF Put, TypeOK
  <2>2. CASE k # NullTask
    <3>1. k \in Task
      BY <1>1, <2>2
    <3>2. /\ task_queue' = [task_queue EXCEPT ![t] = Append(@, k)]
          /\ assigned' = [assigned EXCEPT ![t] = Append(@, k)]
      BY <2>2 DEF Put
    <3>3. /\ Append(task_queue[t], k) \in Seq(Task)
          /\ Append(assigned[t], k) \in Seq(Task)
      BY <1>1, <3>1, AppendProperties DEF TypeOK
    <3> QED
      BY <3>2, <3>3 DEF TypeOK
  <2> QED
    BY <2>1, <2>2
<1>5. TypeOK'
  BY <1>2, <1>3, <1>4 DEF Put, TypeOK, main
<1>6. HeldOnce'
  BY <1>2, TaskAssumption DEF HeldOnce, Put, TypeOK, Idle
<1> QED
  BY <1>5, <1>6 DEF StartBound, Put, main

LEMMA WorkerIInv == ASSUME NEW t \in Thread, IInv, WorkerStep(t)
                    PROVE  IInv'
<1> USE DEF IInv, TypeOK, StartBound
<1>1. call' = call /\ fresh' = fresh
  BY DEF WorkerStep, Take, Work, AddDone, WorkFails, WorkThrows, client
<1>2. HeldOnce'
  BY <1>1 DEF HeldOnce
<1>3. CASE Take(t)
  BY <1>2, <1>3, EmptySeq DEF Take, client, main
<1>4. CASE Work(t)
  <2>1. Head(task_list[t]) \in Task /\ Tail(task_list[t]) \in Seq(Task)
    BY <1>4, HeadTailProperties DEF Work
  <2> QED
    BY <1>2, <1>4, <2>1 DEF Work, client, main
<1>5. CASE AddDone(t)
  <2>1. working[t] \in Task
    BY <1>5 DEF AddDone
  <2>2. task_done' \in Seq(Task)
    BY <1>5, <2>1, AppendProperties DEF AddDone
  <2> QED
    BY <1>2, <1>5, <2>2 DEF AddDone, client, main
<1>6. CASE WorkFails(t)
  BY <1>2, <1>6 DEF WorkFails, client, main
<1>7. CASE WorkThrows(t)
  BY <1>2, <1>7 DEF WorkThrows, client, worker, main
<1> QED
  BY <1>3, <1>4, <1>5, <1>6, <1>7 DEF WorkerStep

LEMMA ElementsOfSeq == ASSUME NEW s \in Seq(Task) PROVE ToSet(s) \subseteq Task
BY ElementOfSeq, LenProperties DEF ToSet

LEMMA MainIInv == ASSUME IInv, MainLoop \/ StartAll \/ StartThread \/ JoinAll
                  PROVE  IInv'
<1> USE DEF IInv, TypeOK, StartBound, client, worker
<1>1. call' = call /\ fresh' = fresh
  BY DEF MainLoop, TakeDone, Done, DoneThrows, StartAll, StartThread, JoinAll
<1>2. HeldOnce'
  BY <1>1 DEF HeldOnce
<1>3. CASE TakeDone
  BY <1>2, <1>3, EmptySeq DEF TakeDone
<1>4. CASE Done \/ DoneThrows
  <2>1. /\ Head(main_list) \in Task
        /\ Tail(main_list) \in Seq(Task)
        /\ main_list # <<>>
    BY <1>4, HeadTailProperties DEF Done, DoneThrows
  <2>2. called' \in Seq(Task)
    <3>1. called' = Append(called, Head(main_list))
      BY <1>4 DEF Done, DoneThrows
    <3>2. PICK k \in Task : k = Head(main_list)
      BY <2>1
    <3> QED
      BY <3>1, <3>2, AppendProperties
  <2>3. ToSet(Tail(main_list)) \subseteq Task
    BY <2>1, ElementsOfSeq
  <2>4. main_list' \in Seq(Task) /\ dropped' \subseteq Task
    <3>1. CASE Done
      BY <2>1, <3>1 DEF Done
    <3>2. CASE DoneThrows
      BY <2>3, <3>2, EmptySeq DEF DoneThrows
    <3> QED
      BY <1>4, <3>1, <3>2
  <2> QED
    BY <1>2, <1>4, <2>2, <2>4 DEF Done, DoneThrows
<1>5. CASE StartAll
  BY <1>2, <1>5 DEF StartAll
<1>6. CASE StartThread
  BY <1>2, <1>6, SizeAssumption DEF StartThread
<1>7. CASE JoinAll
  BY <1>2, <1>7 DEF JoinAll
<1> QED
  BY <1>3, <1>4, <1>5, <1>6, <1>7 DEF MainLoop

LEMMA StutterIInv == ASSUME IInv, UNCHANGED vars PROVE IInv'
BY DEF IInv, TypeOK, HeldOnce, StartBound, vars, client, worker, main

LEMMA NextIInv == IInv /\ [Next]_vars => IInv'
<1> SUFFICES ASSUME IInv, [Next]_vars PROVE IInv'
  OBVIOUS
<1> QED
  BY DrawIInv, PutIInv, WorkerIInv, MainIInv, StutterIInv DEF Next

\* Every variable keeps its type: in particular the index getThread() computes is
\* always the index of a thread, whatever value the counter starts from and
\* wherever it wraps, so thread_vec_.at() never throws.
THEOREM TypeCorrect == Spec => []TypeOK
<1>1. IInv => TypeOK
  BY DEF IInv
<1> QED
  BY <1>1, InitIInv, NextIInv, PTL DEF Spec

-----------------------------------------------------------------------------
(* The refinement.  What an addNewTask() call holds still counts as fresh. *)

\* The abstract variables, as the INSTANCE in TaskPool maps them.
LaneFresh == fresh \cup InCall
LaneQueue == [t \in Thread |-> task_list[t] \o task_queue[t]]
LaneOut   == main_list \o task_done

\* The steps of the lanes, together with what they do to the history of assignments and
\* to the tasks that were released without a callback.
Accepts(t, k) == /\ Lanes!Accept(t, k)
                 /\ assigned' = [assigned EXCEPT ![t] = Append(@, k)] /\ dropped' = dropped
Begins(t)     == Lanes!Begin(t) /\ assigned' = assigned /\ dropped' = dropped
Completes(t)  == Lanes!Complete(t) /\ assigned' = assigned /\ dropped' = dropped
Discards(t)   == Lanes!Discard(t) /\ assigned' = assigned /\ dropped' = dropped \cup {working[t]}
Calls(n)      == /\ Lanes!Callback(n) /\ assigned' = assigned
                 /\ dropped' = dropped \cup {LaneOut[i] : i \in 2 .. n}
Rests         == /\ Lanes!Terminate \/ UNCHANGED Lanes!vars
                 /\ assigned' = assigned /\ dropped' = dropped

LaneStep == \/ \E t \in Thread : \/ \E k \in Task : Accepts(t, k)
                                 \/ Begins(t) \/ Completes(t) \/ Discards(t)
            \/ \E n \in 1 .. Len(LaneOut) : Calls(n)
            \/ Rests

LEMMA InitLanes == Init => Lanes!Init
<1> SUFFICES ASSUME Init PROVE Lanes!Init
  OBVIOUS
<1>1. InCall = {}
  BY TaskAssumption DEF InCall, Init, Idle
<1>2. <<>> \o <<>> = <<>>
  BY EmptySeq, ConcatEmptySeq
<1> QED
  BY <1>1, <1>2 DEF Lanes!Init, Init

\* The draw of an index is invisible: the task only moves from fresh into the call.
LEMMA DrawLanes == ASSUME IInv, NEW s \in Submitter, NEW k \in Task \cup {NullTask}, Draw(s, k)
                   PROVE  Rests
<1>1. \A u \in Submitter : call'[u].task = IF u = s THEN k ELSE call[u].task
  BY DEF IInv, TypeOK, Draw
<1>2. call[s].task = NoTask
  BY DEF Draw, Idle
<1>3. (k \in Task /\ InCall' = InCall \cup {k}) \/ (k \notin Task /\ InCall' = InCall)
  BY <1>1, <1>2, TaskAssumption DEF InCall
<1>4. (fresh \cup InCall)' = fresh \cup InCall
  BY <1>3, TaskAssumption DEF IInv, TypeOK, Draw
<1> QED
  BY <1>4 DEF Rests, Draw, worker, main, Lanes!vars

LEMMA QueueAppend ==
  \A l, q \in Seq(Task) : \A k \in Task : l \o Append(q, k) = Append(l \o q, k)
BY ConcatAppend

LEMMA PutLanes == ASSUME IInv, NEW s \in Submitter, Put(s)
                  PROVE  LaneStep
<1> USE DEF IInv, TypeOK
<1>1. PICK t \in Thread, k \in Task \cup {NullTask} : t = call[s].thread /\ k = call[s].task
  BY DEF Put
<1>2. \A u \in Submitter : call'[u].task = IF u = s THEN NoTask ELSE call[u].task
  BY DEF Put, Idle
<1>3. CASE k = NullTask
  <2>1. InCall' = InCall
    BY <1>1, <1>2, <1>3, TaskAssumption, ZenonT(30) DEF InCall
  <2> QED
    BY <1>1, <1>3, <2>1 DEF LaneStep, Rests, Put, main, Lanes!vars
<1>4. CASE k \in Task
  <2>1. InCall' = InCall \ {k} /\ k \in InCall
    <3>1. \A u \in Submitter : call[u].task = k => u = s
      BY <1>1, <1>4 DEF HeldOnce
    <3>2. \A j \in Task : (\E u \in Submitter : call'[u].task = j)
                            <=> j # k /\ \E u \in Submitter : call[u].task = j
      BY <1>1, <1>2, <3>1, TaskAssumption
    <3> QED
      BY <1>1, <1>4, <3>2 DEF InCall
  <2>2. (fresh \cup InCall)' = (fresh \cup InCall) \ {k}
    BY <1>1, <2>1 DEF HeldOnce, Put
  <2>3. task_queue' = [task_queue EXCEPT ![t] = Append(@, k)] /\ task_list' = task_list
    BY <1>1, <1>4, TaskAssumption DEF Put
  <2>4. task_list[t] \o Append(task_queue[t], k) = Append(task_list[t] \o task_queue[t], k)
    <3>1. task_list[t] \in Seq(Task) /\ task_queue[t] \in Seq(Task) /\ k \in Task
      BY <1>4
    <3> QED
      BY <3>1, QueueAppend
  <2>5. LaneQueue' = [LaneQueue EXCEPT ![t] = Append(@, k)]
    BY <1>1, <2>3, <2>4 DEF LaneQueue
  <2>6. Lanes!Accept(t, k)
    BY <1>1, <2>1, <2>2, <2>5 DEF Lanes!Accept, LaneQueue, Put, main
  <2>7. Accepts(t, k)
    BY <1>1, <1>4, <2>6, TaskAssumption DEF Accepts, Put
  <2> QED
    BY <1>1, <1>4, <2>7 DEF LaneStep
<1> QED
  BY <1>1, <1>3, <1>4

\* Moving the queue into the local list leaves their concatenation as it is; work()
\* begins on its head, and its three outcomes are the abstract ones.
LEMMA WorkerLanes == ASSUME IInv, NEW t \in Thread, WorkerStep(t)
                     PROVE  LaneStep
<1> USE DEF IInv, TypeOK
<1>1. UNCHANGED <<fresh \cup InCall, called, main_list>>
  BY DEF WorkerStep, Take, Work, AddDone, WorkFails, WorkThrows, InCall, client, main
<1>2. CASE Take(t)
  <2>1. \A q \in Seq(Task) : <<>> \o q = q /\ q \o <<>> = q
    BY ConcatEmptySeq
  <2>2. \A u \in Thread : task_list'[u] \o task_queue'[u] = task_list[u] \o task_queue[u]
    <3>1. task_list[t] = <<>> /\ task_list'[t] = task_queue[t] /\ task_queue'[t] = <<>>
      BY <1>2 DEF Take
    <3>2. \A u \in Thread \ {t} : task_list'[u] = task_list[u] /\ task_queue'[u] = task_queue[u]
      BY <1>2 DEF Take
    <3>3. task_list'[t] \o task_queue'[t] = task_list[t] \o task_queue[t]
      BY <2>1, <3>1
    <3> QED
      BY <3>2, <3>3
  <2>3. LaneQueue' = LaneQueue
    BY <2>2 DEF LaneQueue
  <2> QED
    BY <1>1, <1>2, <2>3 DEF LaneStep, Rests, Take, client, LaneQueue, Lanes!vars
<1>3. CASE Work(t)
  <2> DEFINE l == task_list[t] \o task_queue[t]
  <2>1. /\ task_list' = [task_list EXCEPT ![t] = Tail(task_list[t])]
        /\ task_queue' = task_queue
        /\ working' = [working EXCEPT ![t] = Head(task_list[t])]
        /\ task_list[t] # <<>> /\ task_list[t] \in Seq(Task) /\ task_queue[t] \in Seq(Task)
    BY <1>3 DEF Work
  <2>2. l # <<>> /\ Head(l) = Head(task_list[t]) /\ Tail(l) = Tail(task_list[t]) \o task_queue[t]
    BY <2>1, HeadTailConcat, SMTT(30)
  <2>3. LaneQueue' = [LaneQueue EXCEPT ![t] = Tail(@)] /\ LaneQueue[t] = l
    BY <2>1, <2>2 DEF LaneQueue
  <2>4. working' = [working EXCEPT ![t] = Head(LaneQueue[t])] /\ LaneQueue[t] # <<>>
    BY <2>1, <2>2, <2>3
  <2>5. Lanes!Begin(t)
    BY <1>1, <1>3, <2>3, <2>4 DEF Work, Lanes!Begin, LaneQueue
  <2> QED
    BY <1>3, <2>5 DEF Work, client, LaneStep, Begins
<1>4. CASE AddDone(t)
  <2>1. working[t] \in Task
    BY <1>4 DEF AddDone
  <2>2. task_done' = Append(task_done, working[t])
    BY <1>4 DEF AddDone
  <2>3. LaneOut' = Append(LaneOut, working[t])
    <3>1. main_list \o Append(task_done, working[t]) = Append(main_list \o task_done, working[t])
      BY <2>1, ConcatAppend, SMTT(30)
    <3> QED
      BY <1>1, <2>2, <3>1 DEF LaneOut
  <2>4. Lanes!Complete(t)
    BY <1>1, <1>4, <2>3 DEF AddDone, Lanes!Complete, LaneOut
  <2> QED
    BY <1>4, <2>4 DEF AddDone, client, LaneStep, Completes
<1>5. CASE WorkFails(t)
  <2>1. Lanes!Discard(t)
    BY <1>1, <1>5 DEF WorkFails, Lanes!Discard
  <2> QED
    BY <1>5, <2>1 DEF WorkFails, client, LaneStep, Discards
<1>6. CASE WorkThrows(t)
  <2>1. Lanes!Terminate
    BY <1>1, <1>6 DEF WorkThrows, worker, Lanes!Terminate
  <2> QED
    BY <1>6, <2>1 DEF WorkThrows, client, LaneStep, Rests
<1> QED
  BY <1>2, <1>3, <1>4, <1>5, <1>6 DEF WorkerStep

LEMMA RestOfFirstPart ==
  ASSUME NEW s \in Seq(Task), NEW t \in Seq(Task), s # <<>>
  PROVE  ToSet(Tail(s)) = {(s \o t)[i] : i \in 2 .. Len(s)}
<1>1. /\ Tail(s) \in Seq(Task) /\ Len(Tail(s)) = Len(s) - 1 /\ Len(s) \in Nat
      /\ \A i \in 1 .. Len(Tail(s)) : Tail(s)[i] = s[i + 1]
  BY HeadTailProperties, LenProperties
<1>2. DOMAIN Tail(s) = 1 .. Len(s) - 1
  BY <1>1, LenProperties
<1>3. Len(t) \in Nat /\ \A i \in 1 .. Len(s) : (s \o t)[i] = s[i]
  BY <1>1, ConcatProperties, LenProperties
<1>4. \A i \in 2 .. Len(s) : i - 1 \in 1 .. Len(s) - 1 /\ Tail(s)[i - 1] = (s \o t)[i]
  BY <1>1, <1>3
<1>5. \A i \in 1 .. Len(s) - 1 : i + 1 \in 2 .. Len(s) /\ Tail(s)[i] = (s \o t)[i + 1]
  BY <1>1, <1>3
<1>6. ToSet(Tail(s)) = {Tail(s)[i] : i \in 1 .. Len(s) - 1}
  BY <1>2 DEF ToSet
<1>7. ASSUME NEW x \in {Tail(s)[i] : i \in 1 .. Len(s) - 1}
      PROVE  x \in {(s \o t)[i] : i \in 2 .. Len(s)}
  BY <1>5
<1>8. ASSUME NEW x \in {(s \o t)[i] : i \in 2 .. Len(s)}
      PROVE  x \in {Tail(s)[i] : i \in 1 .. Len(s) - 1}
  BY <1>4
<1> QED
  BY <1>6, <1>7, <1>8

\* runInMain() takes its batch invisibly; each done() is a callback, one that throws
\* with all that is left of the batch.
LEMMA MainLanes == ASSUME IInv, MainLoop \/ StartAll \/ StartThread \/ JoinAll
                   PROVE  LaneStep
<1> USE DEF IInv, TypeOK
<1>1. UNCHANGED <<fresh \cup InCall, task_list, task_queue, working, alive>>
  BY DEF MainLoop, TakeDone, Done, DoneThrows, StartAll, StartThread, JoinAll,
         InCall, client, worker
<1>2. CASE TakeDone
  <2>1. LaneOut' = LaneOut
    BY <1>2, ConcatEmptySeq DEF TakeDone, AtRest, LaneOut
  <2> QED
    BY <1>1, <1>2, <2>1 DEF LaneStep, Rests, TakeDone, client, LaneOut, Lanes!vars
<1>3. ASSUME main_list # <<>>
      PROVE  /\ LaneOut \in Seq(Task) /\ LaneOut # <<>>
             /\ Head(LaneOut) = Head(main_list)
             /\ Tail(LaneOut) = Tail(main_list) \o task_done
             /\ Len(LaneOut) = Len(main_list) + Len(task_done)
             /\ Len(main_list) \in Nat \ {0} /\ Len(task_done) \in Nat
  BY <1>3, HeadTailConcat, ConcatProperties, EmptySeq, LenProperties DEF LaneOut
<1>4. CASE Done
  <2>1. main_list # <<>> /\ main_list' = Tail(main_list) /\ task_done' = task_done
    BY <1>4 DEF Done
  <2>2. Tail(LaneOut) = SubSeq(LaneOut, 2, Len(LaneOut))
    BY <1>3, <2>1, TailIsSubSeq
  <2>3. LaneOut' = SubSeq(LaneOut, 1 + 1, Len(LaneOut))
    BY <1>3, <2>1, <2>2 DEF LaneOut
  <2>4. Lanes!Callback(1) /\ 1 \in 1 .. Len(LaneOut)
    BY <1>1, <1>3, <1>4, <2>1, <2>3 DEF Done, Lanes!Callback, LaneOut
  <2>5. {LaneOut[i] : i \in 2 .. 1} = {}
    OBVIOUS
  <2>6. Calls(1)
    BY <1>4, <2>4, <2>5 DEF Done, client, Calls
  <2> QED
    BY <2>4, <2>6 DEF LaneStep
<1>5. CASE DoneThrows
  <2>1. main_list # <<>> /\ main_list' = <<>> /\ task_done' = task_done
    BY <1>5 DEF DoneThrows
  <2>2. SubSeq(LaneOut, Len(main_list) + 1, Len(LaneOut)) = task_done
    BY DropFirstPart DEF LaneOut
  <2>3. LaneOut' = SubSeq(LaneOut, Len(main_list) + 1, Len(LaneOut))
    BY <2>1, <2>2, ConcatEmptySeq DEF LaneOut
  <2>4. Lanes!Callback(Len(main_list)) /\ Len(main_list) \in 1 .. Len(LaneOut)
    BY <1>1, <1>3, <1>5, <2>1, <2>3 DEF DoneThrows, Lanes!Callback, LaneOut
  <2>5. ToSet(Tail(main_list)) = {LaneOut[i] : i \in 2 .. Len(main_list)}
    BY <2>1, RestOfFirstPart DEF LaneOut
  <2>6. Calls(Len(main_list))
    BY <1>5, <2>4, <2>5 DEF DoneThrows, client, Calls
  <2> QED
    BY <2>4, <2>6 DEF LaneStep
<1>6. CASE StartAll \/ StartThread \/ JoinAll
  BY <1>1, <1>6 DEF LaneStep, Rests, StartAll, StartThread, JoinAll, client, Lanes!vars
<1> QED
  BY <1>2, <1>4, <1>5, <1>6 DEF MainLoop

LEMMA StepLanes == IInv /\ [Next]_vars => LaneStep
<1> SUFFICES ASSUME IInv, [Next]_vars PROVE LaneStep
  OBVIOUS
<1>1. CASE UNCHANGED vars
  BY <1>1 DEF LaneStep, Rests, vars, client, worker, main, InCall, Lanes!vars
<1> QED
  BY <1>1, DrawLanes, PutLanes, WorkerLanes, MainLanes DEF Next, LaneStep

\* The pool implements the FIFO lanes: a task runs once, on one thread, after the
\* tasks put there before it, and the done() calls follow the order in which
\* the tasks finished.
THEOREM Implements == Spec => LanesSpec
<1>1. LaneStep => [Lanes!Next]_(Lanes!vars)
  BY DEF LaneStep, Accepts, Begins, Completes, Discards, Calls, Rests, LaneOut, Lanes!Next
<1> QED
  BY <1>1, StepLanes, InitIInv, NextIInv, InitLanes, PTL DEF Spec, LanesSpec, Lanes!Spec

-----------------------------------------------------------------------------
(* getThread() is fair *)

\* How much the wraps of the counter may have added to the imbalance.
Slack == IF IdxModulus % N = 0 THEN 0 ELSE wraps

\* How many draws will come before the next one of thread t.
Turn(t) == LET p == ThreadAt(cur_thread_idx) IN IF t >= p THEN t - p ELSE t - p + N

\* What RoundRobin says is not inductive: a thread that is one ahead may be drawn
\* again first.  It is not, because the threads that are behind come first.
DrawsEven ==
    \A t, u \in Thread :
        /\ draws[t] - draws[u] <= Slack + 1
        /\ Turn(t) <= Turn(u) => draws[t] - draws[u] <= Slack

LEMMA SlackType == ASSUME TypeOK PROVE Slack \in Nat
BY DEF Slack, TypeOK

\* The draw after thread p's is that of the next thread, or of the first one after the
\* counter has wrapped.
LEMMA NextThread ==
  ASSUME TypeOK, NEW s \in Submitter, NEW k \in Task \cup {NullTask}, Draw(s, k)
  PROVE  LET p == ThreadAt(cur_thread_idx)
             q == ThreadAt(cur_thread_idx')
         IN  /\ p \in Thread /\ q \in Thread
             /\ \/ Slack' = Slack /\ q = IF p = N - 1 THEN 0 ELSE p + 1
                \/ Slack' = Slack + 1 /\ q = 0
<1> DEFINE i == cur_thread_idx
<1>1. i \in Nat /\ i <= IdxModulus - 1 /\ IdxModulus \in Nat \ {0} /\ N \in Nat \ {0}
  BY SizeAssumption DEF TypeOK
<1>2. cur_thread_idx' = (i + 1) % IdxModulus
  BY DEF Draw
<1>3. (i + 1) % N = IF i % N = N - 1 THEN 0 ELSE (i % N) + 1
  BY <1>1, ModSucc
<1>4. i % N \in 0 .. N - 1
  BY <1>1, DivMod
<1>5. 0 % N = 0
  BY <1>1
<1>6. CASE i + 1 < IdxModulus
  <2>1. cur_thread_idx' = i + 1
    BY <1>1, <1>2, <1>6
  <2>2. Slack' = Slack
    BY <1>1, <2>1 DEF Draw, Slack
  <2> QED
    BY <1>1, <1>3, <1>4, <2>1, <2>2 DEF ThreadAt, Thread
<1>7. CASE i + 1 = IdxModulus
  <2>1. cur_thread_idx' = 0 /\ wraps' = wraps + 1
    <3>1. cur_thread_idx' = 0
      BY <1>1, <1>2, <1>7
    <3> QED
      BY <3>1 DEF Draw
  <2>2. CASE IdxModulus % N = 0
    <3>1. i % N = N - 1
      BY <1>1, <1>3, <1>4, <1>7, <2>2
    <3> QED
      BY <1>1, <1>5, <2>1, <2>2, <3>1 DEF ThreadAt, Thread, Slack
  <2>3. CASE IdxModulus % N # 0
    BY <1>1, <1>4, <1>5, <2>1, <2>3 DEF ThreadAt, Thread, Slack
  <2> QED
    BY <2>2, <2>3
<1> QED
  BY <1>1, <1>6, <1>7

LEMMA DrawDrawsEven ==
  ASSUME TypeOK, DrawsEven, NEW s \in Submitter, NEW k \in Task \cup {NullTask}, Draw(s, k)
  PROVE  DrawsEven'
<1>1. PICK p \in Thread, q \in Thread :
         /\ p = ThreadAt(cur_thread_idx) /\ q = ThreadAt(cur_thread_idx')
         /\ \/ Slack' = Slack /\ q = IF p = N - 1 THEN 0 ELSE p + 1
            \/ Slack' = Slack + 1 /\ q = 0
  BY NextThread
<1>2. \A t \in Thread : draws'[t] = IF t = p THEN draws[t] + 1 ELSE draws[t]
  BY <1>1 DEF Draw, TypeOK
<1>3. \A t \in Thread : draws[t] \in Nat
  BY DEF TypeOK
<1>4. Slack \in Nat /\ N \in Nat /\ \A t \in Thread : t \in 0 .. N - 1
  BY SlackType, SizeAssumption DEF Thread
<1>5. \A t, u \in Thread :
         /\ draws[t] - draws[u] <= Slack + 1
         /\ (IF t >= p THEN t - p ELSE t - p + N) <= (IF u >= p THEN u - p ELSE u - p + N)
              => draws[t] - draws[u] <= Slack
  BY <1>1 DEF DrawsEven, Turn
<1>6. \A t \in Thread : draws[p] - draws[t] <= Slack
  BY <1>4, <1>5
<1>7. \A t, u \in Thread : draws'[t] - draws'[u] <= Slack + 1
  BY <1>2, <1>3, <1>4, <1>5, <1>6
<1>8. ASSUME Slack' = Slack, q = IF p = N - 1 THEN 0 ELSE p + 1,
             NEW t \in Thread, NEW u \in Thread,
             (IF t >= q THEN t - q ELSE t - q + N) <= (IF u >= q THEN u - q ELSE u - q + N)
      PROVE  draws'[t] - draws'[u] <= Slack
  <2>1. CASE t = p
    <3>1. u = p
      BY <1>4, <1>8, <2>1
    <3> QED
      BY <1>2, <1>3, <1>4, <2>1, <3>1
  <2>2. CASE t # p /\ u = p
    BY <1>2, <1>3, <1>4, <1>5, <2>2
  <2>3. CASE t # p /\ u # p
    <3>1. (IF t >= p THEN t - p ELSE t - p + N) <= (IF u >= p THEN u - p ELSE u - p + N)
      BY <1>4, <1>8, <2>3
    <3> QED
      BY <1>2, <1>3, <1>4, <1>5, <2>3, <3>1
  <2> QED
    BY <2>1, <2>2, <2>3
<1>9. \A t, u \in Thread :
         /\ draws'[t] - draws'[u] <= Slack' + 1
         /\ (IF t >= q THEN t - q ELSE t - q + N) <= (IF u >= q THEN u - q ELSE u - q + N)
              => draws'[t] - draws'[u] <= Slack'
  <2>1. \A t \in Thread : draws'[t] \in Nat
    BY <1>2, <1>3
  <2> QED
    BY <1>1, <1>4, <1>7, <1>8, <2>1
<1> QED
  BY <1>1, <1>9 DEF DrawsEven, Turn

\* getThread() spreads the calls evenly: two threads differ by at most one draw, and by
\* one more for every wrap of the counter where the size does not divide its range; for
\* every number of threads, every width, and every value the counter starts from.
THEOREM FairShare == Spec => []RoundRobin
<1> USE DEF Slack
<1>1. Init => DrawsEven
  <2>1. Init => \A t, u \in Thread : draws[t] - draws[u] = 0 /\ Slack = 0
    BY DEF Init
  <2> QED
    BY <2>1 DEF DrawsEven
<1>2. IInv /\ DrawsEven /\ [Next]_vars => DrawsEven'
  <2> SUFFICES ASSUME IInv, DrawsEven, [Next]_vars PROVE DrawsEven'
    OBVIOUS
  <2>1. ASSUME UNCHANGED <<cur_thread_idx, draws, wraps>> PROVE DrawsEven'
    BY <2>1 DEF DrawsEven, Turn
  <2>2. ASSUME NEW s \in Submitter, NEW k \in Task \cup {NullTask}, Draw(s, k) PROVE DrawsEven'
    BY <2>2, DrawDrawsEven DEF IInv
  <2>3. ASSUME NEW s \in Submitter, Put(s) PROVE UNCHANGED <<cur_thread_idx, draws, wraps>>
    BY <2>3 DEF Put
  <2>4. ASSUME NEW t \in Thread, WorkerStep(t) PROVE UNCHANGED <<cur_thread_idx, draws, wraps>>
    BY <2>4 DEF WorkerStep, Take, Work, AddDone, WorkFails, WorkThrows, client
  <2>5. MainLoop \/ StartAll \/ StartThread \/ JoinAll \/ UNCHANGED vars
           => UNCHANGED <<cur_thread_idx, draws, wraps>>
    BY DEF MainLoop, TakeDone, Done, DoneThrows, StartAll, StartThread, JoinAll, vars, client
  <2> QED
    BY <2>1, <2>2, <2>3, <2>4, <2>5 DEF Next
<1>3. IInv /\ DrawsEven => RoundRobin
  BY SlackType DEF DrawsEven, RoundRobin, IInv, TypeOK
<1> QED
  BY <1>1, <1>2, <1>3, InitIInv, NextIInv, PTL DEF Spec

-----------------------------------------------------------------------------
(* Each task once, and in order *)

\* How many tasks were assigned to thread t, how many of these wait, how many have been
\* begun, and how many of these it is through with.
Given(t)  == Len(assigned[t])
Queued(t) == Len(LaneQueue[t])
Begun(t)  == Given(t) - Queued(t)
Worked(t) == IF working[t] = NoTask THEN Begun(t) ELSE Begun(t) - 1

\* The tasks whose work() succeeded, in that order, those already called back first.
Finished == called \o LaneOut
Outcomes == Len(Finished)

\* A task is assigned once, and it is fresh until then.
AssignedOnce ==
    /\ \A t, u \in Thread : \A a \in 1 .. Given(t), b \in 1 .. Given(u) :
          assigned[t][a] = assigned[u][b] => t = u /\ a = b
    /\ \A k \in Task :
          k \in LaneFresh <=> ~\E t \in Thread : \E a \in 1 .. Given(t) : assigned[t][a] = k

\* A thread's queue and list hold the last of what was assigned to it, and its work()
\* call the task before these.
LaneIsSuffix ==
    \A t \in Thread :
        /\ Queued(t) <= Given(t)
        /\ \A i \in 1 .. Queued(t) : LaneQueue[t][i] = assigned[t][Begun(t) + i]
        /\ working[t] # NoTask => Begun(t) >= 1 /\ working[t] = assigned[t][Begun(t)]

\* What a thread is through with was either dropped or finished, and nothing else was.
WorkSettles ==
    /\ \A t \in Thread : \A a \in 1 .. Worked(t) :
          assigned[t][a] \in dropped \/ \E i \in 1 .. Outcomes : Finished[i] = assigned[t][a]
    /\ \A i \in 1 .. Outcomes : \E t \in Thread : \E a \in 1 .. Worked(t) :
          Finished[i] = assigned[t][a]
    /\ \A k \in dropped : \E t \in Thread : \E a \in 1 .. Worked(t) : k = assigned[t][a]
    /\ \A i \in 1 .. Outcomes : Finished[i] \notin dropped

\* A task finishes once, and after those assigned to its thread before it.
FinishOrder ==
    /\ \A i, j \in 1 .. Outcomes : Finished[i] = Finished[j] => i = j
    /\ \A t \in Thread : \A a, b \in 1 .. Given(t) : \A i, j \in 1 .. Outcomes :
          Finished[i] = assigned[t][a] /\ Finished[j] = assigned[t][b] /\ a < b => i < j

OInv == AssignedOnce /\ LaneIsSuffix /\ WorkSettles /\ FinishOrder

LEMMA LaneTypes ==
  ASSUME TypeOK
  PROVE  /\ LaneQueue \in [Thread -> Seq(Task)] /\ LaneOut \in Seq(Task)
         /\ Finished \in Seq(Task) /\ called \in Seq(Task)
         /\ \A t \in Thread : assigned[t] \in Seq(Task) /\ LaneQueue[t] \in Seq(Task)
BY ConcatProperties DEF TypeOK, LaneQueue, LaneOut, Finished

LEMMA LaneNats ==
  ASSUME TypeOK
  PROVE  \A t \in Thread : /\ Given(t) \in Nat /\ Queued(t) \in Nat
                           /\ Begun(t) \in Int /\ Worked(t) \in Int
                           /\ Begun(t) = Given(t) - Queued(t)
                           /\ Worked(t) = IF working[t] = NoTask THEN Begun(t) ELSE Begun(t) - 1
<1> SUFFICES ASSUME NEW t \in Thread
             PROVE  Given(t) \in Nat /\ Queued(t) \in Nat
  BY DEF Begun, Worked
<1> QED
  BY LaneTypes, LenProperties DEF Given, Queued

LEMMA InitOInv == Init => OInv
<1> SUFFICES ASSUME Init PROVE OInv
  OBVIOUS
<1>1. \A t \in Thread : assigned[t] = <<>> /\ LaneQueue[t] = <<>> /\ working[t] = NoTask
  BY ConcatEmptySeq, EmptySeq DEF Init, LaneQueue
<1>2. Len(<<>>) = 0
  OBVIOUS
<1>3. Finished = <<>> /\ Outcomes = 0 /\ dropped = {} /\ LaneFresh = Task
  BY ConcatEmptySeq, EmptySeq, TaskAssumption, <1>2 DEF Init, Finished, Outcomes, LaneOut, LaneFresh, InCall, Idle
<1>4. \A t \in Thread : Given(t) = 0 /\ Queued(t) = 0 /\ Begun(t) = 0 /\ Worked(t) = 0
  BY <1>1, <1>2 DEF Given, Queued, Begun, Worked
<1>5. AssignedOnce
  BY <1>3, <1>4 DEF AssignedOnce
<1>6. LaneIsSuffix
  BY <1>1, <1>4 DEF LaneIsSuffix
<1>7. WorkSettles
  BY <1>3, <1>4 DEF WorkSettles
<1>8. FinishOrder
  BY <1>3 DEF FinishOrder
<1> QED
  BY <1>5, <1>6, <1>7, <1>8 DEF OInv

LEMMA AcceptOInv ==
  ASSUME TypeOK, TypeOK', OInv, NEW t \in Thread, NEW k \in Task, Accepts(t, k)
  PROVE  OInv'
<1> USE DEF OInv
<1>1. /\ k \in LaneFresh /\ LaneFresh' = LaneFresh \ {k}
      /\ LaneQueue' = [LaneQueue EXCEPT ![t] = Append(@, k)]
      /\ assigned' = [assigned EXCEPT ![t] = Append(@, k)]
      /\ working' = working /\ LaneOut' = LaneOut /\ called' = called /\ dropped' = dropped
  BY DEF Accepts, Lanes!Accept, LaneFresh, LaneQueue, LaneOut
<1>2. Finished' = Finished /\ Outcomes' = Outcomes
  BY <1>1 DEF Finished, Outcomes
<1>3. /\ assigned'[t] = Append(assigned[t], k) /\ LaneQueue'[t] = Append(LaneQueue[t], k)
      /\ \A u \in Thread \ {t} : assigned'[u] = assigned[u] /\ LaneQueue'[u] = LaneQueue[u]
  BY <1>1, LaneTypes DEF TypeOK
<1>4. /\ Given(t)' = Given(t) + 1
      /\ \A a \in 1 .. Given(t) + 1 :
            assigned'[t][a] = IF a <= Given(t) THEN assigned[t][a] ELSE k
  BY <1>3, LaneTypes, AppendProperties DEF Given, Queued
<1>5. /\ Queued(t)' = Queued(t) + 1
      /\ \A i \in 1 .. Queued(t) + 1 :
            LaneQueue'[t][i] = IF i <= Queued(t) THEN LaneQueue[t][i] ELSE k
  BY <1>3, LaneTypes, AppendProperties DEF Given, Queued
<1>6. \A u \in Thread : Begun(u)' = Begun(u) /\ Worked(u)' = Worked(u)
  <2>1. \A u \in Thread : working'[u] = working[u]
    BY <1>1
  <2>2. Begun(t)' = Begun(t)
    BY <1>3, <1>4, <1>5, LaneNats DEF Begun
  <2>3. \A u \in Thread \ {t} : Begun(u)' = Begun(u)
    BY <1>3 DEF Given, Queued, Begun
  <2> QED
    BY <2>1, <2>2, <2>3 DEF Worked
<1>7. \A u \in Thread : Begun(u) <= Given(u) /\ Worked(u) <= Begun(u)
  BY LaneNats
<1>8. \A u \in Thread : /\ Given(u) <= Given(u)'
                        /\ \A a \in 1 .. Given(u) : /\ a \in 1 .. Given(u)'
                                                    /\ assigned'[u][a] = assigned[u][a]
  <2>1. /\ Given(t) <= Given(t)'
        /\ \A a \in 1 .. Given(t) : a \in 1 .. Given(t)' /\ assigned'[t][a] = assigned[t][a]
    BY <1>4, LaneNats
  <2> QED
    <3>1. \A u \in Thread \ {t} : assigned'[u] = assigned[u] /\ Given(u)' = Given(u) /\ Given(u) \in Nat
      BY <1>3, LaneNats DEF Given
    <3> QED
      BY <2>1, <3>1
<1>9. \A u \in Thread : \A a \in 1 .. Given(u)' :
         \/ a \in 1 .. Given(u) /\ assigned'[u][a] = assigned[u][a] /\ assigned[u][a] # k
         \/ u = t /\ a = Given(t) + 1 /\ assigned'[u][a] = k
  <2> TAKE u \in Thread
  <2>1. \A a \in 1 .. Given(u) : assigned[u][a] # k
    BY <1>1 DEF AssignedOnce
  <2>2. CASE u = t
    BY <1>4, <2>1, <2>2, LaneNats
  <2>3. CASE u # t
    <3>1. assigned'[u] = assigned[u] /\ Given(u)' = Given(u)
      BY <1>3, <2>3 DEF Given
    <3> QED
      BY <2>1, <3>1
  <2> QED
    BY <2>2, <2>3
<1>10. AssignedOnce'
  <2>1. \A u, v \in Thread : \A a \in 1 .. Given(u)', b \in 1 .. Given(v)' :
           assigned'[u][a] = assigned'[v][b] => u = v /\ a = b
    BY <1>9 DEF AssignedOnce
  <2>2. ASSUME NEW j \in Task
        PROVE  j \in LaneFresh' <=>
                 ~\E u \in Thread : \E a \in 1 .. Given(u)' : assigned'[u][a] = j
    <3>1. CASE j = k
      <4>1. Given(t) + 1 \in 1 .. Given(t)'
        BY <1>4, LaneNats
      <4>2. assigned'[t][Given(t) + 1] = k
        BY <1>4, LaneNats
      <4> QED
        BY <1>1, <3>1, <4>1, <4>2
    <3>2. CASE j # k
      <4>1. \A u \in Thread : \A a \in 1 .. Given(u) : a \in 1 .. Given(u)'
        BY <1>8
      <4>2. j \in LaneFresh' <=> j \in LaneFresh
        BY <1>1, <3>2
      <4> QED
        BY <3>2, <4>1, <4>2, <1>8, <1>9 DEF AssignedOnce
    <3> QED
      BY <3>1, <3>2
  <2> QED
    BY <2>1, <2>2 DEF AssignedOnce
<1>11. LaneIsSuffix'
  <2> SUFFICES ASSUME NEW u \in Thread
               PROVE  /\ Queued(u)' <= Given(u)'
                      /\ \A i \in 1 .. Queued(u)' : LaneQueue'[u][i] = assigned'[u][Begun(u)' + i]
                      /\ working'[u] # NoTask => Begun(u)' >= 1 /\ working'[u] = assigned'[u][Begun(u)']
    BY DEF LaneIsSuffix
  <2> SUFFICES /\ Queued(u)' <= Given(u)'
               /\ \A i \in 1 .. Queued(u)' : LaneQueue'[u][i] = assigned'[u][Begun(u) + i]
               /\ working[u] # NoTask => Begun(u) >= 1 /\ working[u] = assigned'[u][Begun(u)]
    BY <1>1, <1>6
  <2>1. working[u] # NoTask => Begun(u) >= 1 /\ working[u] = assigned'[u][Begun(u)]
    <3>1. working[u] # NoTask => Begun(u) \in 1 .. Given(u) /\ working[u] = assigned[u][Begun(u)]
      BY <1>7, LaneNats DEF LaneIsSuffix
    <3> QED
      BY <3>1, <1>8, LaneNats
  <2>2. CASE u = t
    <3>1. ASSUME NEW i \in 1 .. Queued(t) + 1
          PROVE  LaneQueue'[t][i] = assigned'[t][Begun(t) + i]
      <4>1. Begun(t) + i \in 1 .. Given(t) + 1
        BY LaneNats DEF LaneIsSuffix
      <4>2. CASE i <= Queued(t)
        BY <4>1, <4>2, <1>4, <1>5, LaneNats DEF LaneIsSuffix
      <4>3. CASE i = Queued(t) + 1
        BY <4>1, <4>3, <1>4, <1>5, LaneNats
      <4> QED
        BY <4>2, <4>3, LaneNats
    <3> QED
      BY <2>1, <2>2, <3>1, <1>4, <1>5, LaneNats DEF LaneIsSuffix
  <2>3. CASE u # t
    <3>1. assigned'[u] = assigned[u] /\ LaneQueue'[u] = LaneQueue[u]
          /\ Given(u)' = Given(u) /\ Queued(u)' = Queued(u)
      BY <1>3, <2>3 DEF Given, Queued
    <3> QED
      BY <2>1, <3>1 DEF LaneIsSuffix
  <2> QED
    BY <2>2, <2>3
<1>12. WorkSettles'
  <2>1. \A u \in Thread : \A a \in 1 .. Worked(u) :
           a \in 1 .. Given(u) /\ assigned'[u][a] = assigned[u][a]
    BY <1>7, <1>8, LaneNats
  <2> QED
    <3>1. \A u \in Thread : \A a \in 1 .. Worked(u)' :
             \/ assigned'[u][a] \in dropped'
             \/ \E i \in 1 .. Outcomes' : Finished'[i] = assigned'[u][a]
      <4> TAKE u \in Thread
      <4> TAKE a \in 1 .. Worked(u)'
      <4>1. a \in 1 .. Worked(u)
        BY <1>6
      <4>2. assigned'[u][a] = assigned[u][a]
        BY <2>1, <4>1
      <4>3. assigned[u][a] \in dropped \/ \E i \in 1 .. Outcomes : Finished[i] = assigned[u][a]
        BY <4>1 DEF WorkSettles
      <4>4. dropped' = dropped
        BY <1>1
      <4> QED
        BY <1>2, <4>2, <4>3, <4>4, Zenon
    <3>2. \A i \in 1 .. Outcomes' : \E u \in Thread : \E a \in 1 .. Worked(u)' :
             Finished'[i] = assigned'[u][a]
      <4> TAKE i \in 1 .. Outcomes'
      <4>1. PICK u \in Thread : \E a \in 1 .. Worked(u) : Finished[i] = assigned[u][a]
        BY <1>2 DEF WorkSettles
      <4> QED
        BY <1>2, <1>6, <2>1, <4>1
    <3>3. \A j \in dropped' : \E u \in Thread : \E a \in 1 .. Worked(u)' : j = assigned'[u][a]
      <4> TAKE j \in dropped'
      <4>1. PICK u \in Thread : \E a \in 1 .. Worked(u) : j = assigned[u][a]
        BY <1>1 DEF WorkSettles
      <4> QED
        BY <1>6, <2>1, <4>1
    <3>4. \A i \in 1 .. Outcomes' : Finished'[i] \notin dropped'
      BY <1>1, <1>2 DEF WorkSettles
    <3> QED
      BY <3>1, <3>2, <3>3, <3>4 DEF WorkSettles
<1>13. FinishOrder'
  <2>1. \A i \in 1 .. Outcomes : Finished[i] # k
    <3>1. \A u \in Thread : \A a \in 1 .. Worked(u) : a \in 1 .. Given(u)
      BY <1>7, LaneNats
    <3> QED
      BY <1>1, <3>1 DEF WorkSettles, AssignedOnce
  <2> QED
    BY <1>2, <1>9, <2>1 DEF FinishOrder
<1> QED
  BY <1>10, <1>11, <1>12, <1>13

LEMMA BeginOInv ==
  ASSUME TypeOK, TypeOK', OInv, NEW t \in Thread, Begins(t)
  PROVE  OInv'
<1> USE DEF OInv
<1>1. /\ LaneFresh' = LaneFresh /\ LaneQueue[t] # <<>> /\ working[t] = NoTask
      /\ LaneQueue' = [LaneQueue EXCEPT ![t] = Tail(@)]
      /\ working' = [working EXCEPT ![t] = Head(LaneQueue[t])]
      /\ assigned' = assigned /\ LaneOut' = LaneOut /\ called' = called /\ dropped' = dropped
  BY DEF Begins, Lanes!Begin, LaneFresh, LaneQueue, LaneOut
<1>2. Finished' = Finished /\ Outcomes' = Outcomes
  BY <1>1 DEF Finished, Outcomes
<1>3. /\ LaneQueue'[t] = Tail(LaneQueue[t]) /\ working'[t] = Head(LaneQueue[t])
      /\ \A u \in Thread \ {t} : LaneQueue'[u] = LaneQueue[u] /\ working'[u] = working[u]
  BY <1>1, LaneTypes DEF TypeOK
<1>4. /\ Queued(t)' = Queued(t) - 1 /\ Queued(t) >= 1
      /\ \A i \in 1 .. Queued(t) - 1 : LaneQueue'[t][i] = LaneQueue[t][i + 1]
      /\ working'[t] = LaneQueue[t][1] /\ working'[t] \in Task
  <2>1. LaneQueue[t] \in Seq(Task) /\ LaneQueue[t] # <<>>
    BY <1>1, LaneTypes
  <2> QED
    BY <1>3, <2>1, HeadTailProperties, EmptySeq, LenProperties DEF Queued
<1>5. Begun(t)' = Begun(t) + 1 /\ \A u \in Thread \ {t} : Begun(u)' = Begun(u)
  <2>1. \A u \in Thread : Given(u)' = Given(u)
    BY <1>1 DEF Given
  <2>2. \A u \in Thread \ {t} : Queued(u)' = Queued(u)
    BY <1>3 DEF Queued
  <2> QED
    BY <2>1, <2>2, <1>4, LaneNats DEF Begun
<1>6. \A u \in Thread : Worked(u)' = Worked(u)
  <2>1. Worked(t)' = Worked(t)
    BY <1>1, <1>4, <1>5, LaneNats, TaskAssumption DEF Worked
  <2> QED
    BY <1>3, <1>5, <2>1 DEF Worked
<1>7. AssignedOnce' /\ FinishOrder'
  <2>1. AssignedOnce'
    BY <1>1 DEF AssignedOnce, Given
  <2> QED
    BY <1>1, <1>2, <2>1 DEF FinishOrder, Given
<1>8. WorkSettles'
  BY <1>1, <1>2, <1>6 DEF WorkSettles
<1>9. LaneIsSuffix'
  <2> SUFFICES ASSUME NEW u \in Thread
               PROVE  /\ Queued(u)' <= Given(u)'
                      /\ \A i \in 1 .. Queued(u)' : LaneQueue'[u][i] = assigned'[u][Begun(u)' + i]
                      /\ working'[u] # NoTask => Begun(u)' >= 1 /\ working'[u] = assigned'[u][Begun(u)']
    BY DEF LaneIsSuffix
  <2> SUFFICES /\ Queued(u)' <= Given(u)
               /\ \A i \in 1 .. Queued(u)' : LaneQueue'[u][i] = assigned[u][Begun(u)' + i]
               /\ working'[u] # NoTask => Begun(u)' >= 1 /\ working'[u] = assigned[u][Begun(u)']
    BY <1>1 DEF Given
  <2>1. CASE u = t
    <3>1. \A i \in 1 .. Queued(t) : LaneQueue[t][i] = assigned[t][Begun(t) + i]
      BY DEF LaneIsSuffix
    <3>2. working'[t] = assigned[t][Begun(t) + 1] /\ Begun(t) >= 0
      BY <1>4, <3>1, LaneNats DEF LaneIsSuffix
    <3>3. \A i \in 1 .. Queued(t)' : LaneQueue'[t][i] = assigned[t][Begun(t) + 1 + i]
      <4> TAKE i \in 1 .. Queued(t)'
      <4>1. i + 1 \in 1 .. Queued(t) /\ LaneQueue'[t][i] = LaneQueue[t][i + 1]
        BY <1>4, LaneNats
      <4>2. Begun(t) + (i + 1) = Begun(t) + 1 + i
        BY LaneNats
      <4> QED
        BY <3>1, <4>1, <4>2
    <3>4. Queued(t)' <= Given(t) /\ Begun(t)' >= 1
      BY <1>4, <1>5, <3>2, LaneNats DEF LaneIsSuffix
    <3>5. \A i \in 1 .. Queued(t)' : LaneQueue'[t][i] = assigned[t][Begun(t)' + i]
      BY <1>5, <3>3
    <3> QED
      BY <2>1, <1>5, <3>2, <3>4, <3>5
  <2>2. CASE u # t
    BY <2>2, <1>3, <1>5 DEF LaneIsSuffix, Queued
  <2> QED
    BY <2>1, <2>2
<1> QED
  BY <1>7, <1>8, <1>9

\* A task in work() has not settled yet.
LEMMA RunningTask ==
  ASSUME TypeOK, OInv, NEW t \in Thread, working[t] # NoTask
  PROVE  /\ Begun(t) \in 1 .. Given(t) /\ Worked(t) = Begun(t) - 1
         /\ working[t] = assigned[t][Begun(t)] /\ working[t] \in Task
         /\ working[t] \notin dropped
         /\ \A i \in 1 .. Outcomes : Finished[i] # working[t]
<1> USE DEF OInv
<1>1. Begun(t) \in 1 .. Given(t) /\ Worked(t) = Begun(t) - 1
  BY LaneNats DEF LaneIsSuffix
<1>2. working[t] = assigned[t][Begun(t)] /\ working[t] \in Task
  BY DEF LaneIsSuffix, TypeOK
<1>3. ASSUME NEW u \in Thread, NEW a \in 1 .. Worked(u), working[t] = assigned[u][a]
      PROVE  FALSE
  <2>1. a \in 1 .. Given(u)
    BY LaneNats
  <2>2. u = t /\ a = Begun(t)
    <3>1. assigned[t][Begun(t)] = assigned[u][a]
      BY <1>2, <1>3
    <3> QED
      BY <1>1, <2>1, <3>1 DEF AssignedOnce
  <2> QED
    BY <1>1, <2>2, LaneNats
<1> QED
  BY <1>1, <1>2, <1>3 DEF WorkSettles

\* What is common to the two ways in which work() returns.
LEMMA ReturnFacts ==
  ASSUME TypeOK, TypeOK', OInv, NEW t \in Thread, Completes(t) \/ Discards(t)
  PROVE  /\ AssignedOnce' /\ LaneIsSuffix' /\ working[t] # NoTask /\ assigned' = assigned
         /\ \A u \in Thread : Given(u)' = Given(u)
         /\ \A u \in Thread : Worked(u)' = IF u = t THEN Worked(t) + 1 ELSE Worked(u)
<1> USE DEF OInv
<1>1. /\ working[t] # NoTask /\ LaneFresh' = LaneFresh /\ LaneQueue' = LaneQueue
      /\ assigned' = assigned /\ working' = [working EXCEPT ![t] = NoTask]
  BY DEF Completes, Discards, Lanes!Complete, Lanes!Discard, LaneFresh, LaneQueue
<1>2. \A u \in Thread : Given(u)' = Given(u) /\ Queued(u)' = Queued(u) /\ Begun(u)' = Begun(u)
  BY <1>1 DEF Given, Queued, Begun
<1>3. \A u \in Thread : working'[u] = IF u = t THEN NoTask ELSE working[u]
  BY <1>1 DEF TypeOK
<1>4. \A u \in Thread : Worked(u)' = IF u = t THEN Worked(t) + 1 ELSE Worked(u)
  <2>1. Worked(t)' = Worked(t) + 1
    BY <1>1, <1>2, <1>3, LaneNats DEF Worked
  <2> QED
    BY <1>2, <1>3, <2>1 DEF Worked
<1>5. AssignedOnce'
  BY <1>1 DEF AssignedOnce, Given
<1>6. LaneIsSuffix'
  <2> SUFFICES ASSUME NEW u \in Thread
               PROVE  /\ Queued(u)' <= Given(u)'
                      /\ \A i \in 1 .. Queued(u)' : LaneQueue'[u][i] = assigned'[u][Begun(u)' + i]
                      /\ working'[u] # NoTask => Begun(u)' >= 1 /\ working'[u] = assigned'[u][Begun(u)']
    BY DEF LaneIsSuffix
  <2> QED
    BY <1>1, <1>2, <1>3 DEF LaneIsSuffix
<1> QED
  BY <1>1, <1>2, <1>4, <1>5, <1>6

LEMMA CompleteOInv ==
  ASSUME TypeOK, TypeOK', OInv, NEW t \in Thread, Completes(t)
  PROVE  OInv'
<1> USE DEF OInv
<1>1. /\ AssignedOnce' /\ LaneIsSuffix' /\ working[t] # NoTask /\ assigned' = assigned
      /\ \A u \in Thread : Given(u)' = Given(u)
      /\ \A u \in Thread : Worked(u)' = IF u = t THEN Worked(t) + 1 ELSE Worked(u)
  BY ReturnFacts
<1>2. /\ Begun(t) \in 1 .. Given(t) /\ Worked(t) = Begun(t) - 1
      /\ working[t] = assigned[t][Begun(t)] /\ working[t] \in Task
      /\ working[t] \notin dropped
      /\ \A i \in 1 .. Outcomes : Finished[i] # working[t]
  BY <1>1, RunningTask
<1>3. LaneOut' = Append(LaneOut, working[t]) /\ called' = called /\ dropped' = dropped
  BY DEF Completes, Lanes!Complete, LaneOut
<1>4. Finished' = Append(Finished, working[t])
  BY <1>2, <1>3, LaneTypes, ConcatAppend, SMTT(30) DEF Finished
<1>5. /\ Outcomes' = Outcomes + 1 /\ Outcomes \in Nat
      /\ \A i \in 1 .. Outcomes + 1 :
            Finished'[i] = IF i <= Outcomes THEN Finished[i] ELSE working[t]
  BY <1>2, <1>4, LaneTypes, AppendProperties, LenProperties DEF Outcomes
<1>6. Outcomes + 1 \in 1 .. Outcomes' /\ Finished'[Outcomes + 1] = working[t]
  BY <1>5
<1>7. \A i \in 1 .. Outcomes : i \in 1 .. Outcomes' /\ Finished'[i] = Finished[i]
  BY <1>5
<1>8. \A i \in 1 .. Outcomes' : i \in 1 .. Outcomes \/ i = Outcomes + 1
  BY <1>5
<1>9. WorkSettles'
  <2>1. \A u \in Thread : \A a \in 1 .. Worked(u) : a \in 1 .. Worked(u)'
    BY <1>1, LaneNats
  <2>2. Begun(t) \in 1 .. Worked(t)'
    BY <1>1, <1>2, LaneNats
  <2>3. ASSUME NEW u \in Thread, NEW a \in 1 .. Worked(u)'
        PROVE  assigned[u][a] \in dropped \/ \E i \in 1 .. Outcomes' : Finished'[i] = assigned[u][a]
    <3>1. CASE a \in 1 .. Worked(u)
      <4>1. assigned[u][a] \in dropped \/ \E i \in 1 .. Outcomes : Finished[i] = assigned[u][a]
        BY <3>1 DEF WorkSettles
      <4> QED
        BY <4>1, <1>7
    <3>2. CASE u = t /\ a = Begun(t)
      BY <1>2, <1>6, <3>2
    <3> QED
      BY <1>1, <1>2, <3>1, <3>2, LaneNats
  <2>4. ASSUME NEW i \in 1 .. Outcomes'
        PROVE  /\ \E u \in Thread : \E a \in 1 .. Worked(u)' : Finished'[i] = assigned[u][a]
               /\ Finished'[i] \notin dropped
    <3>1. CASE i \in 1 .. Outcomes
      <4>1. PICK u \in Thread : \E a \in 1 .. Worked(u) : Finished[i] = assigned[u][a]
        BY <3>1 DEF WorkSettles
      <4> QED
        BY <4>1, <3>1, <2>1, <1>7 DEF WorkSettles
    <3>2. CASE i = Outcomes + 1
      BY <1>2, <1>6, <2>2, <3>2
    <3> QED
      BY <1>8, <3>1, <3>2
  <2>5. \A k \in dropped : \E u \in Thread : \E a \in 1 .. Worked(u)' : k = assigned[u][a]
    BY <2>1 DEF WorkSettles
  <2> QED
    BY <1>1, <1>3, <2>3, <2>4, <2>5 DEF WorkSettles
<1>10. FinishOrder'
  <2>1. \A i, j \in 1 .. Outcomes' : Finished'[i] = Finished'[j] => i = j
    BY <1>2, <1>6, <1>7, <1>8 DEF FinishOrder
  <2>2. ASSUME NEW u \in Thread, NEW a \in 1 .. Given(u), NEW b \in 1 .. Given(u), a < b,
               NEW i \in 1 .. Outcomes', NEW j \in 1 .. Outcomes',
               Finished'[i] = assigned[u][a], Finished'[j] = assigned[u][b]
        PROVE  i < j
    <3>1. CASE i \in 1 .. Outcomes /\ j \in 1 .. Outcomes
      <4>1. Finished[i] = assigned[u][a] /\ Finished[j] = assigned[u][b]
        BY <1>7, <2>2, <3>1
      <4> QED
        BY <2>2, <3>1, <4>1 DEF FinishOrder
    <3>2. CASE i \in 1 .. Outcomes /\ j = Outcomes + 1
      BY <1>5, <3>2
    <3>3. CASE i = Outcomes + 1
      <4>1. u = t /\ a = Begun(t)
        BY <1>2, <1>6, <2>2, <3>3 DEF AssignedOnce
      <4>2. b # Begun(t) /\ j # Outcomes + 1
        BY <1>2, <1>6, <2>2, <4>1, LaneNats DEF AssignedOnce
      <4>3. PICK v \in Thread : \E c \in 1 .. Worked(v) : Finished[j] = assigned[v][c]
        BY <1>8, <4>2 DEF WorkSettles
      <4>4. PICK c \in 1 .. Worked(v) : assigned[u][b] = assigned[v][c]
        BY <1>7, <1>8, <2>2, <4>2, <4>3
      <4>5. c \in 1 .. Given(v)
        BY LaneNats
      <4>6. v = u /\ c = b
        BY <2>2, <4>4, <4>5 DEF AssignedOnce
      <4> QED
        BY <1>2, <2>2, <4>1, <4>4, <4>6, LaneNats
    <3> QED
      BY <1>8, <3>1, <3>2, <3>3
  <2> QED
    BY <1>1, <2>1, <2>2 DEF FinishOrder
<1> QED
  BY <1>1, <1>9, <1>10

LEMMA DiscardOInv ==
  ASSUME TypeOK, TypeOK', OInv, NEW t \in Thread, Discards(t)
  PROVE  OInv'
<1> USE DEF OInv
<1>1. /\ AssignedOnce' /\ LaneIsSuffix' /\ working[t] # NoTask /\ assigned' = assigned
      /\ \A u \in Thread : Given(u)' = Given(u)
      /\ \A u \in Thread : Worked(u)' = IF u = t THEN Worked(t) + 1 ELSE Worked(u)
  BY ReturnFacts
<1>2. /\ Begun(t) \in 1 .. Given(t) /\ Worked(t) = Begun(t) - 1
      /\ working[t] = assigned[t][Begun(t)]
      /\ \A i \in 1 .. Outcomes : Finished[i] # working[t]
  BY <1>1, RunningTask
<1>3. LaneOut' = LaneOut /\ called' = called /\ dropped' = dropped \cup {working[t]}
  BY DEF Discards, Lanes!Discard, LaneOut
<1>4. Finished' = Finished /\ Outcomes' = Outcomes
  BY <1>3 DEF Finished, Outcomes
<1>5. FinishOrder'
  <2>1. \A i, j \in 1 .. Outcomes' : Finished'[i] = Finished'[j] => i = j
    BY <1>4 DEF FinishOrder
  <2> QED
    BY <1>1, <1>4, <2>1 DEF FinishOrder
<1>6. WorkSettles'
  <2>1. \A u \in Thread : \A a \in 1 .. Worked(u) : a \in 1 .. Worked(u)'
    BY <1>1, LaneNats
  <2>2. Begun(t) \in 1 .. Worked(t)'
    BY <1>1, <1>2, LaneNats
  <2>3. ASSUME NEW u \in Thread, NEW a \in 1 .. Worked(u)'
        PROVE  assigned[u][a] \in dropped' \/ \E i \in 1 .. Outcomes : Finished[i] = assigned[u][a]
    <3>1. CASE a \in 1 .. Worked(u)
      <4>1. assigned[u][a] \in dropped \/ \E i \in 1 .. Outcomes : Finished[i] = assigned[u][a]
        BY <3>1 DEF WorkSettles
      <4> QED
        BY <4>1, <1>3
    <3>2. CASE u = t /\ a = Begun(t)
      BY <1>2, <1>3, <3>2
    <3> QED
      BY <1>1, <1>2, <3>1, <3>2, LaneNats
  <2>4. ASSUME NEW i \in 1 .. Outcomes
        PROVE  /\ \E u \in Thread : \E a \in 1 .. Worked(u)' : Finished[i] = assigned[u][a]
               /\ Finished[i] \notin dropped'
    <3>1. PICK u \in Thread : \E a \in 1 .. Worked(u) : Finished[i] = assigned[u][a]
      BY DEF WorkSettles
    <3> QED
      BY <3>1, <2>1, <1>2, <1>3 DEF WorkSettles
  <2>5. \A k \in dropped' : \E u \in Thread : \E a \in 1 .. Worked(u)' : k = assigned[u][a]
    <3> TAKE k \in dropped'
    <3>1. CASE k \in dropped
      <4>1. PICK u \in Thread : \E a \in 1 .. Worked(u) : k = assigned[u][a]
        BY <3>1 DEF WorkSettles
      <4> QED
        BY <2>1, <4>1
    <3>2. CASE k = working[t]
      BY <1>2, <2>2, <3>2
    <3> QED
      BY <1>3, <3>1, <3>2
  <2> QED
    BY <1>1, <1>4, <2>3, <2>4, <2>5 DEF WorkSettles
<1> QED
  BY <1>1, <1>5, <1>6

\* done() leaves the order of Finished as it is: a call that throws cuts the n - 1 tasks
\* out of it that follow in runInMain()'s list, and these are dropped.
LEMMA CallFacts ==
  ASSUME TypeOK, TypeOK', NEW n \in 1 .. Len(LaneOut), Calls(n)
  PROVE  \E c \in Nat :
            /\ c + n <= Outcomes /\ Outcomes' = Outcomes - n + 1
            /\ \A i \in 1 .. Outcomes' : Finished'[i] = Finished[IF i <= c + 1 THEN i ELSE i + n - 1]
            /\ dropped' = dropped \cup {Finished[i] : i \in c + 2 .. c + n}
<1>1. /\ LaneOut # <<>> /\ called' = Append(called, Head(LaneOut))
      /\ LaneOut' = SubSeq(LaneOut, n + 1, Len(LaneOut))
      /\ dropped' = dropped \cup {LaneOut[i] : i \in 2 .. n}
  BY DEF Calls, Lanes!Callback, LaneOut
<1>2. LaneOut \in Seq(Task) /\ called \in Seq(Task) /\ Head(LaneOut) \in Task
  BY <1>1, LaneTypes, HeadTailProperties
<1>3. PICK c \in Nat, m \in Nat : c = Len(called) /\ m = Len(LaneOut)
  BY <1>2, LenProperties
<1>4. n \in 1 .. m
  BY <1>3
<1>5. /\ called' \in Seq(Task) /\ Len(called') = c + 1
      /\ \A i \in 1 .. c + 1 : called'[i] = IF i <= c THEN called[i] ELSE LaneOut[1]
  BY <1>1, <1>2, <1>3, AppendProperties, HeadTailProperties
<1>6. /\ LaneOut' \in Seq(Task) /\ Len(LaneOut') = m - n
      /\ \A i \in 1 .. m - n : LaneOut'[i] = LaneOut[n + i]
  <2>1. \A i \in n + 1 .. m : LaneOut[i] \in Task
    BY <1>2, <1>3, <1>4, ElementOfSeq
  <2>2. n + 1 \in Int /\ m \in Int
    OBVIOUS
  <2> DEFINE rest == SubSeq(LaneOut, n + 1, m)
  <2>3. /\ rest \in Seq(Task)
        /\ Len(rest) = IF n + 1 <= m THEN m - (n + 1) + 1 ELSE 0
        /\ \A i \in 1 .. m - (n + 1) + 1 : rest[i] = LaneOut[(n + 1) + i - 1]
    BY <2>1, <2>2, SubSeqProperties
  <2>4. LaneOut' = rest
    BY <1>1, <1>3
  <2> HIDE DEF rest
  <2>5. m - (n + 1) + 1 = m - n /\ Len(rest) = m - n
    BY <1>4, <2>3
  <2>6. ASSUME NEW i \in 1 .. m - n PROVE rest[i] = LaneOut[n + i]
    <3>1. (n + 1) + i - 1 = n + i
      OBVIOUS
    <3> QED
      BY <2>3, <2>5, <3>1
  <2> QED
    BY <2>3, <2>4, <2>5, <2>6
<1>7. /\ Outcomes = c + m
      /\ \A i \in 1 .. c + m : Finished[i] = IF i <= c THEN called[i] ELSE LaneOut[i - c]
  BY <1>2, <1>3, ConcatProperties DEF Finished, Outcomes
<1>8. /\ Outcomes' = c + 1 + (m - n)
      /\ \A i \in 1 .. c + 1 + (m - n) :
            Finished'[i] = IF i <= c + 1 THEN called'[i] ELSE LaneOut'[i - (c + 1)]
  <2>1. Finished' = called' \o LaneOut'
    BY DEF Finished
  <2>2. /\ Len(called' \o LaneOut') = Len(called') + Len(LaneOut')
        /\ \A i \in 1 .. Len(called') + Len(LaneOut') :
              (called' \o LaneOut')[i] = IF i <= Len(called') THEN called'[i]
                                         ELSE LaneOut'[i - Len(called')]
    BY <1>5, <1>6, ConcatProperties
  <2> QED
    BY <1>5, <1>6, <2>1, <2>2 DEF Outcomes
<1>9. c + n <= Outcomes /\ Outcomes' = Outcomes - n + 1
  BY <1>4, <1>7, <1>8
<1>10. ASSUME NEW i \in 1 .. Outcomes'
       PROVE  Finished'[i] = Finished[IF i <= c + 1 THEN i ELSE i + n - 1]
  <2>1. i \in Nat /\ i \in 1 .. c + 1 + (m - n)
    BY <1>8
  <2>2. CASE i <= c + 1
    <3>1. Finished'[i] = called'[i] /\ called'[i] = IF i <= c THEN called[i] ELSE LaneOut[1]
      BY <1>5, <1>8, <2>1, <2>2
    <3>2. i \in 1 .. c + m /\ (~(i <= c) => i - c = 1)
      BY <1>4, <2>1, <2>2
    <3>3. Finished[i] = IF i <= c THEN called[i] ELSE LaneOut[i - c]
      BY <1>7, <3>2
    <3> QED
      BY <2>2, <3>1, <3>2, <3>3
  <2>3. CASE ~(i <= c + 1)
    <3>1. Finished'[i] = LaneOut'[i - (c + 1)] /\ i - (c + 1) \in 1 .. m - n
      BY <1>4, <1>8, <2>1, <2>3
    <3>2. LaneOut'[i - (c + 1)] = LaneOut[n + (i - (c + 1))]
      BY <1>6, <3>1
    <3>3. i + n - 1 \in 1 .. c + m /\ ~(i + n - 1 <= c) /\ (i + n - 1) - c = n + (i - (c + 1))
      BY <1>4, <2>1, <2>3
    <3>4. Finished[i + n - 1] = LaneOut[(i + n - 1) - c]
      BY <1>7, <3>3
    <3> QED
      BY <2>3, <3>1, <3>2, <3>3, <3>4
  <2> QED
    BY <2>2, <2>3
<1>11. {LaneOut[i] : i \in 2 .. n} = {Finished[i] : i \in c + 2 .. c + n}
  <2>1. \A i \in 2 .. n : i + c \in c + 2 .. c + n /\ Finished[i + c] = LaneOut[i]
    <3> TAKE i \in 2 .. n
    <3>1. i + c \in c + 2 .. c + n /\ i + c \in 1 .. c + m /\ ~(i + c <= c) /\ (i + c) - c = i
      BY <1>4
    <3> QED
      BY <1>7, <3>1
  <2>2. \A i \in c + 2 .. c + n : i - c \in 2 .. n /\ Finished[i] = LaneOut[i - c]
    BY <1>4, <1>7
  <2>3. ASSUME NEW x \in {LaneOut[i] : i \in 2 .. n}
        PROVE  x \in {Finished[i] : i \in c + 2 .. c + n}
    BY <2>1
  <2>4. ASSUME NEW x \in {Finished[i] : i \in c + 2 .. c + n}
        PROVE  x \in {LaneOut[i] : i \in 2 .. n}
    BY <2>2
  <2> QED
    BY <2>3, <2>4
<1> QED
  BY <1>1, <1>9, <1>10, <1>11

LEMMA CallOInv ==
  ASSUME TypeOK, TypeOK', OInv, NEW n \in 1 .. Len(LaneOut), Calls(n)
  PROVE  OInv'
<1> USE DEF OInv
<1>1. /\ LaneFresh' = LaneFresh /\ LaneQueue' = LaneQueue /\ working' = working
      /\ assigned' = assigned
  BY DEF Calls, Lanes!Callback, LaneFresh, LaneQueue
<1>2. \A u \in Thread : /\ Given(u)' = Given(u) /\ Queued(u)' = Queued(u)
                        /\ Begun(u)' = Begun(u) /\ Worked(u)' = Worked(u)
  BY <1>1 DEF Given, Queued, Begun, Worked
<1>3. AssignedOnce' /\ LaneIsSuffix'
  <2>1. AssignedOnce'
    BY <1>1 DEF AssignedOnce, Given
  <2>2. LaneIsSuffix'
    <3> SUFFICES ASSUME NEW u \in Thread
                 PROVE  /\ Queued(u)' <= Given(u)'
                        /\ \A i \in 1 .. Queued(u)' : LaneQueue'[u][i] = assigned'[u][Begun(u)' + i]
                        /\ working'[u] # NoTask => Begun(u)' >= 1 /\ working'[u] = assigned'[u][Begun(u)']
      BY DEF LaneIsSuffix
    <3> QED
      BY <1>1, <1>2 DEF LaneIsSuffix
  <2> QED
    BY <2>1, <2>2
<1>4. PICK c \in Nat :
         /\ c + n <= Outcomes /\ Outcomes' = Outcomes - n + 1
         /\ \A i \in 1 .. Outcomes' : Finished'[i] = Finished[IF i <= c + 1 THEN i ELSE i + n - 1]
         /\ dropped' = dropped \cup {Finished[i] : i \in c + 2 .. c + n}
  BY CallFacts
<1>5. Outcomes \in Nat /\ n \in Nat \ {0}
  BY LaneTypes, LenProperties DEF Outcomes
<1> DEFINE was(i) == IF i <= c + 1 THEN i ELSE i + n - 1
           now(i) == IF i <= c + 1 THEN i ELSE i - n + 1
<1>6. \A i \in 1 .. Outcomes' :
         was(i) \in 1 .. Outcomes /\ was(i) \notin c + 2 .. c + n /\ Finished'[i] = Finished[was(i)]
  BY <1>4, <1>5
<1>7. \A i, j \in 1 .. Outcomes' : (was(i) < was(j) => i < j) /\ (was(i) = was(j) => i = j)
  BY <1>4, <1>5
<1>8. \A i \in 1 .. Outcomes : \/ i \in c + 2 .. c + n
                               \/ now(i) \in 1 .. Outcomes' /\ was(now(i)) = i
  BY <1>4, <1>5
<1>9. \A i \in c + 2 .. c + n : i \in 1 .. Outcomes
  BY <1>4, <1>5
<1> HIDE DEF was, now
<1>10. FinishOrder'
  <2>1. ASSUME NEW i \in 1 .. Outcomes', NEW j \in 1 .. Outcomes', Finished'[i] = Finished'[j]
        PROVE  i = j
    BY <1>6, <1>7, <2>1 DEF FinishOrder
  <2>2. ASSUME NEW u \in Thread, NEW a \in 1 .. Given(u), NEW b \in 1 .. Given(u), a < b,
               NEW i \in 1 .. Outcomes', NEW j \in 1 .. Outcomes',
               Finished'[i] = assigned[u][a], Finished'[j] = assigned[u][b]
        PROVE  i < j
    <3>1. was(i) < was(j)
      BY <1>6, <2>2 DEF FinishOrder
    <3> QED
      BY <1>7, <3>1
  <2> QED
    BY <1>1, <1>2, <2>1, <2>2 DEF FinishOrder
<1>11. WorkSettles'
  <2>1. ASSUME NEW u \in Thread, NEW a \in 1 .. Worked(u)
        PROVE  assigned[u][a] \in dropped' \/ \E i \in 1 .. Outcomes' : Finished'[i] = assigned[u][a]
    <3>1. CASE assigned[u][a] \in dropped
      BY <1>4, <3>1
    <3>2. ASSUME NEW i \in 1 .. Outcomes, Finished[i] = assigned[u][a]
          PROVE  assigned[u][a] \in dropped' \/ \E h \in 1 .. Outcomes' : Finished'[h] = assigned[u][a]
      <4>1. CASE i \in c + 2 .. c + n
        BY <1>4, <3>2, <4>1
      <4>2. CASE now(i) \in 1 .. Outcomes' /\ was(now(i)) = i
        BY <1>6, <3>2, <4>2
      <4> QED
        BY <1>8, <4>1, <4>2
    <3> QED
      BY <3>1, <3>2 DEF WorkSettles
  <2>2. ASSUME NEW i \in 1 .. Outcomes'
        PROVE  /\ \E u \in Thread : \E a \in 1 .. Worked(u) : Finished'[i] = assigned[u][a]
               /\ Finished'[i] \notin dropped'
    <3>1. PICK j \in 1 .. Outcomes : j = was(i) /\ j \notin c + 2 .. c + n /\ Finished'[i] = Finished[j]
      BY <1>6
    <3>2. \E u \in Thread : \E a \in 1 .. Worked(u) : Finished[j] = assigned[u][a]
      BY DEF WorkSettles
    <3>3. Finished[j] \notin dropped
      BY DEF WorkSettles
    <3>4. \A h \in c + 2 .. c + n : Finished[j] # Finished[h]
      BY <1>9, <3>1 DEF FinishOrder
    <3> QED
      BY <1>4, <3>1, <3>2, <3>3, <3>4
  <2>3. \A k \in dropped' : \E u \in Thread : \E a \in 1 .. Worked(u) : k = assigned[u][a]
    <3> TAKE k \in dropped'
    <3>1. CASE k \in dropped
      BY <3>1 DEF WorkSettles
    <3>2. ASSUME NEW h \in c + 2 .. c + n, k = Finished[h]
          PROVE  \E u \in Thread : \E a \in 1 .. Worked(u) : k = assigned[u][a]
      <4>1. h \in 1 .. Outcomes
        BY <1>9
      <4> QED
        BY <3>2, <4>1 DEF WorkSettles
    <3> QED
      BY <1>4, <3>1, <3>2
  <2> QED
    BY <1>1, <1>2, <2>1, <2>2, <2>3 DEF WorkSettles
<1> QED
  BY <1>3, <1>10, <1>11

LEMMA NextOInv == IInv /\ OInv /\ [Next]_vars => OInv'
<1> SUFFICES ASSUME IInv, OInv, [Next]_vars PROVE OInv'
  OBVIOUS
<1>1. TypeOK /\ TypeOK'
  BY NextIInv DEF IInv
<1>2. LaneStep
  BY StepLanes
<1>3. CASE Rests
  <2>1. /\ LaneFresh' = LaneFresh /\ LaneQueue' = LaneQueue /\ working' = working
        /\ LaneOut' = LaneOut /\ called' = called /\ assigned' = assigned /\ dropped' = dropped
    BY <1>3 DEF Rests, Lanes!Terminate, Lanes!vars, LaneFresh, LaneQueue, LaneOut
  <2>2. Finished' = Finished /\ Outcomes' = Outcomes
    BY <2>1 DEF Finished, Outcomes
  <2>3. \A u \in Thread : /\ Given(u)' = Given(u) /\ Queued(u)' = Queued(u)
                          /\ Begun(u)' = Begun(u) /\ Worked(u)' = Worked(u)
    BY <2>1 DEF Given, Queued, Begun, Worked
  <2>4. AssignedOnce'
    BY <2>1 DEF OInv, AssignedOnce, Given
  <2>5. LaneIsSuffix'
    <3> SUFFICES ASSUME NEW u \in Thread
                 PROVE  /\ Queued(u)' <= Given(u)'
                        /\ \A i \in 1 .. Queued(u)' : LaneQueue'[u][i] = assigned'[u][Begun(u)' + i]
                        /\ working'[u] # NoTask => Begun(u)' >= 1 /\ working'[u] = assigned'[u][Begun(u)']
      BY DEF LaneIsSuffix
    <3> QED
      BY <2>1, <2>3 DEF OInv, LaneIsSuffix
  <2>6. WorkSettles'
    <3>1. \A u \in Thread : \A a \in 1 .. Worked(u)' :
             assigned'[u][a] \in dropped' \/ \E i \in 1 .. Outcomes' : Finished'[i] = assigned'[u][a]
      <4> TAKE u \in Thread
      <4>1. Worked(u)' = Worked(u)
        BY <2>3
      <4> QED
        BY <2>1, <2>2, <4>1 DEF OInv, WorkSettles
    <3>2. \A i \in 1 .. Outcomes' : \E u \in Thread : \E a \in 1 .. Worked(u)' :
             Finished'[i] = assigned'[u][a]
      <4> TAKE i \in 1 .. Outcomes'
      <4>1. PICK u \in Thread : \E a \in 1 .. Worked(u) : Finished[i] = assigned[u][a]
        BY <2>2 DEF OInv, WorkSettles
      <4> QED
        BY <2>1, <2>2, <2>3, <4>1
    <3>3. \A k \in dropped' : \E u \in Thread : \E a \in 1 .. Worked(u)' : k = assigned'[u][a]
      <4> TAKE k \in dropped'
      <4>1. PICK u \in Thread : \E a \in 1 .. Worked(u) : k = assigned[u][a]
        BY <2>1 DEF OInv, WorkSettles
      <4> QED
        BY <2>1, <2>3, <4>1
    <3> QED
      BY <2>1, <2>2, <3>1, <3>2, <3>3 DEF OInv, WorkSettles
  <2>7. FinishOrder'
    BY <2>1, <2>2 DEF OInv, FinishOrder, Given
  <2> QED
    BY <2>4, <2>5, <2>6, <2>7 DEF OInv
<1> QED
  BY <1>1, <1>2, <1>3, AcceptOInv, BeginOInv, CompleteOInv, DiscardOInv, CallOInv DEF LaneStep

\* Where in the pool position i of a thread's lane is, and outcome i.
LaneSpot(t, i) == IF i <= Len(task_list[t]) THEN <<"task_list", t, i>>
                  ELSE <<"task_queue", t, i - Len(task_list[t])>>
EndSpot(i) == IF i <= Len(called) THEN <<"called", 0, i>>
              ELSE IF i <= Len(called) + Len(main_list)
                   THEN <<"main_list", 0, i - Len(called)>>
                   ELSE <<"task_done", 0, i - Len(called) - Len(main_list)>>

\* The places of a task, by the stages of its way through the lanes.
LEMMA PlacesByStage ==
  ASSUME TypeOK, NEW k \in Task, NEW x
  PROVE  x \in Places(k) <=>
            \/ k \in fresh /\ x = <<"fresh">>
            \/ \E s \in Submitter : call[s].task = k /\ x = <<"call", s>>
            \/ \E t \in Thread : \E i \in 1 .. Queued(t) : LaneQueue[t][i] = k /\ x = LaneSpot(t, i)
            \/ \E t \in Thread : working[t] = k /\ x = <<"working", t>>
            \/ k \in dropped /\ x = <<"dropped">>
            \/ \E i \in 1 .. Outcomes : Finished[i] = k /\ x = EndSpot(i)
<1> DEFINE on(place, owner, list) ==
             \E j \in DOMAIN list : list[j] = k /\ x = <<place, owner, j>>
<1>1. ASSUME NEW place, NEW owner, NEW list
      PROVE  x \in At(place, owner, list, k) <=> on(place, owner, list)
  BY DEF At
<1>2. x \in Places(k) <=>
            \/ k \in fresh /\ x = <<"fresh">>
            \/ k \in dropped /\ x = <<"dropped">>
            \/ \E s \in Submitter : call[s].task = k /\ x = <<"call", s>>
            \/ \E t \in Thread : x \in At("task_queue", t, task_queue[t], k)
            \/ \E t \in Thread : x \in At("task_list", t, task_list[t], k)
            \/ \E t \in Thread : working[t] = k /\ x = <<"working", t>>
            \/ x \in At("task_done", 0, task_done, k)
            \/ x \in At("main_list", 0, main_list, k)
            \/ x \in At("called", 0, called, k)
  BY DEF Places
<1>3. ASSUME NEW t \in Thread
      PROVE  on("task_queue", t, task_queue[t]) \/ on("task_list", t, task_list[t])
                <=> \E i \in 1 .. Queued(t) : LaneQueue[t][i] = k /\ x = LaneSpot(t, i)
  <2>1. PICK m \in Nat, n \in Nat : m = Len(task_list[t]) /\ n = Len(task_queue[t])
    BY LenProperties DEF TypeOK
  <2>2. DOMAIN task_list[t] = 1 .. m /\ DOMAIN task_queue[t] = 1 .. n
    BY <2>1, LenProperties DEF TypeOK
  <2>3. /\ Queued(t) = m + n
        /\ \A i \in 1 .. m + n :
              LaneQueue[t][i] = IF i <= m THEN task_list[t][i] ELSE task_queue[t][i - m]
    BY <2>1, ConcatProperties DEF TypeOK, LaneQueue, Queued
  <2>4. \A i \in 1 .. m : i \in 1 .. m + n /\ LaneQueue[t][i] = task_list[t][i]
                          /\ LaneSpot(t, i) = <<"task_list", t, i>>
    <3> TAKE i \in 1 .. m
    <3>1. i \in 1 .. m + n /\ i <= m
      OBVIOUS
    <3> QED
      BY <2>1, <2>3, <3>1 DEF LaneSpot
  <2>5. \A i \in 1 .. n : /\ m + i \in 1 .. m + n
                          /\ LaneQueue[t][m + i] = task_queue[t][i]
                          /\ LaneSpot(t, m + i) = <<"task_queue", t, i>>
    <3> TAKE i \in 1 .. n
    <3>1. m + i \in 1 .. m + n /\ ~(m + i <= m) /\ (m + i) - m = i
      OBVIOUS
    <3> QED
      BY <2>1, <2>3, <3>1 DEF LaneSpot
  <2>6. \A i \in 1 .. m + n : i \in 1 .. m \/ \E j \in 1 .. n : i = m + j
    <3> TAKE i \in 1 .. m + n
    <3>1. i \in 1 .. m \/ (i - m \in 1 .. n /\ i = m + (i - m))
      OBVIOUS
    <3> QED
      BY <3>1
  <2>7. ASSUME NEW i \in 1 .. m + n, LaneQueue[t][i] = k, x = LaneSpot(t, i)
        PROVE  on("task_queue", t, task_queue[t]) \/ on("task_list", t, task_list[t])
    <3>1. CASE i \in 1 .. m
      BY <2>2, <2>4, <2>7, <3>1
    <3>2. ASSUME NEW j \in 1 .. n, i = m + j PROVE on("task_queue", t, task_queue[t])
      BY <2>2, <2>5, <2>7, <3>2
    <3> QED
      BY <2>6, <3>1, <3>2
  <2>8. on("task_queue", t, task_queue[t])
          => \E i \in 1 .. m + n : LaneQueue[t][i] = k /\ x = LaneSpot(t, i)
    BY <2>2, <2>5
  <2>9. on("task_list", t, task_list[t])
          => \E i \in 1 .. m + n : LaneQueue[t][i] = k /\ x = LaneSpot(t, i)
    BY <2>2, <2>4
  <2> HIDE DEF on
  <2> QED
    BY <2>3, <2>7, <2>8, <2>9
<1>4. on("task_done", 0, task_done) \/ on("main_list", 0, main_list) \/ on("called", 0, called)
         <=> \E i \in 1 .. Outcomes : Finished[i] = k /\ x = EndSpot(i)
  <2>1. PICK c \in Nat, m \in Nat, n \in Nat :
           c = Len(called) /\ m = Len(main_list) /\ n = Len(task_done)
    BY LenProperties DEF TypeOK
  <2>2. DOMAIN called = 1 .. c /\ DOMAIN main_list = 1 .. m /\ DOMAIN task_done = 1 .. n
    BY <2>1, LenProperties DEF TypeOK
  <2>3. /\ LaneOut \in Seq(Task) /\ Len(LaneOut) = m + n
        /\ \A i \in 1 .. m + n : LaneOut[i] = IF i <= m THEN main_list[i] ELSE task_done[i - m]
    BY <2>1, ConcatProperties DEF TypeOK, LaneOut
  <2>4. /\ Outcomes = c + (m + n)
        /\ \A i \in 1 .. c + (m + n) : Finished[i] = IF i <= c THEN called[i] ELSE LaneOut[i - c]
    <3>1. /\ Len(called \o LaneOut) = Len(called) + Len(LaneOut)
          /\ \A i \in 1 .. Len(called) + Len(LaneOut) :
                (called \o LaneOut)[i] = IF i <= Len(called) THEN called[i]
                                         ELSE LaneOut[i - Len(called)]
      BY <2>3, ConcatProperties, ZenonT(30) DEF TypeOK
    <3> QED
      BY <2>1, <2>3, <3>1 DEF Finished, Outcomes
  <2>5. \A i \in 1 .. c : i \in 1 .. Outcomes /\ Finished[i] = called[i]
                          /\ EndSpot(i) = <<"called", 0, i>>
    BY <2>1, <2>4 DEF EndSpot
  <2>6. \A i \in 1 .. m : /\ c + i \in 1 .. Outcomes
                          /\ Finished[c + i] = main_list[i]
                          /\ EndSpot(c + i) = <<"main_list", 0, i>>
    <3> TAKE i \in 1 .. m
    <3>1. /\ c + i \in 1 .. c + (m + n) /\ ~(c + i <= c) /\ (c + i) - c = i
          /\ i \in 1 .. m + n /\ c + i <= c + m /\ i <= m
      OBVIOUS
    <3> QED
      BY <2>1, <2>3, <2>4, <3>1 DEF EndSpot
  <2>7. \A i \in 1 .. n : /\ c + (m + i) \in 1 .. Outcomes
                          /\ Finished[c + (m + i)] = task_done[i]
                          /\ EndSpot(c + (m + i)) = <<"task_done", 0, i>>
    <3> TAKE i \in 1 .. n
    <3>1. /\ c + (m + i) \in 1 .. c + (m + n) /\ ~(c + (m + i) <= c) /\ (c + (m + i)) - c = m + i
          /\ m + i \in 1 .. m + n /\ ~(m + i <= m) /\ (m + i) - m = i
          /\ ~(c + (m + i) <= c + m) /\ (c + (m + i)) - c - m = i
      OBVIOUS
    <3> QED
      BY <2>1, <2>3, <2>4, <3>1 DEF EndSpot
  <2>8. \A i \in 1 .. Outcomes : \/ i \in 1 .. c
                                 \/ \E j \in 1 .. m : i = c + j
                                 \/ \E j \in 1 .. n : i = c + (m + j)
    <3> TAKE i \in 1 .. Outcomes
    <3>1. \/ i \in 1 .. c
          \/ i - c \in 1 .. m /\ i = c + (i - c)
          \/ i - c - m \in 1 .. n /\ i = c + (m + (i - c - m))
      BY <2>4
    <3> QED
      BY <3>1
  <2>9. ASSUME NEW i \in 1 .. Outcomes, Finished[i] = k, x = EndSpot(i)
        PROVE  \/ on("task_done", 0, task_done) \/ on("main_list", 0, main_list)
               \/ on("called", 0, called)
    <3>1. CASE i \in 1 .. c
      BY <2>2, <2>5, <2>9, <3>1
    <3>2. ASSUME NEW j \in 1 .. m, i = c + j PROVE on("main_list", 0, main_list)
      BY <2>2, <2>6, <2>9, <3>2
    <3>3. ASSUME NEW j \in 1 .. n, i = c + (m + j) PROVE on("task_done", 0, task_done)
      BY <2>2, <2>7, <2>9, <3>3
    <3> QED
      BY <2>8, <3>1, <3>2, <3>3
  <2>10. on("called", 0, called) => \E i \in 1 .. Outcomes : Finished[i] = k /\ x = EndSpot(i)
    BY <2>2, <2>5
  <2>11. on("main_list", 0, main_list)
           => \E i \in 1 .. Outcomes : Finished[i] = k /\ x = EndSpot(i)
    BY <2>2, <2>6
  <2>12. on("task_done", 0, task_done)
           => \E i \in 1 .. Outcomes : Finished[i] = k /\ x = EndSpot(i)
    BY <2>2, <2>7
  <2> HIDE DEF on
  <2> QED
    BY <2>9, <2>10, <2>11, <2>12
<1> HIDE DEF on
<1> QED
  BY <1>1, <1>2, <1>3, <1>4

\* A task is in one place only.
LEMMA OnePlace ==
  ASSUME TypeOK, HeldOnce, OInv, NEW k \in Task
  PROVE  \E p : Places(k) = {p}
<1> USE DEF OInv
<1> DEFINE called_by(s)  == s \in Submitter /\ call[s].task = k
           waits(t, i)   == t \in Thread /\ i \in 1 .. Queued(t) /\ LaneQueue[t][i] = k
           works(t)      == t \in Thread /\ working[t] = k
           ended(i)      == i \in 1 .. Outcomes /\ Finished[i] = k
           given(t, a)   == t \in Thread /\ a \in 1 .. Given(t) /\ assigned[t][a] = k
           is(p) == \A x : x \in Places(k) <=> x = p
<1>1. SUFFICES \E p : is(p)
  <2>1. ASSUME NEW p, is(p) PROVE Places(k) = {p}
    BY <2>1
  <2> QED
    BY <2>1
<1>2. k \in LaneFresh <=> ~\E t, a : given(t, a)
  BY DEF AssignedOnce
<1>3. k \in LaneFresh <=> k \in fresh \/ \E s : called_by(s)
  BY DEF LaneFresh, InCall
<1>4. \A t, a, u, b : given(t, a) /\ given(u, b) => t = u /\ a = b
  BY DEF AssignedOnce
<1>5. \A t, i : waits(t, i) => given(t, Begun(t) + i)
  <2> SUFFICES ASSUME NEW t \in Thread, NEW i \in 1 .. Queued(t), LaneQueue[t][i] = k
               PROVE  Begun(t) + i \in 1 .. Given(t) /\ assigned[t][Begun(t) + i] = k
    OBVIOUS
  <2>1. assigned[t][Begun(t) + i] = k /\ Queued(t) <= Given(t)
    BY DEF LaneIsSuffix
  <2> QED
    BY <2>1, LaneNats
<1>6. \A t : works(t) => given(t, Begun(t)) /\ Worked(t) = Begun(t) - 1
  BY RunningTask, TaskAssumption
<1>7. k \in dropped => \E t, a : given(t, a) /\ a <= Worked(t)
  BY LaneNats DEF WorkSettles
<1>8. \A i : ended(i) => \E t, a : given(t, a) /\ a <= Worked(t)
  BY LaneNats DEF WorkSettles
<1>9. \A i : ended(i) => k \notin dropped
  BY DEF WorkSettles
<1>10. \A i, j : ended(i) /\ ended(j) => i = j
  BY DEF FinishOrder
<1>11. ASSUME NEW t, NEW a, given(t, a)
       PROVE  \/ a <= Worked(t) /\ (k \in dropped \/ \E i : ended(i))
              \/ works(t)
              \/ a > Begun(t) /\ waits(t, a - Begun(t))
  <2>1. CASE a <= Worked(t)
    <3>1. a \in 1 .. Worked(t) /\ t \in Thread /\ assigned[t][a] = k
      BY <1>11, <2>1, LaneNats
    <3> QED
      BY <2>1, <3>1 DEF WorkSettles
  <2>2. CASE a > Begun(t)
    <3>1. /\ a - Begun(t) \in 1 .. Queued(t) /\ t \in Thread /\ assigned[t][a] = k
          /\ Begun(t) + (a - Begun(t)) = a
      BY <1>11, <2>2, LaneNats
    <3> QED
      BY <2>2, <3>1 DEF LaneIsSuffix
  <2>3. CASE a = Begun(t) /\ working[t] # NoTask
    BY <1>11, <2>3 DEF LaneIsSuffix
  <2> QED
    BY <1>11, <2>1, <2>2, <2>3, LaneNats
<1>12. \A x : x \in Places(k) <=>
            \/ k \in fresh /\ x = <<"fresh">>
            \/ \E s : called_by(s) /\ x = <<"call", s>>
            \/ \E t, i : waits(t, i) /\ x = LaneSpot(t, i)
            \/ \E t : works(t) /\ x = <<"working", t>>
            \/ k \in dropped /\ x = <<"dropped">>
            \/ \E i : ended(i) /\ x = EndSpot(i)
  BY PlacesByStage
<1>13. \A s, u : called_by(s) /\ called_by(u) => s = u
  BY DEF HeldOnce
<1>14. \A s : called_by(s) => k \notin fresh
  BY DEF HeldOnce
<1>15. \A t : t \in Thread => Begun(t) \in Int /\ Worked(t) \in Int /\ Worked(t) <= Begun(t)
  BY LaneNats
<1>16. \A t, i : waits(t, i) => i \in Nat /\ i >= 1
  BY LaneNats
<1>17. \A t, a : given(t, a) => t \in Thread /\ a \in Int
  BY LaneNats
<1>18. ASSUME NEW t, NEW i, waits(t, i)
       PROVE  /\ \A u, j : waits(u, j) => u = t /\ j = i
              /\ \A u : ~works(u)
              /\ k \notin dropped /\ \A j : ~ended(j)
  <2>1. given(t, Begun(t) + i) /\ Begun(t) \in Int /\ Worked(t) <= Begun(t) /\ i \in Nat /\ i >= 1
        /\ Worked(t) \in Int
    BY <1>5, <1>15, <1>16, <1>17, <1>18
  <2>2. ASSUME NEW u, NEW j, waits(u, j) PROVE u = t /\ j = i
    <3>1. u = t /\ Begun(u) + j = Begun(t) + i /\ j \in Nat
      BY <2>1, <2>2, <1>4, <1>5, <1>16
    <3> QED
      BY <3>1, <2>1
  <2>3. ASSUME NEW u, works(u) PROVE FALSE
    <3>1. u = t /\ Begun(u) = Begun(t) + i
      BY <2>1, <2>3, <1>4, <1>6
    <3> QED
      BY <3>1, <2>1
  <2>4. ASSUME NEW u, NEW a, given(u, a), a <= Worked(u) PROVE FALSE
    <3>1. u = t /\ a = Begun(t) + i
      BY <2>1, <2>4, <1>4
    <3> QED
      BY <3>1, <2>1, <2>4
  <2> QED
    BY <2>2, <2>3, <2>4, <1>7, <1>8
<1>19. ASSUME NEW t, works(t)
       PROVE  /\ \A u : works(u) => u = t
              /\ \A u, j : ~waits(u, j)
              /\ k \notin dropped /\ \A j : ~ended(j)
  <2>1. given(t, Begun(t)) /\ Begun(t) \in Int /\ Worked(t) = Begun(t) - 1
    BY <1>6, <1>15, <1>17, <1>19
  <2>2. ASSUME NEW u, NEW a, given(u, a), a <= Worked(u) PROVE FALSE
    <3>1. u = t /\ a = Begun(t)
      BY <2>1, <2>2, <1>4
    <3> QED
      BY <3>1, <2>1, <2>2
  <2> QED
    BY <2>1, <2>2, <1>4, <1>6, <1>7, <1>8, <1>18, <1>19
<1> HIDE DEF called_by, waits, works, ended, given, is
<1>20. CASE k \in LaneFresh
  <2>1. /\ k \notin dropped /\ (\A i : ~ended(i)) /\ (\A t : ~works(t)) /\ \A t, i : ~waits(t, i)
    BY <1>20, <1>2, <1>5, <1>6, <1>7, <1>8
  <2>2. CASE k \in fresh
    <3>1. is(<<"fresh">>)
      BY <1>12, <1>14, <2>1, <2>2 DEF is
    <3> QED
      BY <3>1
  <2>3. ASSUME NEW s, called_by(s) PROVE \E p : is(p)
    <3>1. is(<<"call", s>>)
      BY <1>12, <1>13, <1>14, <2>1, <2>3 DEF is
    <3> QED
      BY <3>1
  <2> QED
    BY <1>3, <1>20, <2>2, <2>3
<1>21. CASE k \notin LaneFresh
  <2>1. k \notin fresh /\ \A s : ~called_by(s)
    BY <1>3, <1>21
  <2>2. ASSUME NEW t, NEW i, waits(t, i) PROVE \E p : is(p)
    <3>1. is(LaneSpot(t, i))
      BY <1>12, <1>18, <2>1, <2>2 DEF is
    <3> QED
      BY <3>1
  <2>3. ASSUME NEW t, works(t) PROVE \E p : is(p)
    <3>1. is(<<"working", t>>)
      BY <1>12, <1>19, <2>1, <2>3 DEF is
    <3> QED
      BY <3>1
  <2>4. CASE k \in dropped
    <3>1. is(<<"dropped">>)
      BY <1>9, <1>12, <1>18, <1>19, <2>1, <2>4 DEF is
    <3> QED
      BY <3>1
  <2>5. ASSUME NEW i, ended(i) PROVE \E p : is(p)
    <3>1. is(EndSpot(i))
      BY <1>9, <1>10, <1>12, <1>18, <1>19, <2>1, <2>5 DEF is
    <3> QED
      BY <3>1
  <2> QED
    BY <1>2, <1>11, <1>21, <2>2, <2>3, <2>4, <2>5
<1> QED
  BY <1>20, <1>21

\* Every task is in exactly one place at every moment, and gets its callback after those
\* the same thread got before it: for any number of threads, tasks and submitters, and
\* with work() and done() failing whenever they like.
THEOREM NothingLostOrReordered == Spec => []EachOnceInOrder
<1>1. IInv /\ OInv => ExactlyOnePlace
  BY OnePlace, FS_Singleton DEF IInv, ExactlyOnePlace
<1>2. IInv /\ OInv => CallbacksInOrder
  <2> SUFFICES ASSUME IInv, OInv, NEW t \in Thread, NEW a \in DOMAIN assigned[t],
                      NEW b \in DOMAIN assigned[t], NEW i \in DOMAIN called, NEW j \in DOMAIN called,
                      assigned[t][a] = called[i], assigned[t][b] = called[j], a < b
               PROVE  i < j
    BY DEF CallbacksInOrder
  <2>1. TypeOK
    BY DEF IInv
  <2>2. a \in 1 .. Given(t) /\ b \in 1 .. Given(t)
    BY <2>1, LenProperties DEF TypeOK, Given
  <2>3. i \in 1 .. Len(called) /\ j \in 1 .. Len(called)
    BY <2>1, LenProperties DEF TypeOK
  <2>4. /\ i \in 1 .. Outcomes /\ Finished[i] = called[i]
        /\ j \in 1 .. Outcomes /\ Finished[j] = called[j]
    BY <2>1, <2>3, LaneTypes, ConcatProperties, LenProperties DEF Finished, Outcomes
  <2> QED
    BY <2>2, <2>4 DEF OInv, FinishOrder
<1> QED
  BY <1>1, <1>2, InitIInv, NextIInv, InitOInv, NextOInv, PTL DEF Spec, EachOnceInOrder

=============================================================================

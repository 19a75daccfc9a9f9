---------------------------- MODULE RedisTasksProofs ----------------------------
(***************************************************************************)
(* A GET of ns_async overtakes no SET of its thread, and sees the new      *)
(* value if its own is among them, for any number of keys, threads and     *)
(* connections: the composition of TaskPool, ConnPool and the commands.    *)
(* It uses both pools as they may be used, so that their promises hold in  *)
(* it.  And the other Redis programs print what they stored or nothing,    *)
(* whatever is lost.                                                       *)
(***************************************************************************)
EXTENDS MCRedisTasks, FiniteSetTheorems, SequenceTheorems, TLAPS

Set(k) == <<"SET", k>>
Get(k) == <<"GET", k>>

-----------------------------------------------------------------------------
(* Counting modulo the number of threads *)

LEMMA DivMod ==
  \A a \in Int, n \in Nat \ {0} :
     /\ a \div n \in Int /\ a % n \in 0 .. n - 1
     /\ a = n * (a \div n) + (a % n)
OBVIOUS

LEMMA Product ==
  \A n \in Nat \ {0}, k \in Int :
     /\ n * k \in Int
     /\ k >= 1 => n * k >= n
     /\ k <= -1 => n * k <= -n
OBVIOUS

Apart(a, b, n) == \E q \in Int : a = b + n * q

\* Multiples of n do not change the remainder.
LEMMA ModShift ==
  ASSUME NEW a \in Int, NEW b \in Int, NEW n \in Nat \ {0}, Apart(a, b, n)
  PROVE  a % n = b % n
<1>0. PICK q \in Int : a = b + n * q
  BY DEF Apart
<1> DEFINE c == a \div n
           d == b \div n
           r == a % n
           s == b % n
<1>1. /\ c \in Int /\ r \in 0 .. n - 1 /\ a = n * c + r
      /\ d \in Int /\ s \in 0 .. n - 1 /\ b = n * d + s
  BY DivMod
<1> HIDE DEF c, d, r, s
<1>2. /\ n * c \in Int /\ n * d \in Int /\ n * q \in Int
      /\ n * (d + q - c) = n * d + n * q - n * c
  BY <1>1
<1>3. n * (d + q - c) = r - s
  BY <1>0, <1>1, <1>2
<1>4. d + q - c = 0
  <2> SUFFICES ASSUME d + q - c # 0 PROVE FALSE
    OBVIOUS
  <2>1. d + q - c >= 1 \/ d + q - c <= -1
    BY <1>1
  <2>2. n * (d + q - c) >= n \/ n * (d + q - c) <= -n
    BY <1>1, <2>1, Product
  <2> QED
    BY <1>1, <1>3, <2>2
<1>5. n * (d + q - c) = 0
  BY <1>1, <1>4
<1>6. r = s
  BY <1>1, <1>3, <1>5
<1> QED
  BY <1>6 DEF r, s

LEMMA ModNext ==
  ASSUME NEW a \in Int, NEW b \in Int, NEW n \in Nat \ {0}, a % n = b % n
  PROVE  (a + 1) % n = (b + 1) % n
<1> DEFINE c == a \div n
           d == b \div n
           r == a % n
<1>1. c \in Int /\ d \in Int /\ r \in Int /\ a = n * c + r /\ b = n * d + r
  BY DivMod
<1> HIDE DEF c, d, r
<1>2. n * (c - d) = n * c - n * d /\ n * c \in Int /\ n * d \in Int
  BY <1>1
<1>3. a + 1 = (b + 1) + n * (c - d)
  BY <1>1, <1>2
<1>4. a + 1 \in Int /\ b + 1 \in Int /\ c - d \in Int
  BY <1>1
<1>5. Apart(a + 1, b + 1, n)
  BY <1>3, <1>4 DEF Apart
<1> QED
  BY <1>4, <1>5, ModShift

-----------------------------------------------------------------------------
(* A thread's tasks: the one it works on, then its list, then its queue *)

Before(s, i, x) == \E j \in 1 .. i - 1 : s[j] = x
Holds(s, x)     == \E j \in 1 .. Len(s) : s[j] = x

LaneHas(w, l, q, x) == w = x \/ Holds(l, x) \/ Holds(q, x)

\* Where there is the GET of k, the SET of j is answered or ahead of it; v is its reply.
InOrder(v, w, l, q, j, k) ==
    /\ w = Get(k) => v # "none"
    /\ \A i \in 1 .. Len(l) : l[i] = Get(k) => v # "none" \/ w = Set(j) \/ Before(l, i, Set(j))
    /\ \A i \in 1 .. Len(q) :
          q[i] = Get(k) => v # "none" \/ w = Set(j) \/ Holds(l, Set(j)) \/ Before(q, i, Set(j))

LEMMA Appended ==
  ASSUME NEW q \in Seq(Task), NEW x \in Task
  PROVE  LET p == Append(q, x)
             m == Len(q) + 1
         IN  /\ Len(q) \in Nat /\ Len(p) = m /\ p[m] = x /\ \A i \in 1 .. Len(q) : p[i] = q[i]
             /\ Holds(p, x) /\ \A y : Holds(q, y) => Holds(p, y) /\ Before(p, m, y)
<1>1. PICK n \in Nat, m \in Nat : n = Len(q) /\ m = n + 1
  BY LenProperties
<1>2. PICK p : p = Append(q, x)
  OBVIOUS
<1>3. Len(p) = m /\ p[m] = x /\ \A i \in 1 .. n : p[i] = q[i]
  BY <1>1, <1>2, AppendProperties
<1>4. \A y : Holds(q, y) => Holds(p, y) /\ Before(p, m, y)
  BY <1>1, <1>3 DEF Holds, Before
<1>5. Holds(p, x)
  BY <1>1, <1>3 DEF Holds
<1> QED
  BY <1>1, <1>2, <1>3, <1>4, <1>5

LEMMA PutHas ==
  ASSUME NEW q \in Seq(Task), NEW x \in Task, NEW w, NEW l
  PROVE  /\ LaneHas(w, l, Append(q, x), x)
         /\ \A y : LaneHas(w, l, q, y) => LaneHas(w, l, Append(q, x), y)
BY Appended DEF LaneHas

LEMMA PutOrder ==
  ASSUME NEW q \in Seq(Task), NEW x \in Task, NEW v, NEW w, NEW l, NEW j, NEW k,
         InOrder(v, w, l, q, j, k), x = Get(k) => v # "none" \/ LaneHas(w, l, q, Set(j))
  PROVE  InOrder(v, w, l, Append(q, x), j, k)
<1>1. PICK n \in Nat, m \in Nat : n = Len(q) /\ m = n + 1
  BY LenProperties
<1>2. PICK p : p = Append(q, x)
  OBVIOUS
<1>3. /\ Len(p) = m /\ p[m] = x /\ \A i \in 1 .. n : p[i] = q[i]
      /\ \A y : Holds(q, y) => Holds(p, y) /\ Before(p, m, y)
  BY <1>1, <1>2, Appended
<1>4. \A i \in 1 .. m : i = m \/ i \in 1 .. n
  BY <1>1
<1>5. \A i \in 1 .. n : Before(q, i, Set(j)) => Before(p, i, Set(j))
  BY <1>1, <1>3 DEF Before
<1>6. ASSUME NEW i \in 1 .. m, p[i] = Get(k)
      PROVE  v # "none" \/ w = Set(j) \/ Holds(l, Set(j)) \/ Before(p, i, Set(j))
  <2>1. CASE i = m
    BY <1>3, <1>6, <2>1 DEF LaneHas
  <2>2. CASE i \in 1 .. n
    BY <1>1, <1>3, <1>5, <1>6, <2>2 DEF InOrder
  <2> QED
    BY <1>4, <2>1, <2>2
<1> QED
  BY <1>2, <1>3, <1>6 DEF InOrder

LEMMA TakeHas ==
  ASSUME NEW q, NEW w
  PROVE  \A y : LaneHas(w, <<>>, q, y) => LaneHas(w, q, <<>>, y)
<1>1. Len(<<>>) = 0 /\ \A i : i \notin 1 .. 0
  OBVIOUS
<1> QED
  BY <1>1 DEF LaneHas, Holds

LEMMA TakeOrder ==
  ASSUME NEW q, NEW v, NEW w, NEW j, NEW k, InOrder(v, w, <<>>, q, j, k)
  PROVE  InOrder(v, w, q, <<>>, j, k)
<1>1. Len(<<>>) = 0 /\ \A i : i \notin 1 .. 0
  OBVIOUS
<1> QED
  BY <1>1 DEF InOrder, Holds

LEMMA Removed ==
  ASSUME NEW l \in Seq(Task), l # <<>>
  PROVE  LET n == Len(l) - 1
         IN  /\ n \in Nat /\ Len(Tail(l)) = n /\ Head(l) = l[1]
             /\ \A i \in 1 .. n : Tail(l)[i] = l[i + 1]
             /\ \A i \in 1 .. n + 1 : i = 1 \/ (i - 1 \in 1 .. n /\ l[i] = Tail(l)[i - 1])
             /\ \A y : Holds(l, y) => Head(l) = y \/ Holds(Tail(l), y)
<1>1. PICK h : h = Head(l)
  OBVIOUS
<1>2. PICK u : u = Tail(l)
  OBVIOUS
<1>3. PICK n \in Nat : n = Len(l) - 1
  BY LenProperties, EmptySeq
<1>4. Len(l) = n + 1 /\ Len(u) = n /\ h = l[1] /\ \A i \in 1 .. n : u[i] = l[i + 1]
  BY <1>1, <1>2, <1>3, HeadTailProperties, LenProperties
<1>5. \A i \in 1 .. n + 1 : i = 1 \/ (i - 1 \in 1 .. n /\ l[i] = u[i - 1])
  BY <1>4
<1>6. \A y : Holds(l, y) => h = y \/ Holds(u, y)
  BY <1>4, <1>5 DEF Holds
<1> QED
  BY <1>1, <1>2, <1>3, <1>4, <1>5, <1>6

LEMMA WorkHas ==
  ASSUME NEW l \in Seq(Task), NEW w, NEW q, w = NoTask, l # <<>>
  PROVE  \A y \in Task : LaneHas(w, l, q, y) => LaneHas(Head(l), Tail(l), q, y)
<1>1. \A y \in Task : y # NoTask
  BY RedisAssumption DEF Task, Key
<1>2. \A y : Holds(l, y) => Head(l) = y \/ Holds(Tail(l), y)
  BY Removed
<1> QED
  BY <1>1, <1>2 DEF LaneHas

LEMMA WorkOrder ==
  ASSUME NEW l \in Seq(Task), NEW v, NEW w, NEW q, NEW j \in Key, NEW k \in Key,
         InOrder(v, w, l, q, j, k), w = NoTask, l # <<>>
  PROVE  InOrder(v, Head(l), Tail(l), q, j, k)
<1>a. PICK h : h = Head(l)
  OBVIOUS
<1>b. PICK u : u = Tail(l)
  OBVIOUS
<1>1. PICK n \in Nat : n = Len(l) - 1
  BY LenProperties, EmptySeq
<1>2. /\ Len(l) = n + 1 /\ Len(u) = n /\ h = l[1] /\ \A i \in 1 .. n : u[i] = l[i + 1]
      /\ \A i \in 1 .. n + 1 : i = 1 \/ (i - 1 \in 1 .. n /\ l[i] = u[i - 1])
      /\ \A y : Holds(l, y) => h = y \/ Holds(u, y)
  BY <1>a, <1>b, <1>1, Removed
<1>3. Set(j) \in Task /\ Get(k) \in Task /\ \A y \in Task : y # NoTask
  BY RedisAssumption DEF Task, Key, Set, Get
<1>4. h = Get(k) => v # "none"
  <2>1. 1 \in 1 .. Len(l) /\ ~Before(l, 1, Set(j))
    BY <1>2 DEF Before
  <2> QED
    BY <1>2, <1>3, <2>1 DEF InOrder
<1>5. ASSUME NEW i \in 1 .. n, u[i] = Get(k)
      PROVE  v # "none" \/ h = Set(j) \/ Before(u, i, Set(j))
  <2>1. i + 1 \in 1 .. Len(l) /\ l[i + 1] = Get(k)
    BY <1>2, <1>5
  <2>2. v # "none" \/ Before(l, i + 1, Set(j))
    BY <1>3, <2>1 DEF InOrder
  <2>3. ASSUME NEW m \in 1 .. (i + 1) - 1, l[m] = Set(j), m # 1
        PROVE  Before(u, i, Set(j))
    <3>1. m - 1 \in 1 .. i - 1 /\ m - 1 \in 1 .. n /\ m \in 1 .. n + 1
      BY <2>3
    <3>2. u[m - 1] = Set(j)
      BY <1>2, <2>3, <3>1
    <3> QED
      BY <3>1, <3>2 DEF Before
  <2> QED
    BY <1>2, <2>2, <2>3 DEF Before
<1>6. ASSUME NEW i \in 1 .. Len(q), q[i] = Get(k)
      PROVE  v # "none" \/ h = Set(j) \/ Holds(u, Set(j)) \/ Before(q, i, Set(j))
  BY <1>2, <1>3, <1>6 DEF InOrder
<1> QED
  BY <1>a, <1>b, <1>2, <1>4, <1>5, <1>6 DEF InOrder

-----------------------------------------------------------------------------
(* The inductive invariant *)

\* The thread of task number n of the program, when the index started from i.
LaneOf(i, n) == (i + n) % ThreadSize

Divides == IdxModulus % ThreadSize = 0

TaskTypes ==
    /\ cur_thread_idx \in 0 .. IdxModulus - 1
    /\ fresh \subseteq Task /\ IsFiniteSet(Task \ fresh)
    /\ call \in [{"main"} -> [task : Task \cup {NoTask}, thread : Thread]]
    /\ call["main"].task = NoTask => call["main"] = Tasks!Idle
    /\ task_queue \in [Thread -> Seq(Task)] /\ task_list \in [Thread -> Seq(Task)]
    /\ working \in [Thread -> Task \cup {NoTask}]
    /\ pc \in [Thread -> {"idle", "using"}]
    /\ held \in [Thread -> Addr \cup {NoConn}]
    /\ store \in [Database -> [Key -> {"nil", "old", "new"}]]
    /\ selected \in [Addr -> Database] /\ asked \in [Key -> Database]
    /\ reply \in [Task -> {"none", "OK", "error", "nil", "old", "new"}]

\* The program has drawn a thread for its first tasks, in their order.
Drawn(i) ==
    /\ Submitted \in 0 .. 2 * MaxTask
    /\ \A k \in Key : /\ Set(k) \in fresh <=> Submitted <= k
                      /\ Get(k) \in fresh <=> Submitted <= MaxTask + k
    /\ cur_thread_idx % ThreadSize = (i + Submitted) % ThreadSize

\* The task between its draw and its put is the last one drawn.
Calling(i) == \A k \in Key :
    /\ call["main"].task = Set(k) => Submitted = k + 1 /\ call["main"].thread = LaneOf(i, k)
    /\ call["main"].task = Get(k) =>
          Submitted = MaxTask + k + 1 /\ call["main"].thread = LaneOf(i, MaxTask + k)

Has(t, x) == LaneHas(working[t], task_list[t], task_queue[t], x)

\* A SET that was put on its thread is still there, or was answered.
SetKept(i) == \A j \in Key :
    \/ Set(j) \in fresh \/ call["main"].task = Set(j)
    \/ reply[Set(j)] # "none" \/ Has(LaneOf(i, j), Set(j))

GetsBehind == \A j, k \in Key, t \in Thread :
    Behind(j, k) =>
        InOrder(reply[Set(j)], working[t], task_list[t], task_queue[t], j, k)

\* The replies came in the order of the tasks, and what a GET found is there still.
Replied ==
    /\ \A j, k \in Key : Behind(j, k) /\ reply[Get(k)] # "none" => reply[Set(j)] # "none"
    /\ \A k \in Key : reply[Set(k)] \in {"none", "OK", "error"}
    /\ \A k \in Key : Behind(k, k) /\ reply[Get(k)] \notin {"none", "error"} =>
                          reply[Get(k)] = store[asked[k]][k]

\* Only a thread in work() has a connection.
Busy == \A t \in Thread : /\ pc[t] # "idle" => working[t] # NoTask
                          /\ pc[t] = "using" => held[t] \in Addr

InvAt(i) == /\ TaskTypes /\ Busy
            /\ Drawn(i) /\ Calling(i) /\ SetKept(i)
            /\ GetsBehind /\ Replied

IInv == Divides => \E i \in Nat : InvAt(i)

LEMMA TaskFacts ==
  /\ \A k \in Key : Set(k) \in Task /\ Get(k) \in Task
  /\ \A x \in Task : \E k \in Key : x = Set(k) \/ x = Get(k)
  /\ \A j, k : Set(j) # Get(k) /\ (Set(j) = Set(k) => j = k) /\ (Get(j) = Get(k) => j = k)
  /\ \A x \in Task : x # NoTask /\ x # NullTask
  /\ NoTask \notin Task
BY RedisAssumption DEF Task, Key, Set, Get

LEMMA SameLane ==
  ASSUME NEW i \in Nat, NEW j \in Key, NEW k \in Key, Behind(j, k)
  PROVE  LaneOf(i, MaxTask + k) = LaneOf(i, j)
<1>1. PICK m \in Int, a \in Int, b \in Int :
         m = MaxTask + k - j /\ a = i + (MaxTask + k) /\ b = i + j /\ a = b + m
  BY RedisAssumption DEF Key
<1>2. m = ThreadSize * (m \div ThreadSize) + (m % ThreadSize) /\ m \div ThreadSize \in Int
  BY RedisAssumption, DivMod
<1>3. m % ThreadSize = 0
  BY <1>1 DEF Behind
<1>4. PICK q \in Int : q = m \div ThreadSize /\ m = ThreadSize * q
  <2>1. PICK q \in Int, p \in Int : q = m \div ThreadSize /\ p = ThreadSize * q /\ m = p + (m % ThreadSize)
    BY <1>2, RedisAssumption
  <2>2. m = p
    BY <1>3, <2>1
  <2> QED
    BY <2>1, <2>2
<1>5. a = b + ThreadSize * q
  BY <1>1, <1>4
<1>5a. Apart(a, b, ThreadSize)
  BY <1>5 DEF Apart
<1>6. a % ThreadSize = b % ThreadSize
  BY <1>5a, RedisAssumption, ModShift
<1> QED
  BY <1>1, <1>6 DEF LaneOf

LEMMA LaneType == ASSUME NEW a \in Int PROVE a % ThreadSize \in Thread
BY DivMod, RedisAssumption DEF Thread

LEMMA InitIInv == Init => IInv
<1> SUFFICES ASSUME Init PROVE \E i \in Nat : InvAt(i)
  BY DEF IInv
<1>1. /\ cur_thread_idx \in 0 .. IdxModulus - 1 /\ fresh = Task
      /\ call = [s \in {"main"} |-> Tasks!Idle]
      /\ task_queue = [t \in Thread |-> <<>>] /\ task_list = [t \in Thread |-> <<>>]
      /\ working = [t \in Thread |-> NoTask] /\ pc = [t \in Thread |-> "idle"]
      /\ held = [t \in Thread |-> NoConn]
      /\ store \in [Database -> [Key -> {"nil", "old"}]] /\ reply = [k \in Task |-> "none"]
      /\ selected = [c \in Addr |-> 0] /\ asked = [k \in Key |-> 0]
  BY DEF Init, Tasks!Init, Conns!Init, Thread, Tasks!Thread
<1>2. PICK i \in Nat : i = cur_thread_idx
  BY <1>1, RedisAssumption
<1>3. Submitted = 0 /\ Task \ fresh = {} /\ IsFiniteSet(Task \ fresh)
  <2>1. Task \ fresh = {}
    BY <1>1
  <2> QED
    BY <2>1, FS_EmptySet DEF Submitted
<1>4. 0 \in Thread
  BY RedisAssumption DEF Thread
<1>5. Tasks!Idle.task = NoTask /\ Tasks!Idle \in [task : Task \cup {NoTask}, thread : Thread]
  BY <1>4 DEF Tasks!Idle
<1>6. TaskTypes /\ Busy
  <2>1. <<>> \in Seq(Task)
    OBVIOUS
  <2>3. /\ store \in [Database -> [Key -> {"nil", "old", "new"}]]
        /\ selected \in [Addr -> Database] /\ asked \in [Key -> Database]
        /\ held \in [Thread -> Addr \cup {NoConn}]
    BY <1>1 DEF Database
  <2>4. call \in [{"main"} -> [task : Task \cup {NoTask}, thread : Thread]]
    BY <1>1, <1>5, Zenon
  <2>5. call["main"] = Tasks!Idle
    BY <1>1
  <2>6. /\ task_queue \in [Thread -> Seq(Task)] /\ task_list \in [Thread -> Seq(Task)]
        /\ working \in [Thread -> Task \cup {NoTask}]
    BY <1>1, <2>1
  <2>8. /\ pc \in [Thread -> {"idle", "using"}]
        /\ reply \in [Task -> {"none", "OK", "error", "nil", "old", "new"}]
    BY <1>1
  <2>9. Busy
    BY <1>1 DEF Busy
  <2> QED
    BY <1>1, <1>3, <2>3, <2>4, <2>5, <2>6, <2>8, <2>9 DEF TaskTypes
<1>7. Drawn(i)
  <2>1. \A k \in Key : 0 <= k /\ 0 <= MaxTask + k
    BY RedisAssumption DEF Key
  <2>2. 0 \in 0 .. 2 * MaxTask /\ i + 0 = i
    BY RedisAssumption
  <2> QED
    BY <1>1, <1>2, <1>3, <2>1, <2>2, TaskFacts DEF Drawn
<1>8. Calling(i) /\ SetKept(i)
  BY <1>1, <1>5, TaskFacts DEF Calling, SetKept
<1>9. GetsBehind
  <2>1. Len(<<>>) = 0 /\ 1 .. 0 = {}
    OBVIOUS
  <2>2. \A k \in Key : NoTask # Get(k)
    BY TaskFacts
  <2> QED
    BY <1>1, <2>1, <2>2 DEF GetsBehind, InOrder
<1>10. Replied
  BY <1>1, TaskFacts DEF Replied
<1> QED
  BY <1>6, <1>7, <1>8, <1>9, <1>10 DEF InvAt

-----------------------------------------------------------------------------
(* main() *)

LEMMA DrawInv ==
  ASSUME Divides, NEW i \in Nat, InvAt(i), Submitted < 2 * MaxTask,
         Tasks!Draw("main", Program[Submitted + 1]), UNCHANGED <<pc, held, store, selected, reply, asked>>
  PROVE  InvAt(i)'
<1>1. TaskTypes /\ Busy /\ Drawn(i) /\ Calling(i) /\ SetKept(i) /\ GetsBehind /\ Replied
  BY DEF InvAt
<1>2. PICK n \in Nat : n = Submitted /\ n < 2 * MaxTask
  BY <1>1, RedisAssumption DEF Drawn
<1>3. PICK x : x = Program[n + 1]
  OBVIOUS
<1>4. PICK c \in Nat : c = cur_thread_idx /\ c < IdxModulus
  BY <1>1, RedisAssumption DEF TaskTypes
<1>5. PICK p : p = c % ThreadSize
  OBVIOUS
<1>6. /\ call["main"] = Tasks!Idle
      /\ call' = [call EXCEPT !["main"] = [task |-> x, thread |-> p]]
      /\ cur_thread_idx' = (c + 1) % IdxModulus /\ fresh' = fresh \ {x}
      /\ UNCHANGED <<task_queue, task_list, working, pc, held, store, selected, reply, asked>>
  BY <1>2, <1>3, <1>4, <1>5 DEF Tasks!Draw, Tasks!ThreadAt, Tasks!worker
<1>7. /\ n < MaxTask => n \in Key /\ x = Set(n)
      /\ n >= MaxTask => n - MaxTask \in Key /\ x = Get(n - MaxTask)
  <2>1. n + 1 \in 1 .. 2 * MaxTask /\ (n + 1) - 1 = n /\ (n + 1) - MaxTask - 1 = n - MaxTask
        /\ (n + 1 <= MaxTask <=> n < MaxTask)
    BY <1>2, RedisAssumption
  <2>2. x = IF n + 1 <= MaxTask THEN <<"SET", (n + 1) - 1>> ELSE <<"GET", (n + 1) - MaxTask - 1>>
    BY <1>3, <2>1 DEF Program
  <2>3. (n < MaxTask => n \in Key) /\ (n >= MaxTask => n - MaxTask \in Key)
    BY <1>2, RedisAssumption DEF Key
  <2> QED
    BY <2>1, <2>2, <2>3, RedisAssumption DEF Set, Get
<1>8. x \in fresh
  BY <1>1, <1>2, <1>7, RedisAssumption DEF Drawn
<1>9. x \in Task /\ x # NoTask /\ p \in Thread
  BY <1>1, <1>4, <1>5, <1>8, TaskFacts, LaneType DEF TaskTypes
<1>10. Submitted' = n + 1 /\ IsFiniteSet(Task \ fresh')
  <2>1. Task \ fresh' = (Task \ fresh) \cup {x} /\ x \notin Task \ fresh
    BY <1>6, <1>8, <1>9
  <2>2. IsFiniteSet(Task \ fresh) /\ Cardinality(Task \ fresh) = n
    BY <1>1, <1>2 DEF TaskTypes, Submitted
  <2>3. IsFiniteSet((Task \ fresh) \cup {x}) /\ Cardinality((Task \ fresh) \cup {x}) = n + 1
    BY <2>1, <2>2, FS_AddElement
  <2> QED
    BY <2>1, <2>3 DEF Submitted
<1>11. call'["main"].task = x /\ call'["main"].thread = p /\ call["main"].task = NoTask
  BY <1>1, <1>6 DEF TaskTypes, Tasks!Idle
<1>12. TaskTypes'
  <2>1. (c + 1) % IdxModulus \in 0 .. IdxModulus - 1
    <3>1. c + 1 \in Int /\ IdxModulus \in Nat \ {0}
      BY RedisAssumption
    <3> QED
      BY <3>1, DivMod
  <2>2. call' \in [{"main"} -> [task : Task \cup {NoTask}, thread : Thread]]
    BY <1>1, <1>6, <1>9 DEF TaskTypes
  <2> QED
    BY <1>1, <1>6, <1>9, <1>10, <1>11, <2>1, <2>2 DEF TaskTypes
<1>13. p = (i + n) % ThreadSize
  BY <1>1, <1>2, <1>4, <1>5 DEF Drawn
<1>14. (c + 1) % ThreadSize = (i + (n + 1)) % ThreadSize
  <2>1. PICK s \in Int : s = i + n
    OBVIOUS
  <2>2. c % ThreadSize = s % ThreadSize
    BY <1>5, <1>13, <2>1
  <2>3. (c + 1) % ThreadSize = (s + 1) % ThreadSize
    <3>1. c \in Int /\ s \in Int /\ ThreadSize \in Nat \ {0}
      BY RedisAssumption
    <3> QED
      BY <2>2, <3>1, ModNext
  <2>4. s + 1 = i + (n + 1)
    BY <2>1
  <2> QED
    BY <2>3, <2>4
<1>15. cur_thread_idx' % ThreadSize = (c + 1) % ThreadSize
  <2>1. CASE c + 1 < IdxModulus
    BY <1>6, <2>1, RedisAssumption
  <2>2. CASE c + 1 = IdxModulus
    <3>1. cur_thread_idx' = 0
      BY <1>6, <2>2, RedisAssumption
    <3> QED
      BY <2>2, <3>1, RedisAssumption DEF Divides
  <2> QED
    BY <1>4, <2>1, <2>2, RedisAssumption
<1>16. Drawn(i)'
  <2>1. ASSUME NEW k \in Key
        PROVE  /\ Set(k) \in fresh' <=> n + 1 <= k
               /\ Get(k) \in fresh' <=> n + 1 <= MaxTask + k
    <3>1. /\ Set(k) \in fresh <=> n <= k
          /\ Get(k) \in fresh <=> n <= MaxTask + k
          /\ k \in Nat /\ k < MaxTask
      BY <1>1, <1>2, RedisAssumption DEF Drawn, Key
    <3>2. CASE n < MaxTask
      <4>1. /\ Set(k) \in fresh' <=> Set(k) \in fresh /\ k # n
            /\ Get(k) \in fresh' <=> Get(k) \in fresh
        BY <1>6, <1>7, <3>2, TaskFacts
      <4> QED
        BY <3>1, <3>2, <4>1, RedisAssumption
    <3>3. CASE n >= MaxTask
      <4>1. /\ Set(k) \in fresh' <=> Set(k) \in fresh
            /\ Get(k) \in fresh' <=> Get(k) \in fresh /\ k # n - MaxTask
        BY <1>6, <1>7, <3>3, TaskFacts
      <4> QED
        BY <3>1, <3>3, <4>1, RedisAssumption
    <3> QED
      BY <3>2, <3>3, RedisAssumption
  <2>2. n + 1 \in 0 .. 2 * MaxTask
    BY <1>2, RedisAssumption
  <2> QED
    BY <1>10, <1>14, <1>15, <2>1, <2>2 DEF Drawn
<1>17. Calling(i)'
  <2>1. CASE n < MaxTask
    BY <1>7, <1>10, <1>11, <1>13, <2>1, TaskFacts DEF Calling, LaneOf
  <2>2. CASE n >= MaxTask
    <3>1. PICK k \in Key : k = n - MaxTask /\ x = Get(k) /\ n + 1 = MaxTask + k + 1
      BY <1>7, <2>2, RedisAssumption
    <3>2. n = MaxTask + k
      BY <1>2, <3>1, RedisAssumption DEF Key
    <3>5. p = LaneOf(i, MaxTask + k)
      BY <1>13, <3>2 DEF LaneOf
    <3> QED
      BY <1>10, <1>11, <3>1, <3>5, TaskFacts DEF Calling
  <2> QED
    BY <2>1, <2>2, RedisAssumption
<1>18. SetKept(i)'
  <2>1. ASSUME NEW k \in Key, Set(k) \notin fresh', Set(k) # x
        PROVE  reply[Set(k)] # "none" \/ Has(LaneOf(i, k), Set(k))
    <3>1. Set(k) \notin fresh /\ call["main"].task # Set(k)
      BY <1>6, <1>11, <2>1, TaskFacts
    <3> QED
      BY <1>1, <3>1 DEF SetKept
  <2> QED
    BY <1>6, <1>11, <2>1 DEF SetKept, Has
<1>19. GetsBehind' /\ Replied' /\ Busy'
  BY <1>1, <1>6 DEF GetsBehind, Replied, Busy
<1> QED
  BY <1>12, <1>16, <1>17, <1>18, <1>19 DEF InvAt

LEMMA PutInv ==
  ASSUME NEW i \in Nat, InvAt(i), Tasks!Put("main"), UNCHANGED <<pc, held, store, selected, reply, asked>>
  PROVE  InvAt(i)'
<1>1. TaskTypes /\ Busy /\ Drawn(i) /\ Calling(i) /\ SetKept(i) /\ GetsBehind /\ Replied
  BY DEF InvAt
<1>2. PICK x \in Task, t \in Thread : x = call["main"].task /\ t = call["main"].thread
  BY <1>1 DEF TaskTypes, Tasks!Put
<1>3. /\ task_queue' = [task_queue EXCEPT ![t] = Append(@, x)]
      /\ call' = [call EXCEPT !["main"] = Tasks!Idle]
      /\ UNCHANGED <<cur_thread_idx, fresh, task_list, working, pc, held, store, selected, reply, asked>>
  BY <1>2, TaskFacts DEF Tasks!Put
<1>4. /\ task_queue'[t] = Append(task_queue[t], x)
      /\ \A u \in Thread : u # t => task_queue'[u] = task_queue[u]
      /\ task_queue[t] \in Seq(Task)
  BY <1>1, <1>3 DEF TaskTypes
<1>5. call'["main"] = Tasks!Idle /\ call'["main"].task = NoTask
  BY <1>1, <1>3 DEF TaskTypes, Tasks!Idle
<1>6. Submitted' = Submitted
  BY <1>3 DEF Submitted
<1>7. TaskTypes'
  <2>1. Append(task_queue[t], x) \in Seq(Task)
    BY <1>4, AppendProperties
  <2>2. task_queue' \in [Thread -> Seq(Task)]
    BY <1>1, <1>3, <2>1 DEF TaskTypes
  <2>3. Tasks!Idle \in [task : Task \cup {NoTask}, thread : Thread]
    BY RedisAssumption DEF Tasks!Idle, Thread
  <2>4. call' \in [{"main"} -> [task : Task \cup {NoTask}, thread : Thread]]
    BY <1>1, <1>3, <2>3 DEF TaskTypes
  <2> QED
    BY <1>1, <1>3, <1>5, <2>2, <2>4 DEF TaskTypes
<1>8. ASSUME NEW j \in Key, NEW k \in Key, Behind(j, k)
      PROVE  InOrder(reply[Set(j)], working[t], task_list[t], Append(task_queue[t], x), j, k)
  <2>1. InOrder(reply[Set(j)], working[t], task_list[t], task_queue[t], j, k)
    BY <1>1, <1>8 DEF GetsBehind
  <2>2. ASSUME x = Get(k)
        PROVE  reply[Set(j)] # "none" \/ LaneHas(working[t], task_list[t], task_queue[t], Set(j))
    <3>1. Submitted = MaxTask + k + 1 /\ t = LaneOf(i, j)
      BY <1>1, <1>2, <1>8, <2>2, SameLane DEF Calling
    <3>2. Set(j) \notin fresh
      BY <1>1, <3>1, RedisAssumption DEF Drawn, Key
    <3>3. call["main"].task # Set(j)
      BY <1>2, <2>2, TaskFacts
    <3> QED
      BY <1>1, <3>1, <3>2, <3>3 DEF SetKept, Has
  <2>3. PICK q \in Seq(Task) : q = task_queue[t]
    BY <1>4
  <2>4. PICK v : v = reply[Set(j)]
    OBVIOUS
  <2>5. PICK w : w = working[t]
    OBVIOUS
  <2>6. PICK l : l = task_list[t]
    OBVIOUS
  <2> QED
    BY <2>1, <2>2, <2>3, <2>4, <2>5, <2>6, PutOrder
<1>8a. /\ LaneHas(working[t], task_list[t], Append(task_queue[t], x), x)
       /\ \A y : LaneHas(working[t], task_list[t], task_queue[t], y)
                   => LaneHas(working[t], task_list[t], Append(task_queue[t], x), y)
  BY <1>4, PutHas
<1>9. GetsBehind'
  <2>1. ASSUME NEW j \in Key, NEW k \in Key, NEW u \in Thread, Behind(j, k)
        PROVE  InOrder(reply[Set(j)], working[u], task_list[u], task_queue'[u], j, k)
    <3>1. CASE u = t
      BY <1>4, <1>8, <2>1, <3>1
    <3>2. CASE u # t
      BY <1>1, <1>4, <2>1, <3>2 DEF GetsBehind
    <3> QED
      BY <3>1, <3>2
  <2> QED
    BY <1>3, <2>1 DEF GetsBehind, Behind
<1>10. SetKept(i)'
  <2>1. ASSUME NEW k \in Key, Set(k) \notin fresh, reply[Set(k)] = "none"
        PROVE  LET u == LaneOf(i, k)
               IN  LaneHas(working[u], task_list[u], task_queue'[u], Set(k))
    <3>1. LaneOf(i, k) \in Thread
      BY LaneType DEF LaneOf, Key
    <3>2. CASE x = Set(k)
      <4>1. t = LaneOf(i, k)
        BY <1>1, <1>2, <3>2 DEF Calling
      <4> QED
        BY <1>4, <1>8a, <3>2, <4>1
    <3>3. CASE x # Set(k)
      <4>1. Has(LaneOf(i, k), Set(k))
        BY <1>1, <1>2, <2>1, <3>3 DEF SetKept
      <4> QED
        BY <1>4, <1>8a, <3>1, <4>1 DEF Has
    <3> QED
      BY <3>2, <3>3
  <2> QED
    BY <1>3, <2>1 DEF SetKept, Has
<1>11. Drawn(i)' /\ Calling(i)'
  BY <1>1, <1>3, <1>5, <1>6, TaskFacts DEF Drawn, Calling
<1>12. Replied' /\ Busy'
  BY <1>1, <1>3 DEF Replied, Busy
<1> QED
  BY <1>7, <1>9, <1>10, <1>11, <1>12 DEF InvAt

-----------------------------------------------------------------------------
(* The worker threads *)

\* A step that changes the lane of one thread only.
LEMMA LaneInv ==
  ASSUME NEW i \in Nat, InvAt(i), NEW t \in Thread,
         UNCHANGED <<cur_thread_idx, fresh, call, store, reply, asked>>, TaskTypes', Busy',
         \A u \in Thread : u # t => /\ working'[u] = working[u] /\ task_list'[u] = task_list[u]
                                    /\ task_queue'[u] = task_queue[u],
         \A j, k \in Key : Behind(j, k) =>
            InOrder(reply[Set(j)], working'[t], task_list'[t], task_queue'[t], j, k),
         \A j \in Key : Has(t, Set(j)) => reply[Set(j)] # "none" \/ Has(t, Set(j))'
  PROVE  InvAt(i)'
<1>1. Drawn(i) /\ Calling(i) /\ SetKept(i) /\ GetsBehind /\ Replied
  BY DEF InvAt
<1>2. GetsBehind'
  <2>1. ASSUME NEW j \in Key, NEW k \in Key, NEW u \in Thread, Behind(j, k)
        PROVE  InOrder(reply[Set(j)], working'[u], task_list'[u], task_queue'[u], j, k)
    <3>1. CASE u = t
      BY <2>1, <3>1
    <3>2. CASE u # t
      BY <1>1, <2>1, <3>2 DEF GetsBehind
    <3> QED
      BY <3>1, <3>2
  <2> QED
    BY <2>1 DEF GetsBehind, Behind
<1>3. SetKept(i)'
  <2>1. ASSUME NEW k \in Key, Has(LaneOf(i, k), Set(k)), reply[Set(k)] = "none"
        PROVE  Has(LaneOf(i, k), Set(k))'
    <3>1. LaneOf(i, k) \in Thread
      BY LaneType DEF LaneOf, Key
    <3> QED
      BY <2>1, <3>1 DEF Has
  <2> QED
    BY <1>1, <2>1 DEF SetKept
<1>4. Submitted' = Submitted
  BY DEF Submitted
<1>5. Drawn(i)' /\ Calling(i)' /\ Replied'
  BY <1>1, <1>4 DEF Drawn, Calling, Replied, Behind
<1> QED
  BY <1>2, <1>3, <1>5 DEF InvAt

LEMMA TakeInv ==
  ASSUME NEW i \in Nat, InvAt(i), NEW t \in Thread, Tasks!Take(t),
         UNCHANGED <<pc, held, store, selected, reply, asked>>
  PROVE  InvAt(i)'
<1>1. TaskTypes /\ Busy /\ GetsBehind
  BY DEF InvAt
<1>2. /\ task_list[t] = <<>>
      /\ task_list' = [task_list EXCEPT ![t] = task_queue[t]]
      /\ task_queue' = [task_queue EXCEPT ![t] = <<>>]
      /\ UNCHANGED <<cur_thread_idx, fresh, call, working, pc, held, store, selected, reply, asked>>
  BY DEF Tasks!Take, Tasks!client
<1>3. /\ task_list'[t] = task_queue[t] /\ task_queue'[t] = <<>> /\ working'[t] = working[t]
      /\ \A u \in Thread : u # t => /\ working'[u] = working[u] /\ task_list'[u] = task_list[u]
                                    /\ task_queue'[u] = task_queue[u]
  BY <1>1, <1>2 DEF TaskTypes
<1>4. TaskTypes' /\ Busy'
  <2>1. <<>> \in Seq(Task) /\ task_queue[t] \in Seq(Task)
    BY <1>1 DEF TaskTypes
  <2>2. task_list' \in [Thread -> Seq(Task)] /\ task_queue' \in [Thread -> Seq(Task)]
    BY <1>1, <1>2, <2>1 DEF TaskTypes
  <2> QED
    BY <1>1, <1>2, <2>2 DEF TaskTypes, Busy
<1>5. ASSUME NEW j \in Key, NEW k \in Key, Behind(j, k)
      PROVE  InOrder(reply[Set(j)], working'[t], task_list'[t], task_queue'[t], j, k)
  <2>1. InOrder(reply[Set(j)], working[t], <<>>, task_queue[t], j, k)
    BY <1>1, <1>2, <1>5 DEF GetsBehind
  <2>2. InOrder(reply[Set(j)], working[t], task_queue[t], <<>>, j, k)
    BY <2>1, TakeOrder
  <2> QED
    BY <1>3, <2>2
<1>6. ASSUME NEW j \in Key, Has(t, Set(j)) PROVE Has(t, Set(j))'
  BY <1>2, <1>3, <1>6, TakeHas DEF Has
<1> QED
  BY <1>2, <1>3, <1>4, <1>5, <1>6, LaneInv

LEMMA WorkInv ==
  ASSUME NEW i \in Nat, InvAt(i), NEW t \in Thread, Tasks!Work(t),
         UNCHANGED <<pc, held, store, selected, reply, asked>>
  PROVE  InvAt(i)'
<1>1. TaskTypes /\ Busy /\ GetsBehind
  BY DEF InvAt
<1>2. /\ working[t] = NoTask /\ task_list[t] # <<>>
      /\ working' = [working EXCEPT ![t] = Head(task_list[t])]
      /\ task_list' = [task_list EXCEPT ![t] = Tail(@)]
      /\ UNCHANGED <<cur_thread_idx, fresh, call, task_queue, pc, held, store, selected, reply, asked>>
  BY DEF Tasks!Work, Tasks!client
<1>3. /\ task_list'[t] = Tail(task_list[t]) /\ working'[t] = Head(task_list[t])
      /\ \A u \in Thread : u # t => /\ working'[u] = working[u] /\ task_list'[u] = task_list[u]
                                    /\ task_queue'[u] = task_queue[u]
  BY <1>1, <1>2 DEF TaskTypes
<1>4. Head(task_list[t]) \in Task /\ Tail(task_list[t]) \in Seq(Task) /\ task_list[t] \in Seq(Task)
  <2>1. task_list[t] \in Seq(Task)
    BY <1>1 DEF TaskTypes
  <2> QED
    BY <1>2, <2>1, HeadTailProperties
<1>5. TaskTypes'
  <2>1. task_list' \in [Thread -> Seq(Task)]
    BY <1>1, <1>2, <1>4 DEF TaskTypes
  <2>2. working' \in [Thread -> Task \cup {NoTask}]
    BY <1>1, <1>2, <1>4 DEF TaskTypes
  <2> QED
    BY <1>1, <1>2, <2>1, <2>2 DEF TaskTypes
<1>6. Busy'
  BY <1>1, <1>2, <1>3, <1>4, TaskFacts DEF Busy
<1>7. ASSUME NEW j \in Key, NEW k \in Key, Behind(j, k)
      PROVE  InOrder(reply[Set(j)], working'[t], task_list'[t], task_queue'[t], j, k)
  <2>1. InOrder(reply[Set(j)], working[t], task_list[t], task_queue[t], j, k)
    BY <1>1, <1>7 DEF GetsBehind
  <2>2. InOrder(reply[Set(j)], Head(task_list[t]), Tail(task_list[t]), task_queue[t], j, k)
    BY <1>2, <1>4, <2>1, WorkOrder
  <2> QED
    BY <1>2, <1>3, <2>2
<1>8. ASSUME NEW j \in Key, Has(t, Set(j)) PROVE Has(t, Set(j))'
  BY <1>2, <1>3, <1>4, <1>8, WorkHas, TaskFacts DEF Has
<1> QED
  BY <1>2, <1>3, <1>5, <1>6, <1>7, <1>8, LaneInv

LEMMA FinishInv ==
  ASSUME NEW i \in Nat, InvAt(i), NEW t \in Thread, Finish(t)
  PROVE  InvAt(i)'
<1>1. TaskTypes /\ Busy /\ GetsBehind /\ Replied
  BY DEF InvAt
<1>2. /\ working[t] # NoTask /\ reply[working[t]] # "none" /\ pc[t] = "idle"
      /\ working' = [working EXCEPT ![t] = NoTask]
      /\ UNCHANGED <<cur_thread_idx, fresh, call, task_list, task_queue, pc, held>>
      /\ UNCHANGED <<store, selected, reply, asked>>
  BY DEF Finish, Answered, Tasks!AddDone, Tasks!client, conns, redis
<1>3. /\ working'[t] = NoTask
      /\ \A u \in Thread : u # t => /\ working'[u] = working[u] /\ task_list'[u] = task_list[u]
                                    /\ task_queue'[u] = task_queue[u]
  BY <1>1, <1>2 DEF TaskTypes
<1>4. TaskTypes' /\ Busy'
  <2>1. working' \in [Thread -> Task \cup {NoTask}]
    BY <1>1, <1>2 DEF TaskTypes
  <2> QED
    BY <1>1, <1>2, <1>3, <2>1 DEF TaskTypes, Busy
<1>5. ASSUME NEW j \in Key, NEW k \in Key, Behind(j, k)
      PROVE  InOrder(reply[Set(j)], working'[t], task_list'[t], task_queue'[t], j, k)
  <2>1. InOrder(reply[Set(j)], working[t], task_list[t], task_queue[t], j, k)
    BY <1>1, <1>5 DEF GetsBehind
  <2>2. working[t] = Set(j) => reply[Set(j)] # "none"
    BY <1>2
  <2>3. NoTask # Get(k)
    BY TaskFacts
  <2> QED
    BY <1>2, <1>3, <2>1, <2>2, <2>3 DEF InOrder
<1>6. ASSUME NEW j \in Key, Has(t, Set(j)) PROVE reply[Set(j)] # "none" \/ Has(t, Set(j))'
  BY <1>2, <1>3, <1>6 DEF Has, LaneHas
<1> QED
  BY <1>2, <1>3, <1>4, <1>5, <1>6, LaneInv

\* A command: the store may get the new value of its key where it had no reply, and one
\* task may get its reply, which is then that of the database.
LEMMA CommandStep ==
  ASSUME TaskTypes, Busy, NEW t \in Thread, Command(t) \/ CommandThrows(t)
  PROVE  \E k \in Key, d \in Database :
            /\ \/ store' = store
               \/ /\ working[t] = Set(k) /\ reply[Set(k)] = "none"
                  /\ store' = [store EXCEPT ![d][k] = "new"]
            /\ \/ reply' = reply /\ asked' = asked
               \/ /\ working[t] = Set(k) /\ asked' = asked
                  /\ \E v \in {"OK", "error"} : reply' = [reply EXCEPT ![Set(k)] = v]
               \/ /\ working[t] = Get(k) /\ store' = store /\ asked' = asked
                  /\ reply' = [reply EXCEPT ![Get(k)] = "error"]
               \/ /\ working[t] = Get(k) /\ store' = store
                  /\ asked' = [asked EXCEPT ![k] = d]
                  /\ reply' = [reply EXCEPT ![Get(k)] = store[d][k]]
<1>1. pc[t] = "using" /\ reply[working[t]] = "none" /\ working[t] \in Task
  BY TaskFacts DEF TaskTypes, Busy, Command, CommandThrows, Answered
<1>2. PICK d \in Database : d = selected[held[t]]
  BY <1>1 DEF TaskTypes, Busy
<1>3. PICK k \in Key : working[t] = Set(k) \/ working[t] = Get(k)
  BY <1>1, TaskFacts
<1>4. CASE Command(t)
  <2>1. PICK j \in Key : \/ working[t] = Set(j) /\ SetReply(j, d)
                         \/ working[t] = Get(j) /\ GetReply(j, d)
    BY <1>2, <1>4 DEF Command, Set, Get
  <2>2. CASE working[t] = Set(j) /\ SetReply(j, d)
    <3>1. asked' = asked
      BY <2>2 DEF SetReply
    <3>2. \/ /\ store' = [store EXCEPT ![d][j] = "new"]
             /\ reply' = [reply EXCEPT ![Set(j)] = "OK"]
          \/ store' = store /\ reply' = [reply EXCEPT ![Set(j)] = "error"]
      BY <2>2 DEF SetReply, SetKey, Set
    <3> QED
      BY <1>1, <2>2, <3>1, <3>2
  <2>3. CASE working[t] = Get(j) /\ GetReply(j, d)
    <3>1. store' = store
      BY <2>3 DEF GetReply
    <3>2. \/ /\ asked' = [asked EXCEPT ![j] = d]
             /\ reply' = [reply EXCEPT ![Get(j)] = store[d][j]]
          \/ asked' = asked /\ reply' = [reply EXCEPT ![Get(j)] = "error"]
      BY <2>3 DEF GetReply, Get
    <3> QED
      BY <2>3, <3>1, <3>2
  <2> QED
    BY <2>1, <2>2, <2>3
<1>5. CASE CommandThrows(t)
  <2>1. reply' = reply /\ asked' = asked
    BY <1>5 DEF CommandThrows
  <2>2. \/ store' = store
        \/ \E j \in Key : working[t] = Set(j) /\ store' = [store EXCEPT ![d][j] = "new"]
    BY <1>2, <1>5 DEF CommandThrows, SetKey, Set
  <2>3. CASE store' = store
    BY <1>2, <1>3, <2>1, <2>3
  <2>4. CASE \E j \in Key : working[t] = Set(j) /\ store' = [store EXCEPT ![d][j] = "new"]
    BY <1>1, <1>2, <2>1, <2>4
  <2> QED
    BY <2>2, <2>3, <2>4
<1> QED
  BY <1>4, <1>5

LEMMA CommandInv ==
  ASSUME NEW i \in Nat, InvAt(i), NEW t \in Thread,
         (Command(t) \/ CommandThrows(t))
  PROVE  InvAt(i)'
<1>1. TaskTypes /\ Busy /\ Drawn(i) /\ Calling(i) /\ SetKept(i) /\ GetsBehind /\ Replied
  BY DEF InvAt
<1>2. UNCHANGED <<cur_thread_idx, fresh, call, task_list, task_queue, working, pc, held, selected>>
  BY DEF Command, CommandThrows, Tasks!WorkThrows, Tasks!client, Tasks!worker, tasks, conns
<1>3. PICK k \in Key, d \in Database :
         /\ \/ store' = store
            \/ /\ working[t] = Set(k) /\ reply[Set(k)] = "none"
               /\ store' = [store EXCEPT ![d][k] = "new"]
         /\ \/ reply' = reply /\ asked' = asked
            \/ /\ working[t] = Set(k) /\ asked' = asked
               /\ \E v \in {"OK", "error"} : reply' = [reply EXCEPT ![Set(k)] = v]
            \/ /\ working[t] = Get(k) /\ store' = store /\ asked' = asked
               /\ reply' = [reply EXCEPT ![Get(k)] = "error"]
            \/ /\ working[t] = Get(k) /\ store' = store
               /\ asked' = [asked EXCEPT ![k] = d]
               /\ reply' = [reply EXCEPT ![Get(k)] = store[d][k]]
  BY <1>1, CommandStep
<1>4. store[d][k] \in {"nil", "old", "new"}
  BY <1>1 DEF TaskTypes
<1>5. \A x \in Task : reply[x] # "none" => reply'[x] # "none"
  <2>1. reply' = reply \/ \E y \in Task : \E v : v # "none" /\ reply' = [reply EXCEPT ![y] = v]
    BY <1>3, <1>4, TaskFacts
  <2> QED
    BY <1>1, <2>1 DEF TaskTypes
<1>6. TaskTypes'
  <2>1. asked' \in [Key -> Database]
    <3>1. asked' = asked \/ asked' = [asked EXCEPT ![k] = d]
      BY <1>3
    <3> QED
      BY <1>1, <3>1 DEF TaskTypes
  <2>1a. store' \in [Database -> [Key -> {"nil", "old", "new"}]]
    <3>1. store' = store \/ store' = [store EXCEPT ![d] = [store[d] EXCEPT ![k] = "new"]]
      BY <1>3
    <3>2. [store[d] EXCEPT ![k] = "new"] \in [Key -> {"nil", "old", "new"}]
      BY <1>1 DEF TaskTypes
    <3> QED
      BY <1>1, <3>1, <3>2 DEF TaskTypes
  <2>2. reply' \in [Task -> {"none", "OK", "error", "nil", "old", "new"}]
    BY <1>1, <1>3, <1>4 DEF TaskTypes
  <2> QED
    BY <1>1, <1>2, <2>1, <2>1a, <2>2 DEF TaskTypes
<1>7. GetsBehind'
  <2>1. ASSUME NEW j \in Key, NEW l \in Key, NEW u \in Thread, Behind(j, l)
        PROVE  InOrder(reply'[Set(j)], working[u], task_list[u], task_queue[u], j, l)
    <3>1. InOrder(reply[Set(j)], working[u], task_list[u], task_queue[u], j, l)
      BY <1>1, <2>1 DEF GetsBehind
    <3>2. reply[Set(j)] # "none" => reply'[Set(j)] # "none"
      BY <1>5, TaskFacts
    <3> QED
      BY <3>1, <3>2 DEF InOrder
  <2> QED
    BY <1>2, <2>1 DEF GetsBehind, Behind
<1>8. SetKept(i)'
  BY <1>1, <1>2, <1>5, TaskFacts DEF SetKept, Has
<1>9. ASSUME NEW j \in Key, NEW l \in Key, Behind(j, l), reply'[Get(l)] # "none"
      PROVE  reply'[Set(j)] # "none"
  <2>1. CASE reply[Get(l)] # "none"
    BY <1>1, <1>5, <1>9, <2>1, TaskFacts DEF Replied
  <2>2. CASE reply[Get(l)] = "none"
    <3>1. working[t] = Get(l)
      BY <1>1, <1>3, <1>9, <2>2, TaskFacts DEF TaskTypes
    <3>2. InOrder(reply[Set(j)], working[t], task_list[t], task_queue[t], j, l)
      BY <1>1, <1>9 DEF GetsBehind
    <3> QED
      BY <1>5, <3>1, <3>2, TaskFacts DEF InOrder
  <2> QED
    BY <2>1, <2>2
<1>10. \A j \in Key : reply'[Set(j)] \in {"none", "OK", "error"}
  BY <1>1, <1>3, TaskFacts DEF Replied, TaskTypes
<1>11. ASSUME NEW l \in Key, Behind(l, l), reply'[Get(l)] \notin {"none", "error"}
       PROVE  reply'[Get(l)] = store'[asked'[l]][l]
  <2>1. CASE reply'[Get(l)] = reply[Get(l)] /\ asked'[l] = asked[l]
    <3>1. reply[Get(l)] = store[asked[l]][l] /\ reply[Set(l)] # "none"
      BY <1>1, <1>11, <2>1 DEF Replied
    <3>2. \A e \in Database : store'[e][l] = store[e][l]
      <4>1. CASE store' = store
        BY <4>1
      <4>2. CASE reply[Set(k)] = "none" /\ store' = [store EXCEPT ![d][k] = "new"]
        <5>1. k # l
          BY <3>1, <4>2
        <5> QED
          BY <1>1, <4>2, <5>1 DEF TaskTypes
      <4> QED
        BY <1>3, <4>1, <4>2
    <3>3. asked[l] \in Database
      BY <1>1 DEF TaskTypes
    <3> QED
      BY <2>1, <3>1, <3>2, <3>3
  <2>2. CASE k = l /\ store' = store /\ asked'[l] = d /\ reply'[Get(l)] = store[d][l]
    BY <2>2
  <2>3. \/ reply'[Get(l)] = reply[Get(l)] /\ asked'[l] = asked[l]
        \/ k = l /\ store' = store /\ asked'[l] = d /\ reply'[Get(l)] = store[d][l]
    <3>1. CASE reply' = reply /\ asked' = asked
      BY <3>1
    <3>2. CASE asked' = asked /\ \E v \in {"OK", "error"} : reply' = [reply EXCEPT ![Set(k)] = v]
      BY <1>1, <3>2, TaskFacts DEF TaskTypes
    <3>3. CASE asked' = asked /\ reply' = [reply EXCEPT ![Get(k)] = "error"]
      BY <1>1, <1>11, <3>3, TaskFacts DEF TaskTypes
    <3>4. CASE /\ store' = store /\ asked' = [asked EXCEPT ![k] = d]
               /\ reply' = [reply EXCEPT ![Get(k)] = store[d][k]]
      BY <1>1, <3>4, TaskFacts DEF TaskTypes
    <3> QED
      BY <1>3, <3>1, <3>2, <3>3, <3>4
  <2> QED
    BY <2>1, <2>2, <2>3
<1>12. Replied'
  BY <1>9, <1>10, <1>11 DEF Replied, Behind
<1>13. Submitted' = Submitted
  BY <1>2 DEF Submitted
<1>14. Drawn(i)' /\ Calling(i)' /\ Busy'
  BY <1>1, <1>2, <1>13 DEF Drawn, Calling, Busy
<1> QED
  BY <1>6, <1>7, <1>8, <1>12, <1>14 DEF InvAt

\* Every other step: the connections, the clock, startAll() and runInMain().
LEMMA RestInv ==
  ASSUME NEW i \in Nat, InvAt(i), TaskTypes', Busy',
         UNCHANGED <<cur_thread_idx, fresh, call, task_list, task_queue, working, store, reply, asked>>
  PROVE  InvAt(i)'
<1>1. Drawn(i) /\ Calling(i) /\ SetKept(i) /\ GetsBehind /\ Replied
  BY DEF InvAt
<1>2. Submitted' = Submitted
  BY DEF Submitted
<1> QED
  BY <1>1, <1>2 DEF InvAt, Drawn, Calling, SetKept, GetsBehind, Replied, Has, Behind

LEMMA ConnInv ==
  ASSUME NEW i \in Nat, InvAt(i), NEW t \in Thread, GrabConn(t) \/ Leave(t)
  PROVE  InvAt(i)'
<1>1. TaskTypes /\ Busy
  BY DEF InvAt
<1>2. /\ working[t] # NoTask
      /\ \/ /\ pc' = [pc EXCEPT ![t] = "idle"]
            /\ held' = [held EXCEPT ![t] = NoConn]
         \/ \E c \in Addr : /\ pc' = [pc EXCEPT ![t] = "using"]
                            /\ held' = [held EXCEPT ![t] = c]
  BY DEF GrabConn, Leave, Conns!Grab, Conns!GrabTo, Conns!HandOut, Conns!Create,
         Conns!CreateThrows, Conns!Release, Conns!Goto
<1>3. UNCHANGED <<cur_thread_idx, fresh, call, task_list, task_queue, working, store, reply, asked>>
  BY DEF GrabConn, Leave, Tasks!WorkThrows, Tasks!client, Tasks!worker, tasks, redis
<1>4. /\ pc' \in [Thread -> {"idle", "using"}] /\ held' \in [Thread -> Addr \cup {NoConn}]
      /\ \A u \in Thread : u # t => pc'[u] = pc[u] /\ held'[u] = held[u]
      /\ pc'[t] = "using" => held'[t] \in Addr
  <2>1. CASE pc' = [pc EXCEPT ![t] = "idle"] /\ held' = [held EXCEPT ![t] = NoConn]
    BY <1>1, <2>1 DEF TaskTypes
  <2>2. ASSUME NEW c \in Addr, pc' = [pc EXCEPT ![t] = "using"], held' = [held EXCEPT ![t] = c]
        PROVE  /\ pc' \in [Thread -> {"idle", "using"}] /\ held' \in [Thread -> Addr \cup {NoConn}]
               /\ \A u \in Thread : u # t => pc'[u] = pc[u] /\ held'[u] = held[u]
               /\ held'[t] \in Addr
    BY <1>1, <2>2 DEF TaskTypes
  <2> QED
    BY <1>2, <2>1, <2>2
<1>5. selected' \in [Addr -> Database]
  <2>1. CASE GrabConn(t)
    <3>1. PICK d \in Landing :
             selected' = [c \in Addr |-> IF c \notin pool' THEN 0
                                        ELSE IF c \in Conns!Kept THEN selected[c] ELSE d]
      BY <2>1 DEF GrabConn, Select
    <3>2. d \in Database /\ 0 \in Database
      BY RedisAssumption DEF Database
    <3> QED
      BY <1>1, <3>1, <3>2 DEF TaskTypes
  <2>2. CASE Leave(t)
    BY <1>1, <2>2 DEF Leave, redis, TaskTypes
  <2> QED
    BY <2>1, <2>2
<1>6. TaskTypes'
  BY <1>1, <1>3, <1>4, <1>5 DEF TaskTypes
<1>7. Busy'
  BY <1>1, <1>2, <1>3, <1>4 DEF Busy
<1> QED
  BY <1>3, <1>6, <1>7, RestInv

LEMMA QuietInv ==
  ASSUME NEW i \in Nat, InvAt(i),
         UNCHANGED <<cur_thread_idx, fresh, call, task_list, task_queue, working, pc, held>>,
         UNCHANGED <<store, selected, reply, asked>>
  PROVE  InvAt(i)'
<1>1. TaskTypes /\ Busy
  BY DEF InvAt
<1>2. TaskTypes' /\ Busy'
  BY <1>1 DEF TaskTypes, Busy
<1> QED
  BY <1>2, RestInv

LEMMA NextIInv == IInv /\ [Next]_vars => IInv'
<1> SUFFICES ASSUME IInv, [Next]_vars, Divides PROVE \E i \in Nat : InvAt(i)'
  BY DEF IInv, Divides
<1>1. PICK i \in Nat : InvAt(i)
  BY DEF IInv
<1> SUFFICES InvAt(i)'
  OBVIOUS
<1>2. CASE UNCHANGED vars
  BY <1>1, <1>2, QuietInv DEF vars, tasks, conns, redis
<1>3. CASE MainStep
  <2>1. UNCHANGED <<pc, held, store, selected, reply, asked>>
    BY <1>3 DEF MainStep, conns, redis
  <2>2. CASE Submitted < 2 * MaxTask /\ Tasks!Draw("main", Program[Submitted + 1])
    BY <1>1, <2>1, <2>2, DrawInv
  <2>3. CASE Tasks!Put("main")
    BY <1>1, <2>1, <2>3, PutInv
  <2>4. CASE Tasks!StartAll \/ Tasks!StartThread \/ Tasks!TakeDone \/ Tasks!Done
    BY <1>1, <2>1, <2>4, QuietInv DEF Tasks!StartAll, Tasks!StartThread, Tasks!TakeDone, Tasks!Done,
                                      Tasks!client, Tasks!worker
  <2> QED
    BY <1>3, <2>2, <2>3, <2>4 DEF MainStep
<1>4. ASSUME NEW t \in Thread, Worker(t) PROVE InvAt(i)'
  <2>1. CASE Fetch(t)
    <3>1. UNCHANGED <<pc, held, store, selected, reply, asked>>
      BY <2>1 DEF Fetch, conns, redis
    <3>2. Tasks!Take(t) \/ Tasks!Work(t)
      BY <2>1 DEF Fetch
    <3> QED
      BY <1>1, <3>1, <3>2, TakeInv, WorkInv
  <2>2. CASE GrabConn(t) \/ Leave(t)
    BY <1>1, <2>2, ConnInv
  <2>3. CASE Command(t) \/ CommandThrows(t)
    BY <1>1, <2>3, CommandInv
  <2>4. CASE Finish(t)
    BY <1>1, <2>4, FinishInv
  <2> QED
    BY <1>4, <2>1, <2>2, <2>3, <2>4 DEF Worker
<1>5. CASE Tick
  BY <1>1, <1>5, QuietInv DEF Tick, Conns!Tick, tasks, redis
<1> QED
  BY <1>2, <1>3, <1>4, <1>5 DEF Next

\* Where the number of threads divides the width of the index, no GET of ns_async overtakes
\* a SET that was put on its thread, with any number of keys, threads and connections, and
\* whatever the index started from: with the program's own 5 keys and 2 threads too.
THEOREM GetsKeepBehind == Spec => []GetsStayBehind
<1>1. IInv => GetsStayBehind
  BY DEF IInv, Divides, InvAt, Replied, GetsStayBehind, Get, Set
<1> QED
  BY <1>1, InitIInv, NextIInv, PTL DEF Spec

\* A GET that runs on the thread of its SET sees the new value, with any number of keys,
\* threads and connections; it does not only where Redis refused the SET, or where another
\* refusal sent the two to different databases.
THEOREM ReadsItsWrites == Spec => []GetSeesSet
<1>1. IInv => GetSeesSet
  <2> SUFFICES ASSUME IInv, Divides, NEW k \in Key, Behind(k, k),
                      reply[Get(k)] \notin {"none", "error"}
               PROVE  \/ reply[Get(k)] = "new" \/ reply[Set(k)] = "error"
                      \/ reply[Set(k)] = "OK" /\ store[asked[k]][k] # "new"
    BY DEF GetSeesSet, Divides, Get, Set
  <2>1. Replied
    BY DEF IInv, InvAt
  <2> QED
    BY <2>1 DEF Replied
<1> QED
  BY <1>1, InitIInv, NextIInv, PTL DEF Spec

-----------------------------------------------------------------------------
(* The two pools *)

\* The proofs about the pools, for the main thread as the only submitter and the workers as
\* the holders of connections.  MCConnPool's other variables are not those of the pool.
TP == INSTANCE TaskPoolProofs WITH Submitter <- {"main"}, N <- ThreadSize, MaxDraws <- 2 * MaxTask
CP == INSTANCE ConnPoolProofs WITH Holder <- Thread, MaxBreaks <- 0, Object <- {}, Database <- {},
          part <- 0, live <- 0, context <- 0, dbindex <- 0, configured <- 0, state <- 0, on <- 0,
          strayed <- 0, crashed <- 0

LEMMA FiniteTasks == IsFiniteSet(Task) /\ IsFiniteSet(Thread)
<1>1. IsFiniteSet(Key) /\ IsFiniteSet(Thread)
  BY FS_Interval, RedisAssumption DEF Key, Thread
<1>2. IsFiniteSet({"SET", "GET"})
  <2>1. IsFiniteSet({"SET"}) /\ IsFiniteSet({"GET"})
    BY FS_Singleton
  <2>2. IsFiniteSet({"SET"} \cup {"GET"})
    BY <2>1, FS_Union
  <2>3. {"SET", "GET"} = {"SET"} \cup {"GET"}
    OBVIOUS
  <2> QED
    BY <2>2, <2>3, Zenon
<1> QED
  BY <1>1, <1>2, FS_Product DEF Task

\* main() submits nothing but tasks.
LEMMA ProgramTask == ASSUME Submitted < 2 * MaxTask PROVE Program[Submitted + 1] \in Task
<1>1. Submitted \in Nat
  <2>1. IsFiniteSet(Task \ fresh)
    BY FiniteTasks, FS_Difference
  <2> QED
    BY <2>1, FS_CardinalityType DEF Submitted
<1>2. PICK i \in Nat : i = Submitted + 1 /\ i \in 1 .. 2 * MaxTask /\ MaxTask \in Nat
  BY <1>1, RedisAssumption
<1>3. Program[i] = IF i <= MaxTask THEN <<"SET", i - 1>> ELSE <<"GET", i - MaxTask - 1>>
  BY <1>2 DEF Program
<1>4. CASE i <= MaxTask
  <2>1. i - 1 \in Key
    BY <1>2, <1>4 DEF Key
  <2> QED
    BY <1>2, <1>3, <1>4, <2>1 DEF Task
<1>5. CASE ~(i <= MaxTask)
  <2>1. i - MaxTask - 1 \in Key
    BY <1>2, <1>5 DEF Key
  <2> QED
    BY <1>2, <1>3, <1>5, <2>1 DEF Task
<1> QED
  BY <1>4, <1>5

LEMMA StepOfTasks == [Next]_vars => [Tasks!Next]_(Tasks!vars)
<1> SUFFICES ASSUME Next, ~UNCHANGED tasks PROVE Tasks!Next
  <2>1. UNCHANGED tasks <=> UNCHANGED Tasks!vars
    BY DEF tasks, Tasks!vars, Tasks!client, Tasks!worker, Tasks!main
  <2>2. UNCHANGED vars => UNCHANGED tasks
    BY DEF vars
  <2> QED
    BY <2>1, <2>2
<1>1. CASE MainStep
  <2>1. CASE Tasks!StartAll \/ Tasks!StartThread \/ Tasks!TakeDone \/ Tasks!Done
    BY <2>1 DEF Tasks!Next, Tasks!MainLoop
  <2>2. CASE Submitted < 2 * MaxTask /\ Tasks!Draw("main", Program[Submitted + 1])
    <3>1. Program[Submitted + 1] \in Task \cup {NullTask} /\ "main" \in {"main"}
      BY <2>2, ProgramTask
    <3> QED
      BY <2>2, <3>1 DEF Tasks!Next
  <2>3. CASE Tasks!Put("main")
    BY <2>3 DEF Tasks!Next
  <2> QED
    BY <1>1, <2>1, <2>2, <2>3 DEF MainStep
<1>2. ASSUME NEW t \in Thread, Worker(t) PROVE Tasks!Next
  <2>1. t \in Tasks!Thread
    BY DEF Thread, Tasks!Thread
  <2>2. Tasks!Take(t) \/ Tasks!Work(t) \/ Tasks!AddDone(t) \/ Tasks!WorkThrows(t)
    BY <1>2 DEF Worker, Fetch, GrabConn, Command, CommandThrows, Leave, Finish
  <2> QED
    BY <2>1, <2>2 DEF Tasks!Next, Tasks!WorkerStep
<1>3. CASE Tick
  BY <1>3 DEF Tick
<1> QED
  BY <1>1, <1>2, <1>3 DEF Next

LEMMA StepOfConns == [Next]_vars => [Conns!Next]_(Conns!vars)
<1> SUFFICES ASSUME Next, ~UNCHANGED conns PROVE Conns!Next
  <2>1. UNCHANGED conns <=> UNCHANGED Conns!vars
    BY DEF conns, Conns!vars, Conns!entries
  <2>2. UNCHANGED vars => UNCHANGED conns
    BY DEF vars
  <2> QED
    BY <2>1, <2>2
<1>1. CASE MainStep
  BY <1>1 DEF MainStep
<1>2. ASSUME NEW t \in Thread, Worker(t) PROVE Conns!Next
  <2>1. Conns!Grab(t) \/ Conns!Release(t)
    BY <1>2 DEF Worker, Fetch, GrabConn, Command, CommandThrows, Leave, Finish
  <2> QED
    BY <2>1 DEF Conns!Next, Conns!HolderStep
<1>3. CASE Tick
  BY <1>3 DEF Tick, Conns!Next
<1> QED
  BY <1>1, <1>2, <1>3 DEF Next

\* ns_async uses both pools as they may be used: what it does is a behaviour of TaskPool with
\* one submitter, and one of ConnPool whose holders are the worker threads.
THEOREM UsesThePools == Spec => Tasks!Spec /\ Conns!Spec
<1>1. Init => Tasks!Init /\ Conns!Init
  BY DEF Init
<1> QED
  BY <1>1, StepOfTasks, StepOfConns, PTL DEF Spec, Tasks!Spec, Conns!Spec

\* What the instances with the proofs are about is what RedisTasks has.
LEMMA SameTasks ==
  /\ Tasks!Spec => TP!Spec
  /\ TP!EachOnceInOrder <=> Tasks!EachOnceInOrder
  /\ TP!RoundRobin <=> Tasks!RoundRobin
<1>1. TP!TotalDraws = Tasks!TotalDraws
  BY DEF Tasks!TotalDraws, TP!TotalDraws, Tasks!SumFunction, TP!SumFunction,
         Tasks!SumFunctionOnSet, TP!SumFunctionOnSet, Tasks!FoldFunctionOnSet, TP!FoldFunctionOnSet,
         Tasks!MapThenFoldSet, TP!MapThenFoldSet
<1>2. \A S : TP!Cardinality(S) = Tasks!Cardinality(S)
  BY DEF TP!Cardinality, Tasks!Cardinality
<1>3. TP!Thread = Tasks!Thread /\ TP!Idle = Tasks!Idle
  BY DEF TP!Thread, Tasks!Thread, TP!Idle, Tasks!Idle
<1>4. TP!Init <=> Tasks!Init
  BY <1>3 DEF TP!Init, Tasks!Init
<1>5. TP!client = Tasks!client /\ TP!worker = Tasks!worker /\ TP!main = Tasks!main
  BY DEF TP!client, Tasks!client, TP!worker, Tasks!worker, TP!main, Tasks!main
<1>6. TP!vars = Tasks!vars
  BY <1>5 DEF TP!vars, Tasks!vars
<1>20. \A S, k : TP!ToSet(S) = Tasks!ToSet(S)
  BY DEF TP!ToSet, Tasks!ToSet
<1>7. ASSUME NEW s, NEW k, Tasks!Draw(s, k) PROVE TP!Draw(s, k)
  BY <1>1, <1>7 DEF TP!Draw, Tasks!Draw, TP!ThreadAt, Tasks!ThreadAt, TP!Idle, Tasks!Idle,
                    TP!worker, Tasks!worker, TP!main, Tasks!main
<1>8. ASSUME NEW s, Tasks!Put(s) PROVE TP!Put(s)
  BY <1>8 DEF TP!Put, Tasks!Put, TP!Idle, Tasks!Idle, TP!main, Tasks!main
<1>9. ASSUME NEW t, Tasks!WorkerStep(t) PROVE TP!WorkerStep(t)
  BY <1>9 DEF TP!WorkerStep, Tasks!WorkerStep, TP!Take, Tasks!Take, TP!Work, Tasks!Work,
      TP!AddDone, Tasks!AddDone, TP!WorkFails, Tasks!WorkFails, TP!WorkThrows, Tasks!WorkThrows,
      TP!client, Tasks!client, TP!worker, Tasks!worker, TP!main, Tasks!main
<1>10. ASSUME Tasks!MainLoop \/ Tasks!StartAll \/ Tasks!StartThread \/ Tasks!JoinAll
       PROVE  TP!MainLoop \/ TP!StartAll \/ TP!StartThread \/ TP!JoinAll
  BY <1>10, <1>20 DEF TP!MainLoop, Tasks!MainLoop, TP!TakeDone, Tasks!TakeDone, TP!Done, Tasks!Done,
      TP!DoneThrows, Tasks!DoneThrows, TP!StartAll, Tasks!StartAll, TP!StartThread, Tasks!StartThread,
      TP!JoinAll, Tasks!JoinAll, TP!AtRest, Tasks!AtRest,
      TP!client, Tasks!client, TP!worker, Tasks!worker, TP!main, Tasks!main
<1>11. [Tasks!Next]_(Tasks!vars) => [TP!Next]_(TP!vars)
  <2>1. ASSUME NEW s \in {"main"}, NEW k \in Task \cup {NullTask}, Tasks!Draw(s, k) PROVE TP!Next
    BY <1>7, <2>1 DEF TP!Next
  <2>2. ASSUME NEW s \in {"main"}, Tasks!Put(s) PROVE TP!Next
    BY <1>8, <2>2 DEF TP!Next
  <2>3. ASSUME NEW t \in Tasks!Thread, Tasks!WorkerStep(t) PROVE TP!Next
    BY <1>3, <1>9, <2>3 DEF TP!Next
  <2>4. Tasks!MainLoop \/ Tasks!StartAll \/ Tasks!StartThread \/ Tasks!JoinAll => TP!Next
    BY <1>10 DEF TP!Next
  <2>5. Tasks!Next => TP!Next
    BY <2>1, <2>2, <2>3, <2>4 DEF Tasks!Next
  <2>6. UNCHANGED Tasks!vars => UNCHANGED TP!vars
    BY DEF TP!vars, Tasks!vars, TP!client, Tasks!client, TP!worker, Tasks!worker, TP!main, Tasks!main
  <2> QED
    BY <2>5, <2>6, Zenon
<1>12. Tasks!Spec => TP!Spec
  BY <1>4, <1>11, PTL DEF Tasks!Spec, TP!Spec
<1>13. TP!RoundRobin <=> Tasks!RoundRobin
  BY <1>3 DEF TP!RoundRobin, Tasks!RoundRobin
<1>14. \A k : TP!Places(k) = Tasks!Places(k)
  BY <1>3 DEF TP!Places, Tasks!Places, TP!At, Tasks!At
<1>15. TP!EachOnceInOrder <=> Tasks!EachOnceInOrder
  BY <1>2, <1>3, <1>14 DEF TP!EachOnceInOrder, Tasks!EachOnceInOrder, TP!ExactlyOnePlace,
     Tasks!ExactlyOnePlace, TP!CallbacksInOrder, Tasks!CallbacksInOrder
<1> QED
  BY <1>12, <1>13, <1>15

LEMMA SameConns ==
  /\ Conns!Spec => CP!Spec
  /\ CP!Exclusive <=> Conns!Exclusive
  /\ CP!PoolAccounted <=> Conns!PoolAccounted
<1>1. \A S : CP!Cardinality(S) = Conns!Cardinality(S)
  BY DEF CP!Cardinality, Conns!Cardinality
<1>2. CP!Init <=> Conns!Init
  BY DEF CP!Init, Conns!Init
<1>3. CP!vars = Conns!vars /\ CP!entries = Conns!entries
  BY DEF CP!vars, Conns!vars, CP!entries, Conns!entries
<1>4. \A S : CP!Destroy(S) <=> Conns!Destroy(S)
  BY DEF CP!Destroy, Conns!Destroy
<1>5. CP!Expired = Conns!Expired /\ CP!Kept = Conns!Kept /\ CP!Idle = Conns!Idle
  BY DEF CP!Expired, Conns!Expired, CP!Kept, Conns!Kept, CP!Idle, Conns!Idle, CP!TooOld, Conns!TooOld
<1>6. \A h, c, l : CP!Goto(h, c, l) <=> Conns!Goto(h, c, l)
  BY DEF CP!Goto, Conns!Goto
<1>7. \A h, l : CP!GrabTo(h, l) <=> Conns!GrabTo(h, l)
  BY <1>4, <1>5, <1>6 DEF CP!GrabTo, Conns!GrabTo, CP!HandOut, Conns!HandOut, CP!Create, Conns!Create,
     CP!CreateThrows, Conns!CreateThrows, CP!IsMru, Conns!IsMru
<1>8. ASSUME NEW h, Conns!HolderStep(h) PROVE CP!HolderStep(h)
  <2>1. /\ Conns!Grab(h) => CP!Grab(h)
        /\ Conns!SafeGrab(h) => CP!SafeGrab(h)
        /\ Conns!ExchangeGrab(h) => CP!ExchangeGrab(h)
    BY <1>7 DEF CP!Grab, Conns!Grab, CP!SafeGrab, Conns!SafeGrab, CP!ExchangeGrab, Conns!ExchangeGrab
  <2>2. /\ Conns!Check(h) => CP!Check(h)
        /\ Conns!Release(h) => CP!Release(h)
    BY <1>6 DEF CP!Check, Conns!Check, CP!Release, Conns!Release, CP!entries, Conns!entries
  <2>3. /\ Conns!Discard(h) => CP!Discard(h)
        /\ Conns!ExchangeRemove(h) => CP!ExchangeRemove(h)
    BY <1>4, <1>6 DEF CP!Discard, Conns!Discard, CP!ExchangeRemove, Conns!ExchangeRemove
  <2>4. /\ Conns!Break(h) => CP!Break(h)
        /\ Conns!Reconnect(h) => CP!Reconnect(h)
    BY DEF CP!Break, Conns!Break, CP!Reconnect, Conns!Reconnect, CP!entries, Conns!entries
  <2> QED
    BY <1>8, <2>1, <2>2, <2>3, <2>4 DEF CP!HolderStep, Conns!HolderStep
<1>9. [Conns!Next]_(Conns!vars) => [CP!Next]_(CP!vars)
  <2>1. /\ Conns!Shrink => CP!Shrink
        /\ Conns!Clear => CP!Clear
    BY <1>4 DEF CP!Shrink, Conns!Shrink, CP!Clear, Conns!Clear
  <2>2. Conns!Tick => CP!Tick
    BY DEF CP!Tick, Conns!Tick, CP!entries, Conns!entries
  <2>3. Conns!Next => CP!Next
    BY <1>8, <2>1, <2>2 DEF CP!Next, Conns!Next
  <2>4. UNCHANGED Conns!vars => UNCHANGED CP!vars
    BY DEF CP!vars, Conns!vars, CP!entries, Conns!entries
  <2> QED
    BY <2>3, <2>4, Zenon
<1>10. Conns!Spec => CP!Spec
  BY <1>2, <1>9, PTL DEF Conns!Spec, CP!Spec
<1>11. CP!Exclusive <=> Conns!Exclusive
  BY DEF CP!Exclusive, Conns!Exclusive
<1>12. CP!PoolAccounted <=> Conns!PoolAccounted
  BY <1>1 DEF CP!PoolAccounted, Conns!PoolAccounted, CP!InUseIsHeld, Conns!InUseIsHeld,
     CP!Bounded, Conns!Bounded
<1> QED
  BY <1>10, <1>11, <1>12

LEMMA TasksKept == Tasks!Spec => [](Tasks!EachOnceInOrder /\ Tasks!RoundRobin)
<1>1. /\ ThreadSize \in Nat \ {0} /\ IdxModulus \in Nat \ {0} /\ 2 * MaxTask \in Nat
      /\ NullTask \notin Task /\ NoTask \notin Task \cup {NullTask}
  BY RedisAssumption DEF Task, Key
<1>2. TP!Spec => []TP!EachOnceInOrder
  BY <1>1, TP!NothingLostOrReordered
<1>3. TP!Spec => []TP!RoundRobin
  BY <1>1, TP!FairShare
<1> QED
  BY <1>2, <1>3, SameTasks, PTL

LEMMA ConnsKept == Conns!Spec => [](Conns!Exclusive /\ Conns!PoolAccounted)
<1>1. CP!IsFiniteSet(Thread)
  BY FiniteTasks DEF CP!IsFiniteSet, IsFiniteSet
<1>2. NoConn \notin Addr /\ MaxIdle \in Nat \ {0} /\ MaxNow \in Nat /\ 0 \in Nat
  BY RedisAssumption
<1>3. CP!Spec => []CP!Exclusive
  BY <1>1, <1>2, CP!OneHolder
<1>4. CP!Spec => []CP!PoolAccounted
  BY <1>1, <1>2, CP!NoneLost
<1> QED
  BY <1>3, <1>4, SameConns, PTL

\* What the two pools promise holds in ns_async, where they are used together, the clock runs
\* and an exception of a constructor or a command ends the process at any moment: a
\* connection is with one worker at a time and none is lost or opened needlessly; a task is in
\* one place, gets its callback in the order of its thread, and the threads get equal shares.
THEOREM PoolsKeepPromises ==
  Spec => [](/\ Conns!Exclusive /\ Conns!PoolAccounted
             /\ Tasks!EachOnceInOrder /\ Tasks!RoundRobin)
BY UsesThePools, TasksKept, ConnsKept, PTL

-----------------------------------------------------------------------------
(* The other programs of the two main.cpp *)

\* The commands that the server has carried out, if it refused none and the connection lasts.
Carried == IF answer = "none" THEN position - 1 ELSE position

\* How often one of the first n commands of "example" is INCR, and the list they leave.
Incs(n)   == IF n <= 4 THEN 0 ELSE IF n = 5 THEN 1 ELSE 2
Down(m)   == [j \in 1 .. m |-> m - j]
Pushed(n) == Down(IF n <= 7 + Pushes THEN n - 7 ELSE Pushes)
EndsWithCart(l) == SubSeq(l, Len(l) - 2, Len(l)) = Programs!Cart

\* What the database d holds after the first n commands of the program.
Written(d, n) ==
    /\ program \in {"test1", "test2", "test3", "async", "test"} /\ n >= 1 => d.text = "new"
    /\ program \in {"test1", "test2"} /\ n >= 3 => EndsWithCart(d.list)
    /\ program = "client" => (n = 1 => d.number = 42) /\ (n >= 2 => d.number = 30)
    /\ program = "example" =>
          /\ n >= 2 => d.text = "new"
          /\ d.number = 7 + Incs(n)
          /\ n \in 7 .. Pushes + 8 => d.list = Pushed(n)

DatabaseContents == [text : {"nil", "old", "new"}, number : Int, list : Seq(Int)]

Printed == [texts : Seq({"nil", "old", "new", "lost"}), numbers : Seq(Int), lists : Seq(Seq(Int))]

\* What PrintsWhole says of the prints s.
Whole(s) ==
    /\ \A i \in DOMAIN s.texts : s.texts[i] \in {"new", "lost"}
    /\ \A i \in DOMAIN s.numbers : s.numbers[i] = IF program = "client" THEN 30 ELSE 7 + i
    /\ \A i \in DOMAIN s.lists :
          IF program = "example" THEN s.lists[i] = Down(Pushes) ELSE EndsWithCart(s.lists[i])

\* In "example" every number that has been printed is that of an INCR.
Counted(s, n) == program = "example" => Len(s.numbers) = Incs(n)

ProgramTypes ==
    /\ program \in {"base", "example", "test1", "test2", "test3", "async", "client", "test"}
    /\ position \in 1 .. Len(Programs!Commands) + 1
    /\ answer \in {"none", "null", "answer", "error"}
    /\ db \in DatabaseContents
    /\ seen \in Printed
    /\ answer # "none" => program \in Programs!Asking /\ position <= Len(Programs!Commands)
    /\ answer = "null" => context = "bad"
    /\ answer \in {"answer", "error"} => context = "good"
    /\ answer = "error" /\ ~refused => program \in {"test1", "test2"}

Lasts == context \in {"none", "connecting", "good"}

ProgramInv == /\ ProgramTypes
              /\ ~refused => Whole(seen)
              /\ ~refused /\ Lasts => Written(db, Carried) /\ Counted(seen, position - 1)

\* What the concatenation of two lists of commands is.
LEMMA Joined ==
  \A S : \A a, b \in Seq(S) :
     /\ a \o b \in Seq(S) /\ Len(a \o b) = Len(a) + Len(b)
     /\ \A k \in 1 .. Len(a) : (a \o b)[k] = a[k]
     /\ \A k \in 1 .. Len(b) : (a \o b)[Len(a) + k] = b[k]
<1> SUFFICES ASSUME NEW S, NEW a \in Seq(S), NEW b \in Seq(S)
             PROVE  /\ a \o b \in Seq(S) /\ Len(a \o b) = Len(a) + Len(b)
                    /\ \A k \in 1 .. Len(a) : (a \o b)[k] = a[k]
                    /\ \A k \in 1 .. Len(b) : (a \o b)[Len(a) + k] = b[k]
  BY Zenon
<1>1. /\ a \o b \in Seq(S) /\ Len(a \o b) = Len(a) + Len(b)
      /\ \A k \in 1 .. Len(a) + Len(b) :
            (a \o b)[k] = IF k <= Len(a) THEN a[k] ELSE b[k - Len(a)]
  BY ConcatProperties, ZenonT(30)
<1> DEFINE c == a \o b
<1> HIDE DEF c
<1>2. PICK m \in Nat, n \in Nat : m = Len(a) /\ n = Len(b)
  OBVIOUS
<1>3. /\ Len(c) = m + n
      /\ \A k \in 1 .. m + n : c[k] = IF k <= m THEN a[k] ELSE b[k - m]
  BY <1>1, <1>2, Zenon DEF c
<1>4. ASSUME NEW k \in 1 .. n PROVE c[m + k] = b[k]
  <2>1. m + k \in 1 .. m + n /\ ~(m + k <= m) /\ (m + k) - m = k
    OBVIOUS
  <2> QED
    BY <1>3, <2>1
<1>5. \A k \in 1 .. m : c[k] = a[k]
  BY <1>3
<1> QED
  BY <1>1, <1>2, <1>4, <1>5, Zenon DEF c

\* The commands of "example", one by one.
LEMMA ExampleCommands ==
  LET e == Programs!Example
  IN  /\ Len(e) = Pushes + 9
      /\ e[1].op = "PING" /\ e[2].op = "SET" /\ e[3].op = "SET" /\ e[4].op = "GET"
      /\ e[5].op = "INCR" /\ e[6].op = "INCR" /\ e[7].op = "DEL"
      /\ \A k \in 1 .. Pushes : e[7 + k].op = "LPUSH" /\ e[7 + k].arg = <<k - 1>>
      /\ e[Pushes + 8].op = "LRANGE" /\ e[Pushes + 9].op = "RPUSH" /\ e[Pushes + 9].arg = <<0, 1>>
<1> DEFINE one   == <<Programs!Command("PING", <<>>, "print"), Programs!Command("SET", <<>>, "print"),
                      Programs!Command("SET", <<>>, "print"),  Programs!Command("GET", <<>>, "print"),
                      Programs!Command("INCR", <<>>, "print"), Programs!Command("INCR", <<>>, "print"),
                      Programs!Command("DEL", <<>>, "free")>>
           two   == [j \in 1 .. Pushes |-> Programs!Command("LPUSH", <<j - 1>>, "free")]
           three == <<Programs!Command("LRANGE", <<>>, "print"), Programs!ArgvCommand>>
           Any   == {one[k] : k \in 1 .. 7} \cup {two[k] : k \in 1 .. Pushes} \cup {three[k] : k \in 1 .. 2}
           both  == one \o two
           e     == Programs!Example
<1>1. one \in Seq(Any) /\ Len(one) = 7
  <2>1. Len(one) = 7 /\ one = [k \in 1 .. 7 |-> one[k]]
    OBVIOUS
  <2> HIDE DEF one, two, three
  <2>2. \A k \in 1 .. 7 : one[k] \in Any
    OBVIOUS
  <2> HIDE DEF Any
  <2> QED
    BY <2>1, <2>2, IsASeq
<1>2. two \in Seq(Any) /\ Len(two) = Pushes
  <2>1. two = [k \in 1 .. Pushes |-> two[k]]
    OBVIOUS
  <2> HIDE DEF one, two, three
  <2>2. \A k \in 1 .. Pushes : two[k] \in Any
    OBVIOUS
  <2> HIDE DEF Any
  <2> QED
    BY <2>1, <2>2, IsASeq, PushesAssumption
<1>3. three \in Seq(Any) /\ Len(three) = 2
  <2>1. Len(three) = 2 /\ three = [k \in 1 .. 2 |-> three[k]]
    OBVIOUS
  <2> HIDE DEF one, two, three
  <2>2. \A k \in 1 .. 2 : three[k] \in Any
    OBVIOUS
  <2> HIDE DEF Any
  <2> QED
    BY <2>1, <2>2, IsASeq
<1>4. /\ one[1].op = "PING" /\ one[2].op = "SET" /\ one[3].op = "SET" /\ one[4].op = "GET"
      /\ one[5].op = "INCR" /\ one[6].op = "INCR" /\ one[7].op = "DEL"
      /\ \A k \in 1 .. Pushes : two[k].op = "LPUSH" /\ two[k].arg = <<k - 1>>
      /\ three[1].op = "LRANGE" /\ three[2].op = "RPUSH" /\ three[2].arg = <<0, 1>>
  BY DEF Programs!Command, Programs!ArgvCommand
<1>5. e = both \o three
  BY DEF Programs!Example
<1> HIDE DEF one, two, three, e, Any
<1>6. /\ both \in Seq(Any) /\ Len(both) = 7 + Pushes
      /\ \A k \in 1 .. 7 : both[k] = one[k]
      /\ \A k \in 1 .. Pushes : both[7 + k] = two[k]
  <2>1. /\ both \in Seq(Any) /\ Len(both) = Len(one) + Len(two)
        /\ \A k \in 1 .. Len(one) : both[k] = one[k]
        /\ \A k \in 1 .. Len(two) : both[Len(one) + k] = two[k]
    <3>1. one \in Seq(Any) /\ two \in Seq(Any)
      BY <1>1, <1>2
    <3> QED
      BY <3>1, Joined
  <2> HIDE DEF both
  <2> QED
    BY <1>1, <1>2, <2>1, Zenon
<1> HIDE DEF both
<1>7. /\ Len(e) = (7 + Pushes) + 2
      /\ \A k \in 1 .. 7 + Pushes : e[k] = both[k]
      /\ \A k \in 1 .. 2 : e[(7 + Pushes) + k] = three[k]
  <2>1. /\ Len(e) = Len(both) + Len(three)
        /\ \A k \in 1 .. Len(both) : e[k] = both[k]
        /\ \A k \in 1 .. Len(three) : e[Len(both) + k] = three[k]
    <3>1. both \in Seq(Any) /\ three \in Seq(Any) /\ e = both \o three
      BY <1>3, <1>5, <1>6
    <3> QED
      BY <3>1, Joined
  <2> QED
    BY <1>3, <1>6, <2>1, Zenon
<1>8. /\ \A k \in 1 .. 7 : e[k] = one[k]
      /\ \A k \in 1 .. Pushes : e[7 + k] = two[k]
  <2>1. /\ \A k \in 1 .. 7 : k \in 1 .. 7 + Pushes
        /\ \A k \in 1 .. Pushes : 7 + k \in 1 .. 7 + Pushes
    BY PushesAssumption
  <2> QED
    BY <1>6, <1>7, <2>1
<1>9. /\ e[1] = one[1] /\ e[2] = one[2] /\ e[3] = one[3] /\ e[4] = one[4]
      /\ e[5] = one[5] /\ e[6] = one[6] /\ e[7] = one[7]
  BY <1>8
<1>10. Len(e) = Pushes + 9 /\ e[Pushes + 8] = three[1] /\ e[Pushes + 9] = three[2]
  <2>1. (7 + Pushes) + 2 = Pushes + 9 /\ (7 + Pushes) + 1 = Pushes + 8
    BY PushesAssumption
  <2>2. 1 \in 1 .. 2 /\ 2 \in 1 .. 2
    OBVIOUS
  <2> QED
    BY <1>7, <2>1, <2>2
<1> QED
  BY <1>4, <1>8, <1>9, <1>10 DEF e

\* Those of "test1" and "test2".
LEMMA CartList ==
  LET c == Programs!CartCommands
  IN  /\ Len(c) = 5 /\ c[1].op = "SET" /\ c[2].op = "GET" /\ c[3].op = "RPUSH" /\ c[3].arg = Programs!Cart
      /\ c[4].op = "LRANGE" /\ c[5].op = "INVALID"
<1> DEFINE a   == Programs!UserName
           b   == <<Programs!Command("RPUSH", Programs!Cart, "throw"), Programs!Command("LRANGE", <<>>, "throw"),
                    Programs!Command("INVALID", <<>>, "caught")>>
           Any == {a[k] : k \in 1 .. 2} \cup {b[k] : k \in 1 .. 3}
           c   == Programs!CartCommands
<1>1. a \in Seq(Any) /\ Len(a) = 2
  <2>1. Len(a) = 2 /\ a = [k \in 1 .. 2 |-> a[k]]
    BY DEF Programs!UserName
  <2> HIDE DEF a, b
  <2>2. \A k \in 1 .. 2 : a[k] \in Any
    OBVIOUS
  <2> HIDE DEF Any
  <2> QED
    BY <2>1, <2>2, IsASeq
<1>2. b \in Seq(Any) /\ Len(b) = 3
  <2>1. Len(b) = 3 /\ b = [k \in 1 .. 3 |-> b[k]]
    OBVIOUS
  <2> HIDE DEF a, b
  <2>2. \A k \in 1 .. 3 : b[k] \in Any
    OBVIOUS
  <2> HIDE DEF Any
  <2> QED
    BY <2>1, <2>2, IsASeq
<1>3. /\ a[1].op = "SET" /\ a[2].op = "GET" /\ b[1].op = "RPUSH" /\ b[1].arg = Programs!Cart
      /\ b[2].op = "LRANGE" /\ b[3].op = "INVALID"
  BY DEF Programs!UserName, Programs!Command
<1>4. c = a \o b
  BY DEF Programs!CartCommands
<1> HIDE DEF a, b, c, Any
<1>5. /\ Len(c) = 2 + 3
      /\ \A k \in 1 .. 2 : c[k] = a[k]
      /\ \A k \in 1 .. 3 : c[2 + k] = b[k]
  <2>1. /\ Len(c) = Len(a) + Len(b)
        /\ \A k \in 1 .. Len(a) : c[k] = a[k]
        /\ \A k \in 1 .. Len(b) : c[Len(a) + k] = b[k]
    <3>1. a \in Seq(Any) /\ b \in Seq(Any) /\ c = a \o b
      BY <1>1, <1>2, <1>4
    <3> QED
      BY <3>1, Joined
  <2> QED
    BY <1>1, <1>2, <2>1, Zenon
<1>6. c[1] = a[1] /\ c[2] = a[2] /\ c[2 + 1] = b[1] /\ c[2 + 2] = b[2] /\ c[2 + 3] = b[3]
  BY <1>5
<1> QED
  BY <1>3, <1>5, <1>6 DEF c

LEMMA CommandsOf ==
  /\ program = "base" => Programs!Commands = <<>>
  /\ program = "example" => Programs!Commands = Programs!Example
  /\ program \in {"test1", "test2"} => Programs!Commands = Programs!CartCommands
  /\ program = "test3" => Programs!Commands = Programs!UserName
  /\ program = "async" => Programs!Commands = Programs!AsyncCommands
  /\ program = "client" => Programs!Commands = Programs!ClientCommands
  /\ program = "test" => Programs!Commands = Programs!TestCommands
BY DEF Programs!Commands

LEMMA AfterIs ==
  ASSUME db \in DatabaseContents
  PROVE  LET c == Programs!Current
             a == Programs!After
         IN  /\ a.text = IF c.op = "SET" THEN "new" ELSE db.text
             /\ a.number = IF c.op = "INCR" THEN db.number + 1
                           ELSE IF c.op = "SETTO" THEN c.arg
                           ELSE IF c.op = "DECRBY" THEN db.number - c.arg ELSE db.number
             /\ a.list = IF c.op = "DEL" THEN <<>>
                         ELSE IF c.op = "LPUSH" THEN c.arg \o db.list
                         ELSE IF c.op = "RPUSH" THEN db.list \o c.arg ELSE db.list
             /\ a = [text |-> a.text, number |-> a.number, list |-> a.list]
BY DEF Programs!After, DatabaseContents

\* One more element in front.
LEMMA PushFront ==
  ASSUME NEW m \in Nat PROVE <<m>> \o Down(m) = Down(m + 1)
<1> DEFINE a == <<m>>
           b == Down(m)
           c == Down(m + 1)
<1>1. a \in Seq(Nat) /\ Len(a) = 1 /\ a[1] = m
  OBVIOUS
<1>2. b \in Seq(Int) /\ a \in Seq(Int) /\ Len(b) = m /\ \A j \in 1 .. m : b[j] = m - j
  BY DEF Down
<1>3. c \in Seq(Int) /\ Len(c) = m + 1 /\ \A j \in 1 .. m + 1 : c[j] = m + 1 - j
  BY DEF Down
<1> HIDE DEF a, b, c
<1>4. /\ a \o b \in Seq(Int) /\ Len(a \o b) = Len(a) + Len(b)
      /\ \A k \in 1 .. Len(a) + Len(b) : (a \o b)[k] = IF k <= Len(a) THEN a[k] ELSE b[k - Len(a)]
  BY <1>2, ConcatProperties, ZenonT(30)
<1> DEFINE e == a \o b
<1> HIDE DEF e
<1>5. e \in Seq(Int) /\ Len(e) = 1 + m /\ \A k \in 1 .. 1 + m : e[k] = IF k <= 1 THEN a[k] ELSE b[k - 1]
  BY <1>1, <1>2, <1>4, Zenon DEF e
<1>6. \A k \in 1 .. m + 1 : e[k] = c[k]
  <2> SUFFICES ASSUME NEW k \in 1 .. m + 1 PROVE e[k] = c[k]
    OBVIOUS
  <2>1. CASE k = 1
    BY <1>1, <1>3, <1>5, <2>1
  <2>2. CASE k # 1
    <3>1. k - 1 \in 1 .. m
      BY <2>2
    <3> QED
      BY <1>2, <1>3, <1>5, <2>2, <3>1
  <2> QED
    BY <2>1, <2>2
<1>7. Len(e) = Len(c)
  BY <1>3, <1>5
<1>8. e = c
  BY <1>3, <1>5, <1>6, <1>7, SeqEqual
<1> QED
  BY <1>8 DEF a, b, c, e

LEMMA CartBehind ==
  ASSUME NEW l \in Seq(Int) PROVE EndsWithCart(l \o Programs!Cart)
<1> DEFINE a == Programs!Cart
           e == l \o a
<1>1. a \in Seq(Int) /\ Len(a) = 3 /\ a[1] = 1 /\ a[2] = 2 /\ a[3] = 3 /\ a = <<1, 2, 3>>
  BY DEF Programs!Cart
<1> HIDE DEF a
<1>2. /\ e \in Seq(Int) /\ Len(e) = Len(l) + Len(a)
      /\ \A k \in 1 .. Len(l) + Len(a) : e[k] = IF k <= Len(l) THEN l[k] ELSE a[k - Len(l)]
  BY <1>1, ConcatProperties, ZenonT(30)
<1> HIDE DEF e
<1>3. PICK n \in Nat : n = Len(l)
  OBVIOUS
<1>4. Len(e) = n + 3 /\ e[n + 1] = 1 /\ e[n + 2] = 2 /\ e[n + 3] = 3
  <2>1. Len(e) = n + 3 /\ \A k \in 1 .. n + 3 : e[k] = IF k <= n THEN l[k] ELSE a[k - n]
    BY <1>1, <1>2, <1>3, Zenon
  <2> QED
    BY <1>1, <2>1
<1>5. SubSeq(e, n + 1, n + 3) = <<1, 2, 3>>
  <2> DEFINE f == SubSeq(e, n + 1, n + 3)
  <2>1. /\ n + 1 \in Int /\ n + 3 \in Int /\ (n + 3) - (n + 1) + 1 = 3 /\ n + 1 <= n + 3
        /\ \A i \in n + 1 .. n + 3 : e[i] \in Int
    <3>1. \A i \in n + 1 .. n + 3 : i = n + 1 \/ i = n + 2 \/ i = n + 3
      OBVIOUS
    <3>2. \A i \in n + 1 .. n + 3 : e[i] \in Int
      BY <1>4, <3>1
    <3>3. n + 1 \in Int /\ n + 3 \in Int /\ (n + 3) - (n + 1) + 1 = 3 /\ n + 1 <= n + 3
      OBVIOUS
    <3> QED
      BY <3>2, <3>3, Zenon
  <2>2. /\ f \in Seq(Int) /\ Len(f) = 3
        /\ \A i \in 1 .. 3 : f[i] = e[(n + 1) + i - 1]
    BY <2>1, SubSeqProperties
  <2> HIDE DEF f
  <2>3. f[1] = e[n + 1] /\ f[2] = e[n + 2] /\ f[3] = e[n + 3]
    BY <2>2
  <2> QED
    <3> DEFINE g == <<1, 2, 3>>
    <3>1. g \in Seq(Int) /\ Len(g) = 3 /\ g[1] = 1 /\ g[2] = 2 /\ g[3] = 3
      OBVIOUS
    <3> HIDE DEF g
    <3>2. \A i \in 1 .. 3 : f[i] = g[i]
      <4>1. \A i \in 1 .. 3 : i = 1 \/ i = 2 \/ i = 3
        OBVIOUS
      <4> QED
        BY <1>4, <2>3, <3>1, <4>1
    <3>3. f = g
      BY <2>2, <3>1, <3>2, SeqEqual
    <3> QED
      BY <3>3 DEF f, g
<1> QED
  <2>1. Len(e) - 2 = n + 1 /\ Len(e) = n + 3
    BY <1>4
  <2> QED
    BY <1>1, <1>5, <2>1, Zenon DEF EndsWithCart, e, a

\* The command that is next, by program and place.
LEMMA CurrentCommand ==
  ASSUME ProgramTypes, position <= Len(Programs!Commands)
  PROVE  LET c == Programs!Current
             p == position
         IN  /\ program # "base" /\ p \in Nat
             /\ program \in {"test3", "async", "test"} =>
                   p \in 1 .. 2 /\ (p = 1 => c.op = "SET") /\ (p = 2 => c.op = "GET")
             /\ program = "client" =>
                   /\ p \in 1 .. 3
                   /\ p = 1 => c.op = "SETTO" /\ c.arg = 42
                   /\ p = 2 => c.op = "DECRBY" /\ c.arg = 12
                   /\ p = 3 => c.op = "NUMBER"
             /\ program \in {"test1", "test2"} =>
                   /\ p \in 1 .. 5
                   /\ p = 1 => c.op = "SET"
                   /\ p = 2 => c.op = "GET"
                   /\ p = 3 => c.op = "RPUSH" /\ c.arg = Programs!Cart
                   /\ p = 4 => c.op = "LRANGE"
                   /\ p = 5 => c.op = "INVALID"
             /\ program = "example" =>
                   /\ p \in 1 .. 7 \/ p = Pushes + 8 \/ p = Pushes + 9 \/ \E k \in 1 .. Pushes : p = 7 + k
                   /\ p = 1 => c.op = "PING"
                   /\ p \in 2 .. 3 => c.op = "SET"
                   /\ p = 4 => c.op = "GET"
                   /\ p \in 5 .. 6 => c.op = "INCR"
                   /\ p = 7 => c.op = "DEL"
                   /\ \A k \in 1 .. Pushes : p = 7 + k => c.op = "LPUSH" /\ c.arg = <<k - 1>>
                   /\ p = Pushes + 8 => c.op = "LRANGE"
                   /\ p = Pushes + 9 => c.op = "RPUSH" /\ c.arg = <<0, 1>>
<1> DEFINE c == Programs!Current
           p == position
<1>1. p \in Nat /\ p >= 1 /\ p <= Len(Programs!Commands)
  BY DEF ProgramTypes
<1>2. c = Programs!Commands[p]
  BY DEF Programs!Current
<1> HIDE DEF c
<1>5. program # "base"
  <2>1. ASSUME program = "base" PROVE Len(Programs!Commands) = 0
    BY <2>1, CommandsOf
  <2> QED
    BY <1>1, <2>1
<1>6. ASSUME program \in {"test3", "async", "test"}
      PROVE  p \in 1 .. 2 /\ (p = 1 => c.op = "SET") /\ (p = 2 => c.op = "GET")
  <2> DEFINE m == Programs!Commands
  <2>1. m = Programs!UserName \/ m = Programs!AsyncCommands \/ m = Programs!TestCommands
    BY <1>6, CommandsOf
  <2> HIDE DEF m
  <2>2. Len(m) = 2 /\ m[1].op = "SET" /\ m[2].op = "GET"
    BY <2>1 DEF Programs!UserName, Programs!AsyncCommands, Programs!TestCommands, Programs!Command
  <2>3. Len(m) = 2 /\ c = m[p] /\ p <= Len(m)
    BY <1>1, <1>2, <2>2 DEF m
  <2>4. p = 1 \/ p = 2
    BY <1>1, <2>3
  <2> QED
    BY <2>2, <2>3, <2>4
<1>7. ASSUME program = "client"
      PROVE  /\ p \in 1 .. 3
             /\ p = 1 => c.op = "SETTO" /\ c.arg = 42
             /\ p = 2 => c.op = "DECRBY" /\ c.arg = 12
             /\ p = 3 => c.op = "NUMBER"
  <2> DEFINE l == Programs!ClientCommands
  <2>1. /\ Len(l) = 3 /\ l[1].op = "SETTO" /\ l[1].arg = 42 /\ l[2].op = "DECRBY" /\ l[2].arg = 12
        /\ l[3].op = "NUMBER"
    BY DEF Programs!ClientCommands, Programs!Command
  <2>2. Programs!Commands = l
    BY <1>7, CommandsOf, Zenon
  <2> HIDE DEF l
  <2>3. Len(Programs!Commands) = 3
    BY <2>1, <2>2, Zenon
  <2>4. p \in 1 .. 3
    BY <1>1, <2>3
  <2> QED
    BY <1>2, <2>1, <2>2, <2>4
<1>8. ASSUME program \in {"test1", "test2"}
      PROVE  /\ p \in 1 .. 5
             /\ p = 1 => c.op = "SET"
             /\ p = 2 => c.op = "GET"
             /\ p = 3 => c.op = "RPUSH" /\ c.arg = Programs!Cart
             /\ p = 4 => c.op = "LRANGE"
             /\ p = 5 => c.op = "INVALID"
  BY <1>1, <1>2, <1>8, CommandsOf, CartList
<1>9. ASSUME program = "example"
      PROVE  /\ p \in 1 .. 7 \/ p = Pushes + 8 \/ p = Pushes + 9 \/ \E k \in 1 .. Pushes : p = 7 + k
             /\ p = 1 => c.op = "PING"
             /\ p \in 2 .. 3 => c.op = "SET"
             /\ p = 4 => c.op = "GET"
             /\ p \in 5 .. 6 => c.op = "INCR"
             /\ p = 7 => c.op = "DEL"
             /\ \A k \in 1 .. Pushes : p = 7 + k => c.op = "LPUSH" /\ c.arg = <<k - 1>>
             /\ p = Pushes + 8 => c.op = "LRANGE"
             /\ p = Pushes + 9 => c.op = "RPUSH" /\ c.arg = <<0, 1>>
  <2> DEFINE e == Programs!Example
  <2>1. /\ Len(e) = Pushes + 9
        /\ e[1].op = "PING" /\ e[2].op = "SET" /\ e[3].op = "SET" /\ e[4].op = "GET"
        /\ e[5].op = "INCR" /\ e[6].op = "INCR" /\ e[7].op = "DEL"
        /\ \A k \in 1 .. Pushes : e[7 + k].op = "LPUSH" /\ e[7 + k].arg = <<k - 1>>
        /\ e[Pushes + 8].op = "LRANGE" /\ e[Pushes + 9].op = "RPUSH" /\ e[Pushes + 9].arg = <<0, 1>>
    BY ExampleCommands, Zenon
  <2>2. Programs!Commands = e
    BY <1>9, CommandsOf, Zenon
  <2> HIDE DEF e
  <2>3. c = e[p] /\ p \in 1 .. Pushes + 9
    BY <1>1, <1>2, <2>1, <2>2
  <2>4. p \in 1 .. 7 \/ p = Pushes + 8 \/ p = Pushes + 9 \/ \E k \in 1 .. Pushes : p = 7 + k
    <3>1. p \in 8 .. Pushes + 7 => p - 7 \in 1 .. Pushes /\ p = 7 + (p - 7)
      BY PushesAssumption
    <3> QED
      BY <2>3, <3>1, PushesAssumption
  <2>5. /\ p \in 2 .. 3 => p = 2 \/ p = 3
        /\ p \in 5 .. 6 => p = 5 \/ p = 6
    BY <1>1
  <2> QED
    BY <2>1, <2>3, <2>4, <2>5, SMTT(30)
<1> QED
  BY <1>1, <1>5, <1>6, <1>7, <1>8, <1>9 DEF c

\* What the next command leaves, if it is carried out.
LEMMA NextWritten ==
  ASSUME ProgramTypes, position <= Len(Programs!Commands), Written(db, position - 1)
  PROVE  Programs!After \in DatabaseContents /\ Written(Programs!After, position)
<1> DEFINE c == Programs!Current
           a == Programs!After
           p == position
<1>1. db \in DatabaseContents /\ p \in Int /\ p >= 1 /\ p <= Len(Programs!Commands)
      /\ db.text \in {"nil", "old", "new"} /\ db.number \in Int /\ db.list \in Seq(Int)
  BY DEF ProgramTypes, DatabaseContents
<1>2. c = Programs!Commands[p]
  BY DEF Programs!Current
<1>3. /\ a.text = IF c.op = "SET" THEN "new" ELSE db.text
      /\ a.number = IF c.op = "INCR" THEN db.number + 1
                    ELSE IF c.op = "SETTO" THEN c.arg
                    ELSE IF c.op = "DECRBY" THEN db.number - c.arg ELSE db.number
      /\ a.list = IF c.op = "DEL" THEN <<>>
                  ELSE IF c.op = "LPUSH" THEN c.arg \o db.list
                  ELSE IF c.op = "RPUSH" THEN db.list \o c.arg ELSE db.list
      /\ a = [text |-> a.text, number |-> a.number, list |-> a.list]
  BY <1>1, AfterIs
<1>4. ASSUME a.number \in Int, a.list \in Seq(Int) PROVE a \in DatabaseContents
  <2>1. a.text \in {"nil", "old", "new"}
    BY <1>1, <1>3
  <2> QED
    BY <1>3, <1>4, <2>1 DEF DatabaseContents
<1> HIDE DEF a, c
<1>5. /\ program # "base"
      /\ program \in {"test3", "async", "test"} =>
            p \in 1 .. 2 /\ (p = 1 => c.op = "SET") /\ (p = 2 => c.op = "GET")
      /\ program = "client" =>
            /\ p \in 1 .. 3
            /\ p = 1 => c.op = "SETTO" /\ c.arg = 42
            /\ p = 2 => c.op = "DECRBY" /\ c.arg = 12
            /\ p = 3 => c.op = "NUMBER"
  BY CurrentCommand DEF c
<1>6. CASE program \in {"test3", "async", "test"}
  <2>1. p \in 1 .. 2 /\ (p = 1 => c.op = "SET") /\ (p = 2 => c.op = "GET")
    BY <1>5, <1>6
  <2>2. a.number = db.number /\ a.list = db.list /\ a.text = IF p = 1 THEN "new" ELSE db.text
    BY <1>3, <2>1
  <2>3. a.text = "new"
    BY <1>6, <2>1, <2>2 DEF Written
  <2> QED
    BY <1>1, <1>4, <1>6, <2>2, <2>3 DEF Written, a
<1>7. CASE program = "client"
  <2>1. /\ p \in 1 .. 3
        /\ p = 1 => c.op = "SETTO" /\ c.arg = 42
        /\ p = 2 => c.op = "DECRBY" /\ c.arg = 12
        /\ p = 3 => c.op = "NUMBER"
    BY <1>5, <1>7
  <2>2. a.list = db.list /\ a.number = IF p = 1 THEN 42 ELSE 30
    BY <1>1, <1>3, <1>7, <2>1 DEF Written
  <2> QED
    BY <1>1, <1>4, <1>7, <2>1, <2>2 DEF Written, a
<1>8. CASE program \in {"test1", "test2"}
  <2>1. /\ p \in 1 .. 5
        /\ p = 1 => c.op = "SET"
        /\ p = 2 => c.op = "GET"
        /\ p = 3 => c.op = "RPUSH" /\ c.arg = Programs!Cart
        /\ p = 4 => c.op = "LRANGE"
        /\ p = 5 => c.op = "INVALID"
    BY <1>8, CurrentCommand DEF c
  <2>2. a.number = db.number /\ a.text = (IF p = 1 THEN "new" ELSE db.text)
        /\ a.list = IF p = 3 THEN db.list \o Programs!Cart ELSE db.list
    BY <1>3, <2>1
  <2>3. a.text = "new"
    BY <1>8, <2>1, <2>2 DEF Written
  <2>4. a.list \in Seq(Int) /\ (p >= 3 => EndsWithCart(a.list))
    <3>1. CASE p = 3
      <4>1. db.list \o Programs!Cart \in Seq(Int)
        BY <1>1 DEF Programs!Cart
      <4> QED
        BY <1>1, <2>2, <3>1, <4>1, CartBehind
    <3>2. CASE p # 3
      <4>1. a.list = db.list /\ (p >= 3 => p - 1 >= 3)
        BY <2>1, <2>2, <3>2
      <4> QED
        BY <1>1, <1>8, <4>1 DEF Written
    <3> QED
      BY <3>1, <3>2
  <2> QED
    BY <1>1, <1>4, <1>8, <2>2, <2>3, <2>4 DEF Written, a
<1>9. CASE program = "example"
  <2>1. /\ p \in 1 .. 7 \/ p = Pushes + 8 \/ p = Pushes + 9 \/ \E k \in 1 .. Pushes : p = 7 + k
        /\ p = 1 => c.op = "PING"
        /\ p \in 2 .. 3 => c.op = "SET"
        /\ p = 4 => c.op = "GET"
        /\ p \in 5 .. 6 => c.op = "INCR"
        /\ p = 7 => c.op = "DEL"
        /\ \A k \in 1 .. Pushes : p = 7 + k => c.op = "LPUSH" /\ c.arg = <<k - 1>>
        /\ p = Pushes + 8 => c.op = "LRANGE"
        /\ p = Pushes + 9 => c.op = "RPUSH" /\ c.arg = <<0, 1>>
    BY <1>9, CurrentCommand DEF c
  <2>2. Pushes \in Nat
    BY PushesAssumption
  <2>4. a.text = (IF p \in 2 .. 3 THEN "new" ELSE db.text)
        /\ a.number = IF p \in 5 .. 6 THEN db.number + 1 ELSE db.number
    <3>1. (c.op = "SET" <=> p \in 2 .. 3) /\ (c.op = "INCR" <=> p \in 5 .. 6)
          /\ c.op # "SETTO" /\ c.op # "DECRBY"
      <4>1. CASE p \in 1 .. 7
        <5>1. p \in {1, 2, 3, 4, 5, 6, 7}
          BY <4>1
        <5> QED
          BY <2>1, <5>1
      <4>2. CASE p = Pushes + 8 \/ p = Pushes + 9
        BY <2>1, <2>2, <4>2
      <4>3. CASE \E k \in 1 .. Pushes : p = 7 + k
        BY <2>1, <2>2, <4>3
      <4> QED
        BY <2>1, <4>1, <4>2, <4>3
    <3> QED
      BY <1>3, <3>1
  <2>5. p >= 2 => a.text = "new"
    BY <1>1, <1>9, <2>4 DEF Written
  <2>6. a.number = 7 + Incs(p) /\ a.number \in Int
    <3>1. db.number = 7 + Incs(p - 1)
      BY <1>9 DEF Written
    <3> QED
      BY <1>1, <2>4, <3>1 DEF Incs
  <2>7. a.list \in Seq(Int) /\ (p \in 7 .. Pushes + 8 => a.list = Pushed(p))
    <3>1. CASE p = 7
      <4>1. a.list = <<>>
        BY <1>3, <2>1, <3>1
      <4>2. Pushed(7) = <<>>
        BY <2>2 DEF Pushed, Down
      <4> QED
        BY <3>1, <4>1, <4>2
    <3>2. CASE \E k \in 1 .. Pushes : p = 7 + k
      <4>1. PICK k \in 1 .. Pushes : p = 7 + k
        BY <3>2
      <4>2. PICK m \in Nat : m = k - 1 /\ m + 1 = k
        OBVIOUS
      <4>3. a.list = <<m>> \o db.list
        BY <1>3, <2>1, <4>1, <4>2
      <4>4. db.list = Pushed(p - 1)
        BY <1>9, <2>2, <4>1 DEF Written
      <4>5. Pushed(p - 1) = Down(m) /\ Pushed(p) = Down(m + 1)
        <5>1. p - 1 <= 7 + Pushes /\ (p - 1) - 7 = m /\ p <= 7 + Pushes /\ p - 7 = m + 1
          BY <2>2, <4>1, <4>2
        <5> QED
          BY <5>1 DEF Pushed
      <4>6. a.list = Pushed(p)
        BY <4>3, <4>4, <4>5, PushFront
      <4>7. <<m>> \o db.list \in Seq(Int)
        BY <1>1
      <4> QED
        BY <4>3, <4>6, <4>7
    <3>3. CASE p = Pushes + 8
      <4>1. a.list = db.list
        BY <1>3, <2>1, <3>3
      <4>2. db.list = Pushed(p - 1)
        BY <1>9, <2>2, <3>3 DEF Written
      <4>3. Pushed(p - 1) = Pushed(p)
        <5>1. p - 1 <= 7 + Pushes /\ (p - 1) - 7 = Pushes /\ ~(p <= 7 + Pushes)
          BY <2>2, <3>3
        <5> QED
          BY <5>1 DEF Pushed
      <4> QED
        BY <1>1, <4>1, <4>2, <4>3
    <3>4. CASE p < 7
      <4>1. a.list = db.list /\ ~(p \in 7 .. Pushes + 8)
        <5>1. p \in {1, 2, 3, 4, 5, 6}
          BY <1>1, <3>4
        <5> QED
          BY <1>3, <2>1, <5>1
      <4> QED
        BY <1>1, <4>1
    <3>5. CASE p = Pushes + 9
      <4>1. c.op = "RPUSH" /\ c.arg = <<0, 1>>
        BY <2>1, <3>5
      <4>2. a.list = db.list \o <<0, 1>>
        BY <1>3, <4>1
      <4>4. ~(p \in 7 .. Pushes + 8)
        BY <2>2, <3>5
      <4>3. db.list \o <<0, 1>> \in Seq(Int)
        BY <1>1
      <4> QED
        BY <4>2, <4>3, <4>4
    <3> QED
      BY <1>1, <2>1, <3>1, <3>2, <3>3, <3>4, <3>5
  <2>8. a \in DatabaseContents
    BY <1>4, <2>6, <2>7
  <2> QED
    BY <1>9, <2>5, <2>6, <2>7, <2>8 DEF Written, a
<1> QED
  BY <1>5, <1>6, <1>7, <1>8, <1>9 DEF ProgramTypes

LEMMA WholeIs == PrintsWhole <=> (refused \/ Whole(seen))
BY DEF PrintsWhole, Programs!PrintsWhatItWrote, Whole, Down, EndsWithCart

\* One more entry at the end.
LEMMA OneMore ==
  ASSUME NEW S, NEW l \in Seq(S), NEW x \in S
  PROVE  /\ Append(l, x) \in Seq(S) /\ Len(Append(l, x)) = Len(l) + 1
         /\ \A i \in DOMAIN Append(l, x) :
               (i \in DOMAIN l /\ Append(l, x)[i] = l[i]) \/ (i = Len(l) + 1 /\ Append(l, x)[i] = x)
<1> DEFINE m == Append(l, x)
<1>1. /\ m \in Seq(S) /\ Len(m) = Len(l) + 1 /\ m[Len(l) + 1] = x
      /\ \A i \in 1 .. Len(l) : m[i] = l[i]
  BY AppendProperties
<1> HIDE DEF m
<1>2. DOMAIN m = 1 .. Len(l) + 1 /\ DOMAIN l = 1 .. Len(l) /\ Len(l) \in Nat
  BY <1>1
<1>3. \A i \in DOMAIN m : i \in 1 .. Len(l) \/ i = Len(l) + 1
  BY <1>2
<1>4. ASSUME NEW i \in DOMAIN m PROVE (i \in DOMAIN l /\ m[i] = l[i]) \/ (i = Len(l) + 1 /\ m[i] = x)
  <2>1. CASE i \in 1 .. Len(l)
    BY <1>1, <1>2, <2>1, Zenon
  <2>2. CASE i = Len(l) + 1
    BY <1>1, <2>2, Zenon
  <2> QED
    BY <1>3, <2>1, <2>2
<1> QED
  BY <1>1, <1>4, Zenon DEF m

\* What a reply that is printed adds.
LEMMA PrintFacts ==
  ASSUME ProgramTypes, position <= Len(Programs!Commands), db' \in DatabaseContents, Programs!Prints
  PROVE  /\ seen' \in Printed
         /\ Whole(seen) /\ Written(db', position) /\ Counted(seen, position - 1) =>
               Whole(seen') /\ Counted(seen', position)
<1> DEFINE op == Programs!Current.op
           p  == position
           Ready == Whole(seen) /\ Written(db', p) /\ Counted(seen, p - 1)
<1>1. /\ seen \in Printed /\ seen.texts \in Seq({"nil", "old", "new", "lost"})
      /\ seen.numbers \in Seq(Int) /\ seen.lists \in Seq(Seq(Int)) /\ p \in Nat /\ p >= 1
      /\ seen = [texts |-> seen.texts, numbers |-> seen.numbers, lists |-> seen.lists]
  BY DEF ProgramTypes, Printed
<1>2. db'.text \in {"nil", "old", "new", "lost"} /\ db'.number \in Int /\ db'.list \in Seq(Int)
  BY DEF DatabaseContents
<1>3. /\ op = "GET" => seen' = [seen EXCEPT !.texts = Append(@, db'.text)]
      /\ op \in {"INCR", "DECRBY", "NUMBER"} => seen' = [seen EXCEPT !.numbers = Append(@, db'.number)]
      /\ op = "LRANGE" => seen' = [seen EXCEPT !.lists = Append(@, db'.list)]
      /\ op \notin {"GET", "INCR", "DECRBY", "NUMBER", "LRANGE"} => seen' = seen
  BY DEF Programs!Prints
<1>4. /\ op = "GET" => program # "client" /\ (program = "example" => p = 4)
      /\ op \in {"INCR", "DECRBY", "NUMBER"} =>
            (program = "client" /\ p \in 2 .. 3) \/ (program = "example" /\ p \in 5 .. 6)
      /\ op = "LRANGE" =>
            (program \in {"test1", "test2"} /\ p = 4) \/ (program = "example" /\ p = Pushes + 8)
      /\ program = "example" /\ p \in 5 .. 6 => op = "INCR"
  <2>1. CASE program \in {"test3", "async", "test"}
    BY <2>1, CurrentCommand
  <2>2. CASE program = "client"
    <3>1. p \in 1 .. 3 /\ (p = 1 => op = "SETTO") /\ (p = 2 => op = "DECRBY") /\ (p = 3 => op = "NUMBER")
      BY <2>2, CurrentCommand
    <3>2. p = 1 \/ p = 2 \/ p = 3
      BY <3>1
    <3> HIDE DEF op
    <3>3. CASE p = 1
      BY <2>2, <3>1, <3>3
    <3>4. CASE p = 2 \/ p = 3
      <4>1. p \in 2 .. 3 /\ op \in {"DECRBY", "NUMBER"}
        BY <3>1, <3>4
      <4> QED
        BY <2>2, <4>1
    <3> QED
      BY <3>2, <3>3, <3>4
  <2>3. CASE program \in {"test1", "test2"}
    <3>1. /\ p \in 1 .. 5 /\ (p = 1 => op = "SET") /\ (p = 2 => op = "GET") /\ (p = 3 => op = "RPUSH")
          /\ p = 4 => op = "LRANGE"
          /\ p = 5 => op = "INVALID"
      BY <2>3, CurrentCommand
    <3>2. p = 1 \/ p = 2 \/ p = 3 \/ p = 4 \/ p = 5
      BY <3>1
    <3> HIDE DEF op
    <3>3. CASE p # 4
      BY <2>3, <3>1, <3>2, <3>3
    <3>4. CASE p = 4
      <4>1. op = "LRANGE"
        BY <3>1, <3>4
      <4> QED
        BY <2>3, <3>4, <4>1
    <3> QED
      BY <3>3, <3>4
  <2>4. CASE program = "example"
    <3>1. /\ p \in 1 .. 7 \/ p = Pushes + 8 \/ p = Pushes + 9 \/ \E k \in 1 .. Pushes : p = 7 + k
          /\ p = 1 => op = "PING"
          /\ p \in 2 .. 3 => op = "SET"
          /\ p = 4 => op = "GET"
          /\ p \in 5 .. 6 => op = "INCR"
          /\ p = 7 => op = "DEL"
          /\ \A k \in 1 .. Pushes : p = 7 + k => op = "LPUSH"
          /\ p = Pushes + 8 => op = "LRANGE"
          /\ p = Pushes + 9 => op = "RPUSH"
      BY <2>4, CurrentCommand
    <3> HIDE DEF op
    <3>2. CASE p \in 1 .. 7
      <4>1. p \in {1, 2, 3, 4, 5, 6, 7}
        BY <3>2
      <4> QED
        BY <2>4, <3>1, <4>1
    <3>3. CASE p = Pushes + 8 \/ p = Pushes + 9
      <4>1. Pushes \in Nat /\ p \notin 5 .. 6 /\ op \in {"LRANGE", "RPUSH"}
        BY <3>1, <3>3, PushesAssumption
      <4>2. op = "LRANGE" => p = Pushes + 8
        BY <3>1, <3>3
      <4> QED
        BY <2>4, <4>1, <4>2
    <3>4. CASE \E k \in 1 .. Pushes : p = 7 + k
      BY <2>4, <3>1, <3>4
    <3> QED
      BY <3>1, <3>2, <3>3, <3>4
  <2> QED
    BY <2>1, <2>2, <2>3, <2>4, CurrentCommand DEF ProgramTypes
<1> HIDE DEF op
<1>5. CASE op = "GET"
  <2> DEFINE l == Append(seen.texts, db'.text)
  <2>1. seen' = [texts |-> l, numbers |-> seen.numbers, lists |-> seen.lists]
    BY <1>1, <1>3, <1>5
  <2>2. /\ l \in Seq({"nil", "old", "new", "lost"})
        /\ \A i \in DOMAIN l : (i \in DOMAIN seen.texts /\ l[i] = seen.texts[i]) \/ l[i] = db'.text
    BY <1>1, <1>2, OneMore
  <2> HIDE DEF l
  <2>3. seen' \in Printed
    BY <1>1, <2>1, <2>2 DEF Printed
  <2>4. ASSUME Ready PROVE Whole(seen') /\ Counted(seen', p)
    <3>1. db'.text = "new"
      BY <1>1, <1>4, <1>5, <2>4, CurrentCommand DEF Written, ProgramTypes
    <3>2. Whole(seen')
      BY <2>1, <2>2, <2>4, <3>1 DEF Whole
    <3>3. Counted(seen', p)
      BY <1>4, <1>5, <2>1, <2>4 DEF Counted, Incs
    <3> QED
      BY <3>2, <3>3
  <2> QED
    BY <2>3, <2>4
<1>6. CASE op \in {"INCR", "DECRBY", "NUMBER"}
  <2> DEFINE l == Append(seen.numbers, db'.number)
  <2>1. seen' = [texts |-> seen.texts, numbers |-> l, lists |-> seen.lists]
    BY <1>1, <1>3, <1>6
  <2>2. /\ l \in Seq(Int) /\ Len(l) = Len(seen.numbers) + 1
        /\ \A i \in DOMAIN l : \/ i \in DOMAIN seen.numbers /\ l[i] = seen.numbers[i]
                               \/ i = Len(seen.numbers) + 1 /\ l[i] = db'.number
    BY <1>1, <1>2, OneMore
  <2> HIDE DEF l
  <2>3. seen' \in Printed
    BY <1>1, <2>1, <2>2 DEF Printed
  <2>4. ASSUME Ready PROVE Whole(seen') /\ Counted(seen', p)
    <3>1. CASE program = "client" /\ p \in 2 .. 3
      <4>1. db'.number = 30
        BY <2>4, <3>1 DEF Written
      <4> QED
        BY <2>1, <2>2, <2>4, <3>1, <4>1 DEF Whole, Counted
    <3>2. CASE program = "example" /\ p \in 5 .. 6
      <4>1. db'.number = 7 + Incs(p) /\ Len(seen.numbers) = Incs(p - 1)
        BY <2>4, <3>2 DEF Written, Counted
      <4>2. Incs(p) = Incs(p - 1) + 1
        BY <3>2 DEF Incs
      <4>3. Whole(seen')
        BY <2>1, <2>2, <2>4, <3>2, <4>1, <4>2 DEF Whole
      <4>4. Counted(seen', p)
        BY <2>1, <2>2, <4>1, <4>2 DEF Counted
      <4> QED
        BY <4>3, <4>4
    <3> QED
      BY <1>4, <1>6, <3>1, <3>2
  <2> QED
    BY <2>3, <2>4
<1>7. CASE op = "LRANGE"
  <2> DEFINE l == Append(seen.lists, db'.list)
  <2>1. seen' = [texts |-> seen.texts, numbers |-> seen.numbers, lists |-> l]
    BY <1>1, <1>3, <1>7
  <2>2. /\ l \in Seq(Seq(Int))
        /\ \A i \in DOMAIN l : (i \in DOMAIN seen.lists /\ l[i] = seen.lists[i]) \/ l[i] = db'.list
    BY <1>1, <1>2, OneMore
  <2> HIDE DEF l
  <2>3. seen' \in Printed
    BY <1>1, <2>1, <2>2 DEF Printed
  <2>4. ASSUME Ready PROVE Whole(seen') /\ Counted(seen', p)
    <3>1. IF program = "example" THEN db'.list = Down(Pushes) ELSE EndsWithCart(db'.list)
      <4>1. CASE program \in {"test1", "test2"} /\ p = 4
        BY <2>4, <4>1 DEF Written
      <4>2. CASE program = "example" /\ p = Pushes + 8
        <5>1. p \in 7 .. Pushes + 8 /\ ~(p <= 7 + Pushes)
          BY <4>2, PushesAssumption
        <5> QED
          BY <2>4, <4>2, <5>1 DEF Written, Pushed
      <4> QED
        BY <1>4, <1>7, <4>1, <4>2
    <3>2. Whole(seen')
      BY <2>1, <2>2, <2>4, <3>1 DEF Whole
    <3>3. Counted(seen', p)
      <4>1. program = "example" => Incs(p) = Incs(p - 1)
        BY <1>4, <1>7, PushesAssumption DEF Incs
      <4> QED
        BY <2>1, <2>4, <4>1 DEF Counted
    <3> QED
      BY <3>2, <3>3
  <2> QED
    BY <2>3, <2>4
<1>8. CASE op \notin {"GET", "INCR", "DECRBY", "NUMBER", "LRANGE"}
  <2>1. program = "example" => Incs(p) = Incs(p - 1)
    BY <1>1, <1>4, <1>8 DEF Incs
  <2> QED
    BY <1>1, <1>3, <1>8, <2>1 DEF Counted
<1> QED
  BY <1>5, <1>6, <1>7, <1>8

\* A command that is carried out leaves a database.
LEMMA AfterTypes ==
  ASSUME ProgramTypes, position <= Len(Programs!Commands)
  PROVE  Programs!After \in DatabaseContents
<1> DEFINE c == Programs!Current
           a == Programs!After
<1>1. db.text \in {"nil", "old", "new"} /\ db.number \in Int /\ db.list \in Seq(Int) /\ db \in DatabaseContents
  BY DEF ProgramTypes, DatabaseContents
<1>2. /\ a.text = IF c.op = "SET" THEN "new" ELSE db.text
      /\ a.number = IF c.op = "INCR" THEN db.number + 1
                    ELSE IF c.op = "SETTO" THEN c.arg
                    ELSE IF c.op = "DECRBY" THEN db.number - c.arg ELSE db.number
      /\ a.list = IF c.op = "DEL" THEN <<>>
                  ELSE IF c.op = "LPUSH" THEN c.arg \o db.list
                  ELSE IF c.op = "RPUSH" THEN db.list \o c.arg ELSE db.list
      /\ a = [text |-> a.text, number |-> a.number, list |-> a.list]
  BY <1>1, AfterIs
<1>3. /\ c.op \in {"SETTO", "DECRBY"} => c.arg \in Int
      /\ c.op \in {"LPUSH", "RPUSH"} => c.arg \in Seq(Int)
  <2>1. CASE program \in {"test3", "async", "test"}
    BY <2>1, CurrentCommand
  <2>2. CASE program = "client"
    <3>1. /\ position \in 1 .. 3
          /\ position = 1 => c.op = "SETTO" /\ c.arg = 42
          /\ position = 2 => c.op = "DECRBY" /\ c.arg = 12
          /\ position = 3 => c.op = "NUMBER"
      BY <2>2, CurrentCommand
    <3> HIDE DEF c
    <3> QED
      BY <3>1
  <2>3. CASE program \in {"test1", "test2"}
    <3>1. /\ position \in 1 .. 5
          /\ position = 1 => c.op = "SET"
          /\ position = 2 => c.op = "GET"
          /\ position = 3 => c.op = "RPUSH" /\ c.arg = Programs!Cart
          /\ position = 4 => c.op = "LRANGE"
          /\ position = 5 => c.op = "INVALID"
      BY <2>3, CurrentCommand
    <3>2. Programs!Cart \in Seq(Int)
      BY DEF Programs!Cart
    <3> HIDE DEF c
    <3> QED
      BY <3>1, <3>2
  <2>4. CASE program = "example"
    <3>1. /\ position \in 1 .. 7 \/ position = Pushes + 8 \/ position = Pushes + 9
                \/ \E k \in 1 .. Pushes : position = 7 + k
          /\ position = 1 => c.op = "PING"
          /\ position \in 2 .. 3 => c.op = "SET"
          /\ position = 4 => c.op = "GET"
          /\ position \in 5 .. 6 => c.op = "INCR"
          /\ position = 7 => c.op = "DEL"
          /\ \A k \in 1 .. Pushes : position = 7 + k => c.op = "LPUSH" /\ c.arg = <<k - 1>>
          /\ position = Pushes + 8 => c.op = "LRANGE"
          /\ position = Pushes + 9 => c.op = "RPUSH" /\ c.arg = <<0, 1>>
      BY <2>4, CurrentCommand
    <3>2. <<0, 1>> \in Seq(Int) /\ \A k \in 1 .. Pushes : <<k - 1>> \in Seq(Int)
      OBVIOUS
    <3> HIDE DEF c
    <3>3. CASE position \in 1 .. 7
      <4>1. position \in {1, 2, 3, 4, 5, 6, 7}
        BY <3>3
      <4> QED
        BY <3>1, <4>1
    <3>4. CASE \E k \in 1 .. Pushes : position = 7 + k
      BY <3>1, <3>2, <3>4
    <3>5. CASE position = Pushes + 8 \/ position = Pushes + 9
      BY <3>1, <3>2, <3>5
    <3> QED
      BY <3>1, <3>3, <3>4, <3>5
  <2> QED
    BY <2>1, <2>2, <2>3, <2>4, CurrentCommand DEF ProgramTypes
<1> HIDE DEF a, c
<1>4. a.text \in {"nil", "old", "new"} /\ a.number \in Int
  BY <1>1, <1>2, <1>3
<1>5. a.list \in Seq(Int)
  BY <1>1, <1>2, <1>3
<1>6. a \in DatabaseContents
  BY <1>2, <1>4, <1>5 DEF DatabaseContents
<1> QED
  BY <1>6 DEF a

\* The only command that is none is the last of "test1" and of "test2".
LEMMA NoCommand ==
  ASSUME ProgramTypes, position <= Len(Programs!Commands), Programs!Current.op = "INVALID"
  PROVE  program \in {"test1", "test2"} /\ position = 5
<1> DEFINE op == Programs!Current.op
           p  == position
<1>1. CASE program \in {"test3", "async", "test"}
  BY <1>1, CurrentCommand
<1>2. CASE program = "client"
  <2>1. p \in 1 .. 3 /\ (p = 1 => op = "SETTO") /\ (p = 2 => op = "DECRBY") /\ (p = 3 => op = "NUMBER")
    BY <1>2, CurrentCommand
  <2> QED
    BY <2>1
<1>3. CASE program \in {"test1", "test2"}
  <2>1. /\ p \in 1 .. 5 /\ (p = 1 => op = "SET") /\ (p = 2 => op = "GET") /\ (p = 3 => op = "RPUSH")
        /\ p = 4 => op = "LRANGE"
    BY <1>3, CurrentCommand
  <2> QED
    BY <1>3, <2>1
<1>4. CASE program = "example"
  <2>1. /\ p \in 1 .. 7 \/ p = Pushes + 8 \/ p = Pushes + 9 \/ \E k \in 1 .. Pushes : p = 7 + k
        /\ p = 1 => op = "PING"
        /\ p \in 2 .. 3 => op = "SET"
        /\ p = 4 => op = "GET"
        /\ p \in 5 .. 6 => op = "INCR"
        /\ p = 7 => op = "DEL"
        /\ \A k \in 1 .. Pushes : p = 7 + k => op = "LPUSH"
        /\ p = Pushes + 8 => op = "LRANGE"
        /\ p = Pushes + 9 => op = "RPUSH"
    BY <1>4, CurrentCommand
  <2>2. CASE p \in 1 .. 7
    <3>1. p \in {1, 2, 3, 4, 5, 6, 7}
      BY <2>2
    <3> QED
      BY <2>1, <3>1
  <2> QED
    BY <2>1, <2>2
<1> QED
  BY <1>1, <1>2, <1>3, <1>4, CurrentCommand DEF ProgramTypes

\* In the beginning.
LEMMA ProgramInit == Programs!Init => ProgramInv
<1> SUFFICES ASSUME Programs!Init PROVE ProgramInv
  OBVIOUS
<1> USE DEF Programs!Init
<1>1. program \in {"base", "example", "test1", "test2", "test3", "async", "client", "test"}
  BY DEF Programs!Asking, Programs!Queueing
<1>2. Len(Programs!Commands) \in Nat /\ position = 1
  <2>1. /\ Len(Programs!Example) \in Nat /\ Len(Programs!CartCommands) = 5
    BY ExampleCommands, CartList, PushesAssumption
  <2>2. /\ Len(<<>>) \in Nat /\ Len(Programs!UserName) \in Nat /\ Len(Programs!AsyncCommands) \in Nat
        /\ Len(Programs!ClientCommands) \in Nat /\ Len(Programs!TestCommands) \in Nat
    BY DEF Programs!UserName, Programs!AsyncCommands, Programs!ClientCommands, Programs!TestCommands
  <2>3. CASE program \in {"base", "example", "test1", "test2"}
    BY <2>1, <2>2, <2>3, CommandsOf
  <2>4. CASE program \in {"test3", "async", "client", "test"}
    BY <2>2, <2>4, CommandsOf
  <2> QED
    BY <1>1, <2>3, <2>4
<1>3. db.text \in {"nil", "old", "new"} /\ db.number = 7 /\ db \in DatabaseContents
  <2>1. <<>> \in Seq(Int) /\ <<-1>> \in Seq(Int)
    OBVIOUS
  <2> DEFINE L == {<<>>, <<-1>>}
  <2>2. \A l \in L : l \in Seq(Int)
    BY <2>1
  <2>3. db \in [text : {"nil", "old"}, number : {7}, list : L]
    OBVIOUS
  <2> HIDE DEF L
  <2>4. /\ db = [text |-> db.text, number |-> db.number, list |-> db.list]
        /\ db.text \in {"nil", "old"} /\ db.number = 7 /\ db.list \in L
    BY <2>3
  <2> QED
    BY <2>2, <2>4 DEF DatabaseContents
<1>4. /\ seen.texts = <<>> /\ seen.numbers = <<>> /\ seen.lists = <<>> /\ seen \in Printed
  <2>1. \A S : <<>> \in Seq(S)
    OBVIOUS
  <2>2. seen = [texts |-> <<>>, numbers |-> <<>>, lists |-> <<>>]
    OBVIOUS
  <2> QED
    BY <2>1, <2>2 DEF Printed
<1>5. ProgramTypes
  BY <1>1, <1>2, <1>3, <1>4 DEF ProgramTypes
<1>6. Whole(seen)
  BY <1>4 DEF Whole
<1>7. Written(db, 0) /\ Counted(seen, 0)
  BY <1>3, <1>4, PushesAssumption DEF Written, Counted, Incs
<1> QED
  BY <1>2, <1>5, <1>6, <1>7 DEF ProgramInv, Carried

\* Every step keeps the invariant.
LEMMA ProgramStep == ProgramInv /\ [Programs!Next]_(Programs!programs) => ProgramInv'
<1> SUFFICES ASSUME ProgramInv, [Programs!Next]_(Programs!programs) PROVE ProgramInv'
  OBVIOUS
<1> DEFINE p == position
           n == Len(Programs!Commands)
<1>1. /\ program \in {"base", "example", "test1", "test2", "test3", "async", "client", "test"}
      /\ p \in 1 .. n + 1 /\ p \in Nat /\ p >= 1
      /\ answer \in {"none", "null", "answer", "error"}
      /\ db \in DatabaseContents
      /\ seen \in Printed
      /\ answer # "none" => program \in Programs!Asking /\ p <= n
      /\ answer = "null" => context = "bad"
      /\ answer \in {"answer", "error"} => context = "good"
      /\ answer = "error" /\ ~refused => program \in {"test1", "test2"}
      /\ ProgramTypes
  BY DEF ProgramInv, ProgramTypes
<1>2. program' = program /\ Programs!Commands' = Programs!Commands
  <2>1. program' = program
    BY DEF Programs!Next, Programs!Step, Programs!Connect, Programs!Ask, Programs!Use, Programs!Finish,
           Programs!Connected, Programs!Answer, Programs!Lose, Programs!Committed, Programs!programs
  <2> QED
    BY <2>1 DEF Programs!Commands, Programs!Example, Programs!CartCommands, Programs!UserName,
                Programs!AsyncCommands, Programs!ClientCommands, Programs!TestCommands
\* What is left to show of the state that a step leads to.
<1>3. ASSUME p' \in 1 .. n + 1, answer' \in {"none", "null", "answer", "error"},
             db' \in DatabaseContents, seen' \in Printed,
             answer' # "none" => program \in Programs!Asking /\ p' <= n,
             answer' = "null" => context' = "bad",
             answer' \in {"answer", "error"} => context' = "good",
             answer' = "error" /\ ~refused' => program \in {"test1", "test2"}
      PROVE  ProgramTypes'
  BY <1>1, <1>2, <1>3 DEF ProgramTypes, DatabaseContents, Printed, Programs!Asking
<1>4. ASSUME ProgramTypes', ~refused' => Whole(seen'), ~refused' => ~Lasts'
      PROVE  ProgramInv'
  BY <1>2, <1>4 DEF ProgramInv, Whole, EndsWithCart, Programs!Cart, Down
<1>5. ASSUME ProgramTypes',
             ~refused' => Whole(seen'),
             ~refused' /\ Lasts' => Written(db', Carried') /\ Counted(seen', p' - 1)
      PROVE  ProgramInv'
  BY <1>2, <1>5 DEF ProgramInv, Whole, EndsWithCart, Programs!Cart, Down, Written, Counted, Incs, Pushed
<1>6. /\ ~refused => Whole(seen)
      /\ ~refused /\ Lasts => Written(db, Carried) /\ Counted(seen, p - 1)
  BY DEF ProgramInv
<1>7. CASE Programs!Connect
  <2>1. /\ UNCHANGED <<program, position, answer, db, seen, refused>> /\ context = "none"
    BY <1>7 DEF Programs!Connect
  <2>2. Lasts /\ Carried' = Carried
    BY <2>1 DEF Lasts, Carried
  <2>3. answer = "none"
    BY <1>1, <2>1
  <2>4. ProgramTypes'
    BY <1>1, <1>3, <2>1, <2>3
  <2> QED
    BY <1>5, <1>6, <2>1, <2>2, <2>4
<1>8. CASE Programs!Ask
  <2>1. /\ UNCHANGED <<program, position, seen>> /\ answer = "none" /\ p <= n
        /\ program \in Programs!Asking
        /\ \/ context = "good" /\ Programs!CarriedOut /\ answer' = "answer" /\ UNCHANGED context
           \/ context = "good" /\ Programs!Refused /\ answer' = "error" /\ UNCHANGED context
           \/ /\ context' = "bad" /\ answer' = "null" /\ UNCHANGED refused
              /\ UNCHANGED db \/ (context = "good" /\ db' = Programs!After)
    BY <1>8 DEF Programs!Ask
  <2>2. CASE context = "good" /\ Programs!CarriedOut /\ answer' = "answer" /\ UNCHANGED context
    <3>1. db' = Programs!After /\ UNCHANGED <<refused, context>> /\ Lasts /\ Carried = p - 1 /\ Carried' = p'
      BY <2>1, <2>2 DEF Programs!CarriedOut, Lasts, Carried
    <3>2. db' \in DatabaseContents /\ (~refused => Written(db', p))
      BY <1>1, <1>6, <2>1, <3>1, AfterTypes, NextWritten
    <3>3. ProgramTypes'
      BY <1>1, <1>3, <2>1, <2>2, <3>1, <3>2
    <3> QED
      BY <1>5, <1>6, <2>1, <3>1, <3>2, <3>3
  <2>3. CASE context = "good" /\ Programs!Refused /\ answer' = "error" /\ UNCHANGED context
    <3>1. db' = db /\ UNCHANGED context /\ Lasts /\ Carried = p - 1 /\ Carried' = p'
          /\ refused' = (refused \/ Programs!Current.op # "INVALID")
      BY <2>1, <2>3 DEF Programs!Refused, Lasts, Carried
    <3>2. ASSUME ~refused' PROVE ~refused /\ program \in {"test1", "test2"} /\ p = 5
      BY <1>1, <2>1, <3>1, <3>2, NoCommand
    <3>3. ASSUME ~refused' PROVE Written(db', p)
      BY <1>6, <3>1, <3>2, <3>3 DEF Written
    <3>4. ProgramTypes'
      BY <1>1, <1>3, <2>1, <2>3, <3>1, <3>2
    <3> QED
      BY <1>5, <1>6, <2>1, <3>1, <3>2, <3>3, <3>4
  <2>4. CASE /\ context' = "bad" /\ answer' = "null" /\ UNCHANGED refused
             /\ UNCHANGED db \/ (context = "good" /\ db' = Programs!After)
    <3>1. db' \in DatabaseContents
      BY <1>1, <2>1, <2>4, AfterTypes
    <3>2. ProgramTypes'
      BY <1>1, <1>3, <2>1, <2>4, <3>1
    <3>3. ~Lasts'
      BY <2>4 DEF Lasts
    <3> QED
      BY <1>4, <1>6, <2>1, <2>4, <3>2, <3>3
  <2> QED
    BY <2>1, <2>2, <2>3, <2>4
<1>9. CASE Programs!Use
  <2>1. /\ answer # "none" /\ answer' = "none" /\ p' = p + 1 /\ UNCHANGED <<program, context, db, refused>>
        /\ IF answer = "answer" THEN Programs!Prints ELSE UNCHANGED seen
    BY <1>9 DEF Programs!Use
  <2>2. p <= n /\ p' \in 1 .. n + 1 /\ p' - 1 = p /\ Carried = p /\ Carried' = p
    BY <1>1, <2>1 DEF Carried
  <2>3. CASE answer = "answer"
    <3>1. Programs!Prints /\ db' \in DatabaseContents /\ Lasts
      BY <1>1, <2>1, <2>3 DEF Lasts
    <3>2. /\ seen' \in Printed
          /\ Whole(seen) /\ Written(db', p) /\ Counted(seen, p - 1) => Whole(seen') /\ Counted(seen', p)
      BY <1>1, <2>2, <3>1, PrintFacts
    <3>3. ProgramTypes'
      BY <1>1, <1>3, <2>1, <2>2, <3>2
    <3>4. ~refused => Whole(seen') /\ Written(db', p) /\ Counted(seen', p)
      BY <1>6, <2>1, <2>2, <3>1, <3>2
    <3> QED
      BY <1>5, <2>1, <2>2, <3>3, <3>4
  <2>4. CASE answer # "answer"
    <3>1. ProgramTypes'
      BY <1>1, <1>3, <2>1, <2>2, <2>4
    <3>2. CASE answer = "null"
      <4>1. ~Lasts'
        BY <1>1, <2>1, <3>2 DEF Lasts
      <4> QED
        BY <1>4, <1>6, <2>1, <2>4, <3>1, <4>1
    <3>3. CASE answer = "error"
      <4>1. ~refused => program \in {"test1", "test2"} /\ Lasts
        BY <1>1, <3>3 DEF Lasts
      <4>2. ~refused => Written(db', p) /\ Counted(seen', p)
        BY <1>6, <2>1, <2>2, <2>4, <4>1 DEF Counted
      <4> QED
        BY <1>5, <1>6, <2>1, <2>2, <2>4, <3>1, <4>2
    <3> QED
      BY <1>1, <2>1, <2>4, <3>2, <3>3
  <2> QED
    BY <2>3, <2>4
<1>10. CASE Programs!Finish \/ Programs!Committed
  <2>1. UNCHANGED <<program, position, answer, db, seen, refused>> /\ p > n /\ context' = "done"
    BY <1>10 DEF Programs!Finish, Programs!Committed
  <2>2. answer = "none" /\ ~Lasts'
    BY <1>1, <2>1 DEF Lasts
  <2>3. ProgramTypes'
    BY <1>1, <1>3, <2>1, <2>2
  <2> QED
    BY <1>4, <1>6, <2>1, <2>2, <2>3
<1>11. CASE Programs!Connected
  <2>1. UNCHANGED <<program, position, answer, db, seen, refused>> /\ context = "connecting"
        /\ context' = "good"
    BY <1>11 DEF Programs!Connected
  <2>2. Lasts /\ Carried' = Carried
    BY <2>1 DEF Lasts, Carried
  <2>3. answer = "none"
    BY <1>1, <2>1
  <2>4. ProgramTypes'
    BY <1>1, <1>3, <2>1, <2>3
  <2> QED
    BY <1>5, <1>6, <2>1, <2>2, <2>4
<1>12. CASE Programs!Answer
  <2>1. /\ program \notin Programs!Asking /\ context = "good" /\ p <= n /\ p' = p + 1
        /\ UNCHANGED <<program, context, answer>>
        /\ (Programs!CarriedOut /\ Programs!Prints) \/ (Programs!Refused /\ UNCHANGED seen)
    BY <1>12 DEF Programs!Answer
  <2>2. p' \in 1 .. n + 1 /\ p' - 1 = p /\ Carried = p - 1 /\ Carried' = p /\ answer = "none" /\ Lasts
    BY <1>1, <2>1 DEF Carried, Lasts
  <2>3. CASE Programs!CarriedOut /\ Programs!Prints
    <3>1. db' = Programs!After /\ UNCHANGED refused
      BY <2>3 DEF Programs!CarriedOut
    <3>2. db' \in DatabaseContents /\ (~refused => Written(db', p))
      BY <1>1, <1>6, <2>1, <2>2, <3>1, AfterTypes, NextWritten
    <3>3. /\ seen' \in Printed
          /\ Whole(seen) /\ Written(db', p) /\ Counted(seen, p - 1) => Whole(seen') /\ Counted(seen', p)
      BY <1>1, <2>1, <2>3, <3>2, PrintFacts
    <3>4. ProgramTypes'
      BY <1>1, <1>3, <2>1, <2>2, <3>2, <3>3
    <3>5. ~refused => Whole(seen') /\ Written(db', p) /\ Counted(seen', p)
      BY <1>6, <2>2, <3>2, <3>3
    <3> QED
      BY <1>5, <2>2, <3>1, <3>4, <3>5
  <2>4. CASE Programs!Refused /\ UNCHANGED seen
    <3>1. db' = db /\ refused' = (refused \/ Programs!Current.op # "INVALID")
      BY <2>4 DEF Programs!Refused
    <3>2. refused' = TRUE
      <4>1. program \notin {"test1", "test2"}
        BY <2>1 DEF Programs!Asking
      <4>2. Programs!Current.op # "INVALID"
        BY <1>1, <2>1, <4>1, NoCommand
      <4> QED
        BY <3>1, <4>2
    <3>3. ProgramTypes'
      BY <1>1, <1>3, <2>1, <2>2, <2>4, <3>1
    <3> QED
      BY <1>4, <3>2, <3>3
  <2> QED
    BY <2>1, <2>3, <2>4
<1>13. CASE Programs!Lose
  <2>1. /\ program \notin Programs!Asking
        /\ UNCHANGED db \/ (p <= n /\ db' = Programs!After)
        /\ seen' = IF p <= n THEN [seen EXCEPT !.texts = Append(@, "lost")] ELSE seen
        /\ context' \in {"done", "bad"} /\ p' = n + 1
        /\ UNCHANGED <<program, answer, refused>>
    BY <1>13 DEF Programs!Lose
  <2>2. n \in Nat /\ answer = "none" /\ ~Lasts' /\ p' \in 1 .. n + 1
    BY <1>1, <2>1 DEF Lasts
  <2>3. db' \in DatabaseContents
    BY <1>1, <2>1, AfterTypes
  <2>4. seen' \in Printed /\ (Whole(seen) => Whole(seen'))
    <3>1. CASE p <= n
      <4> DEFINE l == Append(seen.texts, "lost")
      <4>1. seen.texts \in Seq({"nil", "old", "new", "lost"}) /\ "lost" \in {"nil", "old", "new", "lost"}
            /\ seen = [texts |-> seen.texts, numbers |-> seen.numbers, lists |-> seen.lists]
            /\ seen.numbers \in Seq(Int) /\ seen.lists \in Seq(Seq(Int))
        BY <1>1 DEF Printed
      <4>2. seen' = [texts |-> l, numbers |-> seen.numbers, lists |-> seen.lists]
        BY <2>1, <3>1, <4>1
      <4>3. /\ l \in Seq({"nil", "old", "new", "lost"})
            /\ \A i \in DOMAIN l : (i \in DOMAIN seen.texts /\ l[i] = seen.texts[i]) \/ l[i] = "lost"
        BY <4>1, OneMore
      <4> HIDE DEF l
      <4>4. seen' \in Printed
        BY <4>1, <4>2, <4>3 DEF Printed
      <4> QED
        BY <4>2, <4>3, <4>4 DEF Whole
    <3>2. CASE ~(p <= n)
      BY <1>1, <2>1, <3>2
    <3> QED
      BY <3>1, <3>2
  <2>5. ProgramTypes'
    BY <1>1, <1>3, <2>1, <2>2, <2>3, <2>4
  <2> QED
    BY <1>4, <1>6, <2>1, <2>2, <2>4, <2>5
<1>14. CASE UNCHANGED Programs!programs
  <2>1. UNCHANGED <<program, position, context, answer, db, seen, refused>>
    BY <1>14 DEF Programs!programs
  <2>2. ProgramTypes'
    BY <1>1, <1>3, <2>1
  <2>3. Carried' = Carried /\ Lasts' = Lasts
    BY <2>1 DEF Carried, Lasts
  <2> QED
    BY <1>5, <1>6, <2>1, <2>2, <2>3
<1> QED
  BY <1>7, <1>8, <1>9, <1>10, <1>11, <1>12, <1>13, <1>14 DEF Programs!Next, Programs!Step

\* No program prints part of what it stored for the whole, and no number but that of its own
\* commands, unless the server refused one of them: for any number of elements that "example"
\* pushes, although nobody looks at the replies to its DEL and LPUSH.
THEOREM PrintsOwn == Programs!Spec => []PrintsWhole
<1>1. ProgramInv => PrintsWhole
  BY WholeIs DEF ProgramInv
<1> QED
  BY <1>1, ProgramInit, ProgramStep, PTL DEF Programs!Spec

=============================================================================

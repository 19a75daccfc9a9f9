------------------------------ MODULE RedisTasks ------------------------------
(***************************************************************************)
(* The program ns_async (src/my_hiredis/main.cpp): one thread puts SET and *)
(* GET tasks on a TaskPool and then calls runInMain() for ever; work()     *)
(* takes a connection from the pool, sends its command to Redis and gives  *)
(* the connection back.                                                    *)
(*                                                                         *)
(* The task pool and the connection pool are those of TaskPool and         *)
(* ConnPool, whose actions are used here; the worker threads are the       *)
(* holders of connections.  RedisConn::command() throws when there is no   *)
(* reply, and nobody catches that in work(); an error that Redis replies   *)
(* is a reply like any other, and work() returns true.  connect() does not *)
(* look at the reply to its SELECT either, so that a connection may be on  *)
(* database 0 instead of config.dbindex.                                   *)
(***************************************************************************)
EXTENDS Integers, Sequences, FiniteSets

CONSTANTS MaxTask,   \* max_task
          Landing,   \* databases that a new connection may end up on
          ThreadSize, IdxModulus, NullTask, NoTask,     \* of the TaskPool
          Addr, NoConn, MaxIdle, MaxNow                 \* of the ConnPool

ASSUME RedisAssumption == /\ MaxTask \in Nat /\ ThreadSize \in Nat \ {0} /\ IdxModulus \in Nat \ {0}
                          /\ {NoTask, NullTask} \cap ({"SET", "GET"} \X (0 .. MaxTask - 1)) = {}
                          /\ NoTask # NullTask /\ NoConn \notin Addr
                          /\ MaxIdle \in Nat \ {0} /\ MaxNow \in Nat
                          /\ Landing \subseteq {0, 1}

VARIABLES cur_thread_idx, fresh, call, task_queue, task_list, working, task_done,
          main_list, main_pc, started, alive, dropped, called, assigned, draws, wraps,
          pool, in_use, last_used, broken, held, pc, now, torn, breaks,
          store,     \* per database and key: the value Redis has for it
          selected,  \* per connection: the database it is on
          reply,     \* per task: its reply
          asked      \* history, per key: the database that its GET was answered from

Key    == 0 .. MaxTask - 1
Task   == {"SET", "GET"} \X Key
Thread == 0 .. ThreadSize - 1

\* config.dbindex is 1; a connection whose SELECT is refused stays on 0.
Database == {0, 1}

Tasks == INSTANCE TaskPool WITH Submitter <- {"main"}, N <- ThreadSize, MaxDraws <- 2 * MaxTask
Conns == INSTANCE ConnPool WITH Holder <- Thread, MaxBreaks <- 0

tasks == <<cur_thread_idx, fresh, call, task_queue, task_list, working, task_done,
           main_list, main_pc, started, alive, dropped, called, assigned, draws, wraps>>
conns == <<pool, in_use, last_used, broken, held, pc, now, torn, breaks>>
redis == <<store, selected, reply, asked>>
vars  == <<tasks, conns, redis>>

\* Redis may still have the value of an earlier run.
Init == /\ Tasks!Init
        /\ Conns!Init
        /\ store \in [Database -> [Key -> {"nil", "old"}]]
        /\ selected = [c \in Addr |-> 0]
        /\ reply = [k \in Task |-> "none"]
        /\ asked = [k \in Key |-> 0]

-----------------------------------------------------------------------------
(* main() *)

\* Mutant: every SET is followed by its GET.
ProgramInPairs == [i \in 1 .. 2 * MaxTask |->
                     <<IF i % 2 = 1 THEN "SET" ELSE "GET", (i - 1) \div 2>>]

\* The two loops: all SETs, then all GETs.
Program == [i \in 1 .. 2 * MaxTask |->
              IF i <= MaxTask THEN <<"SET", i - 1>> ELSE <<"GET", i - MaxTask - 1>>]

Submitted == Cardinality(Task \ fresh)

MainStep ==
    /\ \/ started = 0 /\ Tasks!StartAll
       \/ Tasks!StartThread
       \/ /\ started = ThreadSize /\ main_pc = "idle"
          /\ Submitted < 2 * MaxTask
          /\ Tasks!Draw("main", Program[Submitted + 1])
       \/ Tasks!Put("main")
       \/ /\ Submitted = 2 * MaxTask /\ call["main"] = Tasks!Idle
          /\ Tasks!TakeDone \/ Tasks!Done
    /\ UNCHANGED <<conns, redis>>

-----------------------------------------------------------------------------
(* work() on a worker thread *)

Answered(t) == reply[working[t]] # "none"

Fetch(t) == /\ Tasks!Take(t) \/ Tasks!Work(t)
            /\ UNCHANGED <<conns, redis>>

\* The constructor of a new connection selects its database, and takes any reply to that.
Select == \E d \in Landing :
    selected' = [c \in Addr |-> IF c \notin pool' THEN 0
                               ELSE IF c \in Conns!Kept THEN selected[c] ELSE d]

\* ScopedRedisConn con; the constructor may throw.
GrabConn(t) ==
    /\ alive /\ working[t] # NoTask /\ ~Answered(t)
    /\ Conns!Grab(t)
    /\ Select
    /\ \/ pc'[t] = "using" /\ UNCHANGED tasks
       \/ pc'[t] = "idle" /\ Tasks!WorkThrows(t)
    /\ UNCHANGED <<store, reply, asked>>

\* Redis does what it is told on database d.
SetKey(k, d) == store' = [store EXCEPT ![d][k] = "new"]

\* The reply to the command of key k: its result, or an error.
SetReply(k, d) ==
    /\ \/ /\ SetKey(k, d)
          /\ reply' = [reply EXCEPT ![<<"SET", k>>] = "OK"]
       \/ /\ reply' = [reply EXCEPT ![<<"SET", k>>] = "error"]
          /\ UNCHANGED store
    /\ UNCHANGED asked

GetReply(k, d) ==
    /\ \/ /\ reply' = [reply EXCEPT ![<<"GET", k>>] = store[d][k]]
          /\ asked' = [asked EXCEPT ![k] = d]
       \/ /\ reply' = [reply EXCEPT ![<<"GET", k>>] = "error"]
          /\ UNCHANGED asked
    /\ UNCHANGED store

\* con->command(...) gets its reply; work() does not look at it.
Command(t) ==
    /\ alive /\ pc[t] = "using" /\ ~Answered(t)
    /\ \E k \in Key :
          \/ working[t] = <<"SET", k>> /\ SetReply(k, selected[held[t]])
          \/ working[t] = <<"GET", k>> /\ GetReply(k, selected[held[t]])
    /\ UNCHANGED <<tasks, conns, selected>>

\* It throws, perhaps after Redis has done what it was told.
CommandThrows(t) ==
    /\ pc[t] = "using" /\ ~Answered(t)
    /\ Tasks!WorkThrows(t)
    /\ \/ UNCHANGED store
       \/ \E k \in Key : working[t] = <<"SET", k>> /\ SetKey(k, selected[held[t]])
    /\ UNCHANGED <<conns, selected, reply, asked>>

\* The end of the scope gives the connection back ...
Leave(t) ==
    /\ alive /\ working[t] # NoTask /\ Answered(t)
    /\ Conns!Release(t)
    /\ UNCHANGED <<tasks, redis>>

\* ... before run() sees that work() returned true.
Finish(t) ==
    /\ alive /\ working[t] # NoTask /\ Answered(t) /\ pc[t] = "idle"
    /\ Tasks!AddDone(t)
    /\ UNCHANGED <<conns, redis>>

Worker(t) == \/ Fetch(t) \/ GrabConn(t) \/ Command(t) \/ CommandThrows(t)
             \/ Leave(t) \/ Finish(t)

Tick == alive /\ Conns!Tick /\ UNCHANGED <<tasks, redis>>

Next == MainStep \/ (\E t \in Thread : Worker(t)) \/ Tick

Spec == Init /\ [][Next]_vars

\* The main thread and the workers keep running.
FairSpec == Spec /\ WF_vars(MainStep) /\ \A t \in Thread : WF_vars(Worker(t))

-----------------------------------------------------------------------------
(* Properties *)

\* addNewTask() puts GET k on the thread that it put SET j on.
Behind(j, k) == (MaxTask + k - j) % ThreadSize = 0

\* Where the number of threads divides the width of the index, a GET never overtakes a SET
\* that was put on its thread, whatever keys they are for.  (With the 5 keys and 2 threads
\* of the program these are the SETs of the keys next to its own.)
GetsStayBehind ==
    IdxModulus % ThreadSize = 0 =>
        \A j, k \in Key :
            Behind(j, k) /\ reply[<<"GET", k>>] # "none" => reply[<<"SET", j>>] # "none"

\* If these include the SET of its own key, a GET that is answered from the database where
\* that SET was stored sees the new value: nothing else than a refusal, of either command
\* or of a SELECT, makes it find an old value or nothing.
GetSeesSet ==
    IdxModulus % ThreadSize = 0 =>
        \A k \in Key :
            Behind(k, k) /\ reply[<<"GET", k>>] \notin {"none", "error"} =>
                \/ reply[<<"GET", k>>] = "new"
                \/ reply[<<"SET", k>>] = "error"
                \/ reply[<<"SET", k>>] = "OK" /\ store[asked[k]][k] # "new"

\* Every task gets its callback, or an exception ends the process.
EveryTaskDone == <>(~alive \/ Len(called) = 2 * MaxTask)

=============================================================================

------------------------------- MODULE TaskPool -------------------------------
(***************************************************************************)
(* cncpp::TaskPool with its TaskThreads (src/Base/ThreadPool.{h,cpp}), the *)
(* Thread loop they run (src/Base/Thread.cpp) and the SyncQueues between   *)
(* them (src/Base/SyncQueue.h).                                            *)
(*                                                                         *)
(* Submitter threads call addNewTask(): getThread() draws an index from    *)
(* the atomic cur_thread_idx_, then the task is put on that thread's       *)
(* queue.  The two are separate steps.  A worker moves its whole queue     *)
(* into a local list and calls work() on each entry; work() returning true *)
(* puts the task on the shared queue of finished tasks.  The main thread   *)
(* moves that queue into a local list in runInMain() and calls done() on   *)
(* each entry.  Every put and take is one step, made under the queue's     *)
(* mutex; work() and done() run with no lock held.                         *)
(*                                                                         *)
(* The model starts after init().  The pool never calls SyncQueue::stop()  *)
(* nor Thread::stop(), so need_stop_ and stopped_ stay FALSE for it.       *)
(***************************************************************************)
EXTENDS Integers, Sequences, FiniteSets, SequencesExt

CONSTANTS Submitter,   \* threads that call addNewTask()
          Task,        \* tasks, each submitted at most once
          NullTask,    \* the null TaskPtr, which addNewTask() also accepts
          NoTask,      \* no task: an idle submitter or worker
          N,           \* thread_size_
          IdxModulus,  \* 2^32 in the code: cur_thread_idx_ is a uint32_t
          MaxDraws     \* bound on the calls of getThread() that are explored

\* init() asserts thread_size_ >= 1.
ASSUME SizeAssumption == /\ N \in Nat \ {0}
                         /\ IdxModulus \in Nat \ {0}
                         /\ MaxDraws \in Nat
ASSUME TaskAssumption == NullTask \notin Task /\ NoTask \notin Task \cup {NullTask}

VARIABLES cur_thread_idx,  \* the atomic counter getThread() draws from
          fresh,           \* tasks no addNewTask() call has been made with
          call,            \* per submitter: its addNewTask() call after the draw
          task_queue,      \* per thread: TaskThread::task_queue_
          task_list,       \* per thread: what is left of run()'s local list
          working,         \* per thread: the task whose work() is running
          task_done,       \* TaskPool::task_done_
          main_list,       \* what is left of runInMain()'s local list
          main_pc,         \* where the main thread is
          started,         \* how many threads startAll() has started so far
          alive,           \* FALSE once std::terminate has been called
          dropped,         \* tasks released without a done() call
          called,          \* history: tasks in the order of their done() calls
          assigned,        \* history: tasks put on each queue, in that order
          draws,           \* history: draws of each thread by getThread()
          wraps            \* history: how often cur_thread_idx wrapped to 0

client == <<cur_thread_idx, fresh, call, assigned, draws, wraps>>
worker == <<task_queue, task_list, working>>
main   == <<main_list, main_pc, started, called>>
vars   == <<client, worker, main, task_done, alive, dropped>>

Thread == 0 .. N - 1
Idle   == [task |-> NoTask, thread |-> 0]

\* cur_thread_idx_ is a default-constructed std::atomic, left indeterminate by
\* the constructor: any start value is possible.
Init == /\ cur_thread_idx \in 0 .. IdxModulus - 1
        /\ fresh = Task
        /\ call = [s \in Submitter |-> Idle]
        /\ task_queue = [t \in Thread |-> <<>>]
        /\ task_list = [t \in Thread |-> <<>>]
        /\ working = [t \in Thread |-> NoTask]
        /\ task_done = <<>>
        /\ main_list = <<>>
        /\ main_pc = "idle"
        /\ started = 0
        /\ alive = TRUE
        /\ dropped = {}
        /\ called = <<>>
        /\ assigned = [t \in Thread |-> <<>>]
        /\ draws = [t \in Thread |-> 0]
        /\ wraps = 0

-----------------------------------------------------------------------------
(* addNewTask(): any thread may call it, also from inside work() or done() *)

\* The number of draws made so far, from the history.
TotalDraws == SumFunction(draws)


\* thread_vec_.at(cur_thread_idx_++ % thread_size_)
ThreadAt(idx) == idx % N

\* Mutant: the counter starts every round from the same index.
DrawKeepsIndex(s, k) ==
    /\ alive /\ call[s] = Idle /\ TotalDraws < MaxDraws
    /\ call' = [call EXCEPT ![s] = [task |-> k, thread |-> ThreadAt(cur_thread_idx)]]
    /\ fresh' = fresh \ {k}
    /\ draws' = [draws EXCEPT ![ThreadAt(cur_thread_idx)] = @ + 1]
    /\ UNCHANGED <<cur_thread_idx, wraps, assigned, worker, main, task_done, alive, dropped>>

\* getThread(), called first thing by addNewTask(task).
Draw(s, k) ==
    /\ alive
    /\ call[s] = Idle
    /\ k \in fresh \cup {NullTask}
    /\ TotalDraws < MaxDraws
    /\ fresh' = fresh \ {k}
    /\ call' = [call EXCEPT ![s] = [task |-> k, thread |-> ThreadAt(cur_thread_idx)]]
    /\ cur_thread_idx' = (cur_thread_idx + 1) % IdxModulus
    /\ draws' = [draws EXCEPT ![ThreadAt(cur_thread_idx)] = @ + 1]
    /\ wraps' = IF cur_thread_idx' = 0 THEN wraps + 1 ELSE wraps
    /\ UNCHANGED <<assigned, worker, main, task_done, alive, dropped>>

\* Mutant: the put inserts at the front of the list.
PutAtFront(s) ==
    /\ alive /\ call[s] # Idle /\ call[s].task # NullTask
    /\ LET t == call[s].thread IN
         /\ task_queue' = [task_queue EXCEPT ![t] = <<call[s].task>> \o @]
         /\ assigned' = [assigned EXCEPT ![t] = Append(@, call[s].task)]
    /\ call' = [call EXCEPT ![s] = Idle]
    /\ UNCHANGED <<cur_thread_idx, fresh, draws, wraps, task_list, working,
                   main, task_done, alive, dropped>>

\* TaskThread::addTask(): a null task is not queued, and addNewTask() returns
\* true all the same because it ignores what addTask() returns.
Put(s) ==
    /\ alive
    /\ call[s] # Idle
    /\ LET t == call[s].thread
           k == call[s].task
       IN IF k = NullTask
          THEN UNCHANGED <<task_queue, assigned>>
          ELSE /\ task_queue' = [task_queue EXCEPT ![t] = Append(@, k)]
               /\ assigned' = [assigned EXCEPT ![t] = Append(@, k)]
    /\ call' = [call EXCEPT ![s] = Idle]
    /\ UNCHANGED <<cur_thread_idx, fresh, draws, wraps, task_list, working,
                   main, task_done, alive, dropped>>

-----------------------------------------------------------------------------
(* Thread::thrdloop() calling TaskThread::run() over and over *)

\* Mutant: a worker takes a new batch before it has finished the last one.
TakeOverwrites(t) ==
    /\ alive /\ t < started /\ working[t] = NoTask
    /\ task_queue[t] # <<>>
    /\ task_list' = [task_list EXCEPT ![t] = task_queue[t]]
    /\ task_queue' = [task_queue EXCEPT ![t] = <<>>]
    /\ UNCHANGED <<client, working, main, task_done, alive, dropped>>

\* task_queue_.take(task_list_).  On an empty queue run() returns at once, which
\* changes nothing.
Take(t) ==
    /\ alive
    /\ t < started
    /\ working[t] = NoTask
    /\ task_list[t] = <<>>
    /\ task_queue[t] # <<>>
    /\ task_list' = [task_list EXCEPT ![t] = task_queue[t]]
    /\ task_queue' = [task_queue EXCEPT ![t] = <<>>]
    /\ UNCHANGED <<client, working, main, task_done, alive, dropped>>

\* The loop reaches the next entry and calls its work().
Work(t) ==
    /\ alive
    /\ working[t] = NoTask
    /\ task_list[t] # <<>>
    /\ working' = [working EXCEPT ![t] = Head(task_list[t])]
    /\ task_list' = [task_list EXCEPT ![t] = Tail(@)]
    /\ UNCHANGED <<client, task_queue, main, task_done, alive, dropped>>

\* work() returned true: pool_ptr_->addDone(taskptr).
AddDone(t) ==
    /\ alive
    /\ working[t] # NoTask
    /\ task_done' = Append(task_done, working[t])
    /\ working' = [working EXCEPT ![t] = NoTask]
    /\ UNCHANGED <<client, task_queue, task_list, main, alive, dropped>>

\* work() returned false: the task is released, its done() is never called.
WorkFails(t) ==
    /\ alive
    /\ working[t] # NoTask
    /\ dropped' = dropped \cup {working[t]}
    /\ working' = [working EXCEPT ![t] = NoTask]
    /\ UNCHANGED <<client, task_queue, task_list, main, task_done, alive>>

\* work() threw.  Neither run() nor thrdloop() catches, so the exception leaves
\* the std::thread function and the process is terminated.
WorkThrows(t) ==
    /\ alive
    /\ working[t] # NoTask
    /\ alive' = FALSE
    /\ UNCHANGED <<client, worker, main, task_done, dropped>>

-----------------------------------------------------------------------------
(* The main thread: startAll(), runInMain() and joinAll() *)

AtRest == alive /\ main_pc = "idle" /\ main_list = <<>>

\* startAll(): on threads that already run, start() does nothing more.
StartAll ==
    /\ AtRest
    /\ main_pc' = IF started < N THEN "starting" ELSE "idle"
    /\ UNCHANGED <<client, worker, main_list, started, called, task_done, alive, dropped>>

\* Mutant: the loop of startAll() stops one thread short.
StartThreadShort ==
    /\ alive /\ main_pc = "starting" /\ started' = started + 1
    /\ main_pc' = IF started + 2 < N THEN "starting" ELSE "idle"
    /\ UNCHANGED <<client, worker, main_list, called, task_done, alive, dropped>>

\* One turn of startAll()'s loop: thread_vec_[started] gets its std::thread.
StartThread ==
    /\ alive
    /\ main_pc = "starting"
    /\ started' = started + 1
    /\ main_pc' = IF started + 1 < N THEN "starting" ELSE "idle"
    /\ UNCHANGED <<client, worker, main_list, called, task_done, alive, dropped>>

\* Mutant: runInMain() takes one task and clears the queue behind it.
TakeDoneFirst ==
    /\ AtRest /\ task_done # <<>>
    /\ main_list' = <<Head(task_done)>>
    /\ task_done' = <<>>
    /\ UNCHANGED <<client, worker, main_pc, started, called, alive, dropped>>

\* task_done_.take(task_list_) in runInMain().
TakeDone ==
    /\ AtRest
    /\ task_done # <<>>
    /\ main_list' = task_done
    /\ task_done' = <<>>
    /\ UNCHANGED <<client, worker, main_pc, started, called, alive, dropped>>

\* runInMain() calls done() on the next entry; its result is ignored.
Done ==
    /\ alive
    /\ main_list # <<>>
    /\ called' = Append(called, Head(main_list))
    /\ main_list' = Tail(main_list)
    /\ UNCHANGED <<client, worker, main_pc, started, task_done, alive, dropped>>

\* done() threw: the exception leaves runInMain(), whose local list is released
\* with the entries behind this one.  A caller that catches it goes on.
DoneThrows ==
    /\ alive
    /\ main_list # <<>>
    /\ called' = Append(called, Head(main_list))
    /\ dropped' = dropped \cup ToSet(Tail(main_list))
    /\ main_list' = <<>>
    /\ UNCHANGED <<client, worker, main_pc, started, task_done, alive>>

\* joinAll(): there is nothing to join before startAll(); afterwards the first
\* join() waits for a thread whose loop is never told to stop.
JoinAll ==
    /\ AtRest
    /\ main_pc' = IF started = 0 THEN "idle" ELSE "joining"
    /\ UNCHANGED <<client, worker, main_list, started, called, task_done, alive, dropped>>

-----------------------------------------------------------------------------
WorkerStep(t) == Take(t) \/ Work(t) \/ AddDone(t) \/ WorkFails(t) \/ WorkThrows(t)
MainLoop      == TakeDone \/ Done \/ DoneThrows

Next == \/ \E s \in Submitter : (\E k \in Task \cup {NullTask} : Draw(s, k)) \/ Put(s)
        \/ \E t \in Thread : WorkerStep(t)
        \/ MainLoop
        \/ StartAll
        \/ StartThread
        \/ JoinAll

Spec == Init /\ [][Next]_vars

\* A running thread keeps running: a submitter that has drawn its index puts the
\* task, every worker polls its queue for ever (and work() returns or throws),
\* and the main thread loops over runInMain() as ns_async::main() does, with
\* startAll() before it.
Fairness == /\ \A s \in Submitter : WF_vars(Put(s))
            /\ \A t \in Thread : WF_vars(WorkerStep(t))
            /\ WF_vars(MainLoop)
            /\ WF_vars(StartAll /\ started = 0)
            /\ WF_vars(StartThread)

FairSpec == Spec /\ Fairness

-----------------------------------------------------------------------------
(* Properties *)

TypeOK ==
    /\ cur_thread_idx \in 0 .. IdxModulus - 1
    /\ fresh \subseteq Task
    /\ call \in [Submitter -> [task : Task \cup {NullTask, NoTask}, thread : Thread]]
    /\ \A s \in Submitter : call[s].task = NoTask => call[s] = Idle
    /\ task_queue \in [Thread -> Seq(Task)]
    /\ task_list \in [Thread -> Seq(Task)]
    /\ working \in [Thread -> Task \cup {NoTask}]
    /\ task_done \in Seq(Task)
    /\ main_list \in Seq(Task)
    /\ main_pc \in {"idle", "starting", "joining"}
    /\ started \in 0 .. N
    /\ alive \in BOOLEAN
    /\ dropped \subseteq Task
    /\ called \in Seq(Task)
    /\ assigned \in [Thread -> Seq(Task)]
    /\ draws \in [Thread -> Nat]
    /\ wraps \in Nat

\* The positions of task k in a queue or list.
At(place, owner, list, k) ==
    {<<place, owner, i>> : i \in {j \in DOMAIN list : list[j] = k}}

\* Everything that holds a reference to task k, or remembers what became of it.
Places(k) ==
    UNION { IF k \in fresh THEN {<<"fresh">>} ELSE {},
            IF k \in dropped THEN {<<"dropped">>} ELSE {},
            {<<"call", s>> : s \in {u \in Submitter : call[u].task = k}},
            UNION {At("task_queue", t, task_queue[t], k) : t \in Thread},
            UNION {At("task_list", t, task_list[t], k) : t \in Thread},
            {<<"working", t>> : t \in {u \in Thread : working[u] = k}},
            At("task_done", 0, task_done, k),
            At("main_list", 0, main_list, k),
            At("called", 0, called, k) }

\* No task is lost and none is handled twice on its way through the submitter,
\* the worker's queue and list, the queue of finished tasks and the main
\* thread's list: at every moment it is in exactly one of them.
ExactlyOnePlace == \A k \in Task : Cardinality(Places(k)) = 1

\* Tasks put on the same worker thread get their done() calls in the order in
\* which they were put there, although they pass through four queues, batches of
\* any size, and failures of other tasks on the way.
CallbacksInOrder ==
    \A t \in Thread : \A a, b \in DOMAIN assigned[t] : \A i, j \in DOMAIN called :
        (assigned[t][a] = called[i] /\ assigned[t][b] = called[j] /\ a < b) => i < j

\* Both, on the way of every task from addNewTask() to its callback.
EachOnceInOrder == ExactlyOnePlace /\ CallbacksInOrder

\* getThread() spreads the tasks evenly, whatever the indeterminate start value
\* of the counter.  Where thread_size_ does not divide 2^32, each wrap of the
\* counter may add one task of imbalance and no more.
RoundRobin ==
    \A t, u \in Thread :
        draws[t] - draws[u] <= 1 + (IF IdxModulus % N = 0 THEN 0 ELSE wraps)

\* The tasks addNewTask() holds between getThread() and the put.
InCall == {k \in Task : \E s \in Submitter : call[s].task = k}

Lanes == INSTANCE TaskLanes WITH
            Lane  <- Thread,
            fresh <- fresh \cup InCall,
            lane  <- [t \in Thread |-> task_list[t] \o task_queue[t]],
            exec  <- working,
            out   <- main_list \o task_done,
            up    <- alive

\* The pool implements the FIFO lanes: what the workers and the main thread do
\* with their private batches is invisible.
LanesSpec == Lanes!Spec

\* Every task that was submitted gets its done() call or is given up after a
\* failed work() or done(), unless the process was terminated or the main thread
\* went into joinAll(), where it makes no callbacks any more.
EveryTaskSettles ==
    \A k \in Task : (k \notin fresh) ~>
        (k \in dropped \cup ToSet(called) \/ ~alive \/ main_pc = "joining")

\* The workers do not depend on the main thread: every submitted task leaves its
\* worker's queue, list and work() even if the main thread is in joinAll().
WorkersDrain ==
    \A k \in Task : (k \notin fresh) ~>
        (~alive \/ k \in dropped \cup ToSet(task_done \o main_list \o called))

\* Both: what the workers owe to a task, and then the main thread.
TasksMoveOn == EveryTaskSettles /\ WorkersDrain

=============================================================================

---------------------------- MODULE MCRedisTasks ----------------------------
(***************************************************************************)
(* Small instances of RedisTasks and, beside it, of RedisPrograms: `part'  *)
(* names the one that a behaviour is about, and the other rests.           *)
(***************************************************************************)
EXTENDS RedisTasks

LOCAL INSTANCE TLC

CONSTANTS c1, c2,
          Pushes   \* of RedisPrograms

ASSUME PushesAssumption == Pushes \in Nat

TwoAddr == {c1, c2}

\* The two addresses are alike.
AddrSymmetry == Permutations(TwoAddr)

VARIABLES part, program, position, context, answer, out, db, seen, refused

programVars == <<program, position, context, answer, out, db, seen, refused>>

Programs == INSTANCE RedisPrograms WITH pc <- position, reply <- answer

MCInit == /\ part \in {"tasks", "programs"} /\ Init /\ Programs!Init
          /\ IF part = "tasks"
             THEN cur_thread_idx = IdxModulus - 1 /\ store = [d \in Database |-> [k \in Key |-> "old"]]
                  /\ program = "base" /\ db = [text |-> "nil", number |-> 7, list |-> <<>>]
             ELSE cur_thread_idx = 0 /\ store = [d \in Database |-> [k \in Key |-> "nil"]]

TaskPart(A)    == part = "tasks" /\ A /\ UNCHANGED <<part, programVars>>
ProgramPart(A) == part = "programs" /\ A /\ UNCHANGED <<part, vars>>

MCNext == TaskPart(Next) \/ ProgramPart(Programs!Next)

allVars == <<part, vars, programVars>>

\* The fairness of each part.
MCSpec == /\ MCInit /\ [][MCNext]_allVars
          /\ WF_allVars(TaskPart(MainStep))
          /\ \A t \in Thread : WF_allVars(TaskPart(Worker(t)))
          /\ WF_allVars(ProgramPart(Programs!Step))

\* No program prints part of what it stored for the whole, although nobody looks at the
\* replies to DEL and LPUSH.
PrintsWhole == Programs!PrintsWhatItWrote

\* Every task gets its callback or the process ends; every other program ends.
EverythingEnds == /\ part = "tasks" => EveryTaskDone
                  /\ part = "programs" => Programs!ProgramEnds

=============================================================================

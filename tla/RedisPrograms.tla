---------------------------- MODULE RedisPrograms ----------------------------
(***************************************************************************)
(* The other programs of src/my_hiredis/main.cpp, and those of             *)
(* src/cppredis/main.cpp: one client of one Redis server each.             *)
(*                                                                         *)
(* "base" and "example" ask through redisCommand(), "test1" to "test3"     *)
(* through RedisConn::command(), all of them one command at a time;        *)
(* "async" has an event loop and callbacks; "client" and "test" queue      *)
(* their commands in a cpp_redis::client.                                  *)
(*                                                                         *)
(* Connections may be refused and lost, and the server may refuse a        *)
(* command.  Of the database a program sees one text, one number and one   *)
(* list; a second key of a kind is only written, and shares its place.     *)
(* Replies are freed in the step that used them, on every path that goes   *)
(* on.                                                                     *)
(***************************************************************************)
EXTENDS Integers, Sequences

CONSTANT Pushes   \* 10: the elements that "example" pushes

VARIABLES program,
          pc,       \* the command that is next to be asked, or answered
          context,  \* "none", "connecting", "good", "bad" (with err) or "done"
          reply,    \* of redisCommand(): "none", "null", "answer" or "error"
          out,      \* "running", or how the program ended
          db,       \* the database
          seen,     \* what was printed: texts, numbers, lists
          refused   \* history: the server refused a command

programs == <<program, pc, context, reply, out, db, seen, refused>>

Asking == {"base", "example", "test1", "test2", "test3"}
Queueing == {"client", "test"}

-----------------------------------------------------------------------------
(* The programs *)

\* A command, and what is done with its reply: "print" and "free" do not look whether
\* there is one, "exit" does, "throw" is RedisConn::command() and "caught" the same in a
\* try block.
Command(op, arg, use) == [op |-> op, arg |-> arg, use |-> use]

\* example_argv_command()
ArgvCommand == Command("RPUSH", <<0, 1>>, "exit")

\* Mutant: the list of the last time stays.
ExampleKeepsList ==
    [j \in 1 .. Pushes |-> Command("LPUSH", <<j - 1>>, "free")]
      \o <<Command("LRANGE", <<>>, "print"), ArgvCommand>>

Example ==
    <<Command("PING", <<>>, "print"), Command("SET", <<>>, "print"),
      Command("SET", <<>>, "print"),  Command("GET", <<>>, "print"),
      Command("INCR", <<>>, "print"), Command("INCR", <<>>, "print"),
      Command("DEL", <<>>, "free")>>
      \o [j \in 1 .. Pushes |-> Command("LPUSH", <<j - 1>>, "free")]
      \o <<Command("LRANGE", <<>>, "print"), ArgvCommand>>

UserName == <<Command("SET", <<>>, "throw"), Command("GET", <<>>, "throw")>>
Cart == <<1, 2, 3>>
CartCommands == UserName \o <<Command("RPUSH", Cart, "throw"), Command("LRANGE", <<>>, "throw"),
                              Command("INVALID", <<>>, "caught")>>

AsyncCommands == <<Command("SET", <<>>, "callback"), Command("GET", <<>>, "callback")>>

ClientCommands == <<Command("SETTO", 42, "callback"), Command("DECRBY", 12, "callback"),
                    Command("NUMBER", <<>>, "callback")>>

TestCommands == <<Command("SET", <<>>, "future"), Command("GET", <<>>, "future")>>

Commands == [base |-> <<>>, example |-> Example, test1 |-> CartCommands, test2 |-> CartCommands,
             test3 |-> UserName, async |-> AsyncCommands, client |-> ClientCommands,
             test |-> TestCommands][program]

Current == Commands[pc]

\* What ends the program when there is no connection.
WithoutConnection == CASE program \in {"base", "async", "test"} -> "returned"
                       [] program = "example"                   -> "exit"
                       [] OTHER                                 -> "terminated"

-----------------------------------------------------------------------------
(* The server *)

After == LET a == Current.arg IN
    CASE Current.op = "SET"    -> [db EXCEPT !.text = "new"]
      [] Current.op = "INCR"   -> [db EXCEPT !.number = @ + 1]
      [] Current.op = "SETTO"  -> [db EXCEPT !.number = a]
      [] Current.op = "DECRBY" -> [db EXCEPT !.number = @ - a]
      [] Current.op = "DEL"    -> [db EXCEPT !.list = <<>>]
      [] Current.op = "LPUSH"  -> [db EXCEPT !.list = a \o @]
      [] Current.op = "RPUSH"  -> [db EXCEPT !.list = @ \o a]
      [] OTHER                 -> db

\* A command is carried out, or refused; what is no command always is.
CarriedOut == Current.op # "INVALID" /\ db' = After /\ UNCHANGED refused
Refused == refused' = (refused \/ Current.op # "INVALID") /\ UNCHANGED db

-----------------------------------------------------------------------------
(* Steps *)

Init == /\ program \in Asking \cup Queueing \cup {"async"}
        /\ pc = 1 /\ context = "none" /\ reply = "none" /\ out = "running" /\ refused = FALSE
        /\ db \in [text : {"nil", "old"}, number : {7}, list : {<<>>, <<-1>>}]
        /\ seen = [texts |-> <<>>, numbers |-> <<>>, lists |-> <<>>]

\* redisConnect(), the constructors of RedisConn and the pool's, client.connect();
\* redisAsyncConnectWithOptions() only begins.
Connect ==
    /\ context = "none" /\ out = "running"
    /\ \/ context' = (IF program = "async" THEN "connecting" ELSE "good") /\ UNCHANGED out
       \/ context' = "bad" /\ out' = WithoutConnection
    /\ UNCHANGED <<program, pc, reply, db, seen, refused>>

\* redisCommand(); a context with an error stays so and gives null.
Ask ==
    /\ program \in Asking /\ out = "running" /\ context \in {"good", "bad"}
    /\ reply = "none" /\ pc <= Len(Commands)
    /\ \/ context = "good" /\ CarriedOut /\ reply' = "answer" /\ UNCHANGED context
       \/ context = "good" /\ Refused /\ reply' = "error" /\ UNCHANGED context
       \/ /\ context' = "bad" /\ reply' = "null" /\ UNCHANGED refused
          /\ UNCHANGED db \/ (context = "good" /\ db' = After)
    /\ UNCHANGED <<program, pc, out, seen>>

\* What is printed of an answer.
Prints == seen' = CASE Current.op = "GET" -> [seen EXCEPT !.texts = Append(@, db'.text)]
                    [] Current.op \in {"INCR", "DECRBY", "NUMBER"} ->
                           [seen EXCEPT !.numbers = Append(@, db'.number)]
                    [] Current.op = "LRANGE" -> [seen EXCEPT !.lists = Append(@, db'.list)]
                    [] OTHER -> seen

\* The str of a reply without text is null, which printf() may not survive.
PrintsNull(p) ==
    program = p /\ Current.op = "GET" /\ db.text = "nil" /\ out' = "crashed"

\* Without a reply, what redisCommand() answered is used nevertheless, or not.
WithoutReply == CASE Current.use \in {"free", "caught"} -> "running"
                  [] Current.use = "print"              -> "crashed"
                  [] Current.use = "exit"               -> "exit"
                  [] Current.use = "throw"              -> "terminated"

\* reply->str or reply->integer; the list only if it is one.
Use ==
    /\ reply # "none" /\ out = "running"
    /\ reply' = "none" /\ pc' = pc + 1
    /\ UNCHANGED <<program, context, db, refused>>
    /\ IF reply = "answer" THEN Prints ELSE UNCHANGED seen
    /\ \/ reply = "null" /\ out' = WithoutReply
       \/ reply # "null" /\ UNCHANGED out
       \/ reply = "answer" /\ PrintsNull("example")

\* The end of main(): redisFree(), the destructor of RedisConn, or release().
Finish ==
    /\ program \in Asking /\ out = "running" /\ context \in {"good", "bad"}
    /\ pc > Len(Commands)
    /\ context' = "done" /\ out' = "returned"
    /\ UNCHANGED <<program, pc, reply, db, seen, refused>>

\* connectCallback() of the event loop.
Connected ==
    /\ context = "connecting" /\ context' = "good"
    /\ UNCHANGED <<program, pc, reply, out, db, seen, refused>>

\* getCallback(), the callbacks of the client, or the future get their replies in the order
\* of the commands.
Answer ==
    /\ program \notin Asking /\ out = "running" /\ context = "good" /\ pc <= Len(Commands)
    /\ pc' = pc + 1
    /\ \/ CarriedOut /\ Prints /\ (UNCHANGED out \/ PrintsNull("async"))
       \/ Refused /\ UNCHANGED <<seen, out>>
    /\ UNCHANGED <<program, context, reply>>

\* The connection is lost, or was never made: those that wait are told so.  Then the event
\* loop has nothing to wait for; a client's sync_commit() returns.
Lose ==
    /\ program \notin Asking /\ out = "running" /\ context \in {"connecting", "good"}
    /\ UNCHANGED db \/ (context = "good" /\ pc <= Len(Commands) /\ db' = After)
    /\ seen' = IF pc <= Len(Commands) THEN [seen EXCEPT !.texts = Append(@, "lost")] ELSE seen
    /\ IF program = "async" THEN context' = "done" /\ out' = "returned"
                            ELSE context' = "bad" /\ UNCHANGED out
    /\ pc' = Len(Commands) + 1
    /\ UNCHANGED <<program, reply, refused>>

\* sync_commit() returns.  test() then asks the future, where as_string() throws if there
\* is no text, and has no return statement behind that.
Committed ==
    /\ program \in Queueing /\ out = "running" /\ context \in {"good", "bad"}
    /\ pc > Len(Commands)
    /\ context' = "done"
    /\ out' \in (IF program = "client" THEN {"returned"}
                 ELSE IF seen.texts = <<"new">> THEN {"undefined"} ELSE {"returned", "undefined"})
    /\ UNCHANGED <<program, pc, reply, db, seen, refused>>

Step == Connect \/ Ask \/ Use \/ Finish \/ Connected \/ Answer \/ Committed

Next == Step \/ Lose

Spec == Init /\ [][Next]_programs

-----------------------------------------------------------------------------
(* Properties *)

\* Nobody looks at the replies to DEL and LPUSH, and still no part of a list is printed as
\* if it were the whole: unless the server refused a command, a list that is printed is that
\* of this program, newest first, or ends with what it added; a text is the one that it set,
\* and the numbers are those that its own commands lead to.
PrintsWhatItWrote ==
    refused \/
    /\ \A i \in DOMAIN seen.texts : seen.texts[i] \in {"new", "lost"}
    /\ \A i \in DOMAIN seen.numbers :
          seen.numbers[i] = IF program = "client" THEN 30 ELSE 7 + i
    /\ \A i \in DOMAIN seen.lists :
          IF program = "example" THEN seen.lists[i] = [j \in 1 .. Pushes |-> Pushes - j]
          ELSE LET n == Len(seen.lists[i]) IN SubSeq(seen.lists[i], n - 2, n) = Cart

\* Every program ends, except that nothing ends the event loop of the asynchronous one
\* while its connection lasts: redisAsyncDisconnect() is commented out.
ProgramEnds == <>(out # "running" \/ (program = "async" /\ pc > Len(Commands)))

=============================================================================

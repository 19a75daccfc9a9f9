------------------------------ MODULE RedisConn ------------------------------
(***************************************************************************)
(* RedisConn (src/Base/RedisConn.cpp): an object that owns a redisContext  *)
(* of hiredis through a raw pointer, replaces it when it is broken, and    *)
(* can be moved.  Where ConnPool sees that a connection breaks and is      *)
(* connected again, this module follows the contexts and the database that *)
(* each is on.                                                             *)
(*                                                                         *)
(* hiredis and the server are external: redisConnect() gives a context,    *)
(* one with an error, or none; a command is answered, or the connection is *)
(* lost, which gives no reply and leaves the error in the context.         *)
(***************************************************************************)
EXTENDS Integers

CONSTANTS Object,     \* the RedisConn objects
          Context,    \* addresses of redisContext objects
          NoContext,  \* nullptr
          Database    \* the indices of databases, with 0

VARIABLES live,        \* the objects that exist
          context,     \* context_
          dbindex,     \* config_.dbindex
          configured,  \* history: objects made from a RedisConfig and never assigned to
          state,       \* the contexts: "free", "good", or with an error: "bad"
          on,          \* the database that each good context is on
          strayed,     \* history: contexts of which the server refused a SELECT, or on
                       \* which the holder called select()
          crashed      \* a null context was used

redis == <<live, context, dbindex, configured, state, on, strayed, crashed>>

Init == /\ live = {} /\ configured = {} /\ crashed = FALSE
        /\ context = [o \in Object |-> NoContext]
        /\ dbindex = [o \in Object |-> 0]
        /\ state = [c \in Context |-> "free"]
        /\ on = [c \in Context |-> 0] /\ strayed = {}

\* RedisReply::parseFrom(): the type of a reply, and its text if it has one; null keeps
\* the reply as it was made.
Parse(raw) ==
    [type |-> raw.type,
     str  |-> IF raw.type \in {"error", "string", "status"} THEN raw.str ELSE ""]

\* What select() returns: isStatus() and toString().
Accepted(reply) == reply.type = "status" /\ reply.str = "OK"

isConnected(o) == context[o] \in {c \in Context : state[c] = "good"}

\* The server's answers to SELECT, and what it does.
Answers == {[type |-> "status", str |-> "OK"], [type |-> "error", str |-> "ERR"]}
Moved(raw, index, from) == IF Accepted(Parse(raw)) THEN index ELSE from

\* A context that is freed, or gets an error.
Becomes(c, what) == /\ state' = [state EXCEPT ![c] = what]
                    /\ on' = [on EXCEPT ![c] = 0] /\ strayed' = strayed \ {c}

\* Mutant: a connection that replaces another does not select the database.
ConnectToSelectsOnce(o, c) ==
    \/ Becomes(c, "bad")
    \/ \E raw \in Answers :
          /\ state' = [state EXCEPT ![c] = "good"]
          /\ on' = [on EXCEPT ![c] = IF o \in live THEN 0 ELSE Moved(raw, dbindex'[o], 0)]
          /\ strayed' = IF Accepted(Parse(raw)) THEN strayed \ {c} ELSE strayed \cup {c}

\* connect() where redisConnect() returns c: it fails, then or in select(); or it is on
\* database 0 and selects another if the configuration says so, but does not look at what
\* select() returns.  It throws if c is bad in the end.
ConnectTo(o, c) ==
    \/ Becomes(c, "bad")
    \/ \E raw \in Answers :
          /\ state' = [state EXCEPT ![c] = "good"]
          /\ on' = [on EXCEPT ![c] = IF dbindex'[o] = 0 THEN 0 ELSE Moved(raw, dbindex'[o], 0)]
          /\ strayed' = IF dbindex'[o] = 0 \/ Accepted(Parse(raw))
                        THEN strayed \ {c} ELSE strayed \cup {c}

\* The constructor from a RedisConfig, or from host and port, which keeps a default
\* config_.  When connect() throws there is no object, and nobody frees c.
Construct(o, c, index, fromConfig) ==
    /\ o \notin live /\ state[c] = "free"
    /\ dbindex' = [dbindex EXCEPT ![o] = index]
    /\ ConnectTo(o, c)
    /\ IF state'[c] = "good"
       THEN /\ live' = live \cup {o} /\ context' = [context EXCEPT ![o] = c]
            /\ configured' = IF fromConfig THEN configured \cup {o} ELSE configured
       ELSE UNCHANGED <<live, context, configured>>
    /\ UNCHANGED crashed

\* redisFree(), if there is a context.
Free(c) == IF c = NoContext THEN UNCHANGED <<state, on, strayed>> ELSE Becomes(c, "free")

Destroy(o) ==
    /\ o \in live /\ live' = live \ {o} /\ configured' = configured \ {o}
    /\ Free(context[o])
    /\ context' = [context EXCEPT ![o] = NoContext]
    /\ dbindex' = [dbindex EXCEPT ![o] = 0]
    /\ UNCHANGED crashed

\* A command that is answered or not.
Ask(c) == Becomes(c, "bad") \/ UNCHANGED <<state, on, strayed>>

\* command() does not look at context_; one with an error gives no reply.
Command(o) ==
    /\ o \in live
    /\ IF context[o] = NoContext
       THEN crashed' = TRUE /\ UNCHANGED <<state, on, strayed>>
       ELSE Ask(context[o]) /\ UNCHANGED crashed
    /\ UNCHANGED <<live, context, dbindex, configured>>

\* select(), by the holder of the object.
Select(o, index) ==
    LET c == context[o] IN
    /\ o \in live /\ isConnected(o)
    /\ \/ Becomes(c, "bad")
       \/ /\ \E raw \in Answers : on' = [on EXCEPT ![c] = Moved(raw, index, @)]
          /\ strayed' = strayed \cup {c} /\ UNCHANGED state
    /\ UNCHANGED <<live, context, dbindex, configured, crashed>>

\* checkConnection() at the beginning of command_v() and command_argv(): connect()
\* overwrites a context that is null or bad and frees nothing.  redisConnect() may return
\* null.  A good context is asked as by command().
CheckedCommand(o, c) ==
    /\ o \in live /\ ~isConnected(o)
    /\ context' = [context EXCEPT ![o] = c]
    /\ UNCHANGED <<live, dbindex, configured, crashed>>
    /\ IF c = NoContext THEN UNCHANGED <<state, on, strayed>>
       ELSE state[c] = "free" /\ ConnectTo(o, c)

\* Mutant: the other object keeps its pointer.
MoveFromKeeps(o, p) == context' = [context EXCEPT ![o] = context[p]]

\* context_(other.context_), and null in the other.
MoveFrom(o, p) == context' = [context EXCEPT ![o] = context[p], ![p] = NoContext]

\* The move constructor, which leaves config_ behind.
MoveConstruct(o, p) ==
    /\ o \notin live /\ p \in live /\ live' = live \cup {o}
    /\ MoveFrom(o, p)
    /\ dbindex' = [dbindex EXCEPT ![o] = 0]
    /\ UNCHANGED <<configured, state, on, strayed, crashed>>

\* The move assignment, which does so too.
MoveAssign(o, p) ==
    /\ o \in live /\ p \in live \ {o}
    /\ Free(context[o])
    /\ MoveFrom(o, p)
    /\ configured' = configured \ {o}
    /\ UNCHANGED <<live, dbindex, crashed>>

Next == \/ /\ ~crashed
           /\ \/ \E o \in Object, c \in Context :
                    Construct(o, c, 0, FALSE) \/ \E i \in Database : Construct(o, c, i, TRUE)
              \/ \E o \in Object : Destroy(o) \/ Command(o)
              \/ \E o \in Object, i \in Database : Select(o, i)
              \/ \E o \in Object, c \in Context \cup {NoContext} : CheckedCommand(o, c)
              \/ \E o, p \in Object : MoveConstruct(o, p) \/ MoveAssign(o, p)
        \/ (crashed \/ \A c \in Context : state[c] # "free") /\ UNCHANGED redis

Spec == Init /\ [][Next]_redis

-----------------------------------------------------------------------------
(* Properties *)

\* No two objects have one context, none has one that was freed, and the contexts that
\* nobody has and that are never freed, those of constructors that threw and those that
\* connect() replaced, are broken ones: no working connection is lost.
ContextsAccounted ==
    /\ \A o, p \in live : context[o] = context[p] /\ o # p => context[o] = NoContext
    /\ \A o \in live : context[o] # NoContext => state[context[o]] # "free"
    /\ \A c \in Context : state[c] = "good" => \E o \in live : context[o] = c

\* The commands of an object that was made from a configuration go to the database that it
\* names, also after it was connected again, was moved from, or threw in between; unless
\* the server refused the SELECT, which connect() does not notice, or the holder chose one.
RightDatabase == \A o \in live \cap configured :
    isConnected(o) /\ context[o] \notin strayed => on[context[o]] = dbindex[o]

=============================================================================

------------------------------- MODULE Server -------------------------------
(***************************************************************************)
(* The accept loop of class server and the life of its session objects,    *)
(* over the io_service they share.  An asynchronous operation is pending   *)
(* until the network completes it; the completion waits in the io_service  *)
(* until a thread inside io_service::run takes it and executes its         *)
(* handler.  start_accept adds number_threads such threads and joins them, *)
(* so the thread that executed handle_accept never comes back.             *)
(***************************************************************************)
EXTENDS Integers, FiniteSets

CONSTANTS
    Session,         \* session objects; bound: as many connections as fit less one
    Threads,         \* the numbers of threads a configuration may ask for
    ThreadLimit      \* threads the process may have

ASSUME SessionAssumption == IsFiniteSet(Session) /\ Cardinality(Session) >= 2
ASSUME ThreadsAssumption == Threads \subseteq Nat
ASSUME LimitAssumption == ThreadLimit \in Nat /\ \A n \in Threads : ThreadLimit > n

VARIABLES
    number_threads,  \* server::number_threads, set once before the server runs
    live,     \* sessions allocated and not deleted
    pending,  \* asynchronous operations the network has not completed
    ready,    \* completions no thread has taken yet
    running,  \* completions whose handler a thread executes
    idle,     \* number of threads in io_service::run with no handler
    blocked,  \* number of threads in a join of start_accept
    gone,     \* sessions whose peer has reset the connection
    silent,   \* auxiliary: sessions whose read failed with no byte received
    up        \* the process runs

vars == <<number_threads, live, pending, ready, running, idle, blocked, gone, silent, up>>

Op == {"accept", "handshake", "read", "write"}

PendingOp == [s : Session, op : Op]

\* "ok", an error, and for a read an error after some bytes came in.
Completion == [s : Session, op : Op, res : {"ok", "error", "partial"}]

Runners == idle + Cardinality(running)

-----------------------------------------------------------------------------
(* The network and the io_service. *)

\* With every session object in use the descriptors are: accept can only fail.
CanSucceed(p) ==
    /\ p.op = "accept" => Session \ live # {}
    /\ p.s \notin gone

Complete(p, res) ==
    /\ up
    /\ p \in pending
    /\ res = "ok" => CanSucceed(p)
    /\ res = "partial" => p.op = "read"
    /\ pending' = pending \ {p}
    /\ ready' = ready \cup {[s |-> p.s, op |-> p.op, res |-> res]}
    /\ UNCHANGED <<live, running, idle, blocked, gone, silent, up>>

\* The peer of an accepted connection resets it.
PeerReset(s) ==
    /\ up
    /\ s \in live \ (gone \cup silent)
    /\ \A p \in pending \cup ready \cup running : p.s = s => p.op # "accept"
    /\ gone' = gone \cup {s}
    /\ UNCHANGED <<live, pending, ready, running, idle, blocked, silent, up>>

Dispatch(c) ==
    /\ up
    /\ c \in ready
    /\ idle > 0
    /\ ready' = ready \ {c}
    /\ running' = running \cup {c}
    /\ idle' = idle - 1
    /\ UNCHANGED <<live, pending, blocked, gone, silent, up>>

-----------------------------------------------------------------------------
(* The handlers.  Each leaves running, and its thread goes back to idle,    *)
(* except the thread of handle_accept.                                      *)

Returns(c) ==
    /\ up
    /\ running' = running \ {c}
    /\ idle' = idle + 1
    /\ UNCHANGED <<blocked, ready>>

\* The handler starts one operation on its session.
Starts(s, op) ==
    /\ pending' = pending \cup {[s |-> s, op |-> op]}
    /\ UNCHANGED <<live, gone, silent, up>>

\* delete this
Deletes(s) ==
    /\ live' = live \ {s}
    /\ gone' = gone \ {s}
    /\ UNCHANGED <<pending, silent, up>>

\* An exception leaves the handler and io_service::run: std::terminate.
Terminates == up' = FALSE /\ UNCHANGED <<live, pending, gone, silent>>

\* Mutants: the loop that adds threads is dropped, or runs once more; the new
\* threads are not joined.
SpawnsNone == 0
SpawnsOneMore == number_threads + 1
JoinsNone == 0

\* start_accept in a handler: the threads it adds, and the joining thread.
Spawns == number_threads
Joins == IF number_threads = 0 THEN 0 ELSE 1

\* Mutants: the acceptor is armed again after a success only; it is armed with
\* a pointer no session was assigned to.
RearmOnSuccess(c, next) == IF c.res = "ok" THEN {[s |-> next, op |-> "accept"]} ELSE {}
RearmUnassigned(c, next) == {[s |-> "nullptr", op |-> "accept"]}

\* async_accept with the next session.
Rearm(c, next) == {[s |-> next, op |-> "accept"]}

\* handle_accept: start the session or delete it; then start_accept makes the
\* next session, arms the acceptor, adds threads and joins them.  The thread
\* constructor throws when the process may not have that many.
HandleAccept(c) ==
    /\ up
    /\ c \in running
    /\ c.op = "accept"
    /\ running' = running \ {c}
    /\ \E next \in (Session \ live) \cup (IF c.res = "ok" THEN {} ELSE {c.s}) :
           /\ live' = (IF c.res = "ok" THEN live ELSE live \ {c.s}) \cup {next}
           /\ pending' = pending \cup Rearm(c, next)
                           \cup (IF c.res = "ok" THEN {[s |-> c.s, op |-> "handshake"]} ELSE {})
    /\ idle' = idle + Spawns + (1 - Joins)
    /\ blocked' = blocked + Joins
    /\ up' = (Runners + blocked + Spawns <= ThreadLimit)
    /\ UNCHANGED <<ready, gone, silent>>

\* Mutant: a failed handshake does not delete the session.
HandshakeKeeps(c) ==
    /\ c \in running
    /\ c.op = "handshake"
    /\ Returns(c)
    /\ IF c.res = "ok" THEN Starts(c.s, "read") ELSE UNCHANGED <<live, pending, gone, silent, up>>

HandleHandshake(c) ==
    /\ c \in running
    /\ c.op = "handshake"
    /\ Returns(c)
    /\ IF c.res = "ok" THEN Starts(c.s, "read") ELSE Deletes(c.s)

\* handle_read without error: match, the factory, the request handler and the
\* log line.  A request handler may throw (filesystem_error of an existence
\* check or of create_directory, the read through map::end() in get_next_id),
\* and remote_endpoint in the log line does once the peer has reset the
\* connection: nothing catches either.
HandleRequest(c) ==
    /\ c \in running
    /\ c.op = "read"
    /\ c.res = "ok"
    /\ Returns(c)
    /\ \/ c.s \notin gone /\ Starts(c.s, "write")
       \/ Terminates

\* handle_read with an error: 400 when bytes came in, else nothing at all.
HandleReadError(c) ==
    /\ c \in running
    /\ c.op = "read"
    /\ c.res # "ok"
    /\ Returns(c)
    /\ IF c.res = "partial"
       THEN Starts(c.s, "write")
       ELSE /\ silent' = silent \cup {c.s}
            /\ UNCHANGED <<live, pending, gone, up>>

\* Mutant: the session is deleted and goes on reading.
WriteFallsThrough(c) ==
    /\ c \in running
    /\ c.op = "write"
    /\ Returns(c)
    /\ pending' = pending \cup {[s |-> c.s, op |-> "read"]}
    /\ live' = IF c.res = "ok" THEN live ELSE live \ {c.s}
    /\ gone' = IF c.res = "ok" THEN gone ELSE gone \ {c.s}
    /\ UNCHANGED <<silent, up>>

HandleWrite(c) ==
    /\ c \in running
    /\ c.op = "write"
    /\ Returns(c)
    /\ IF c.res = "ok" THEN Starts(c.s, "read") ELSE Deletes(c.s)

Handle(c) ==
    \/ HandleAccept(c) \/ HandleHandshake(c) \/ HandleRequest(c)
    \/ HandleReadError(c) \/ HandleWrite(c)

-----------------------------------------------------------------------------

\* main: number_threads is the configured one, or 1; server::run made the
\* first session and the first threads.  With no threads to join, main itself
\* goes on to io_service::run.
Init ==
    /\ number_threads \in Threads
    /\ \E s \in Session :
           /\ live = {s}
           /\ pending = {[s |-> s, op |-> "accept"]}
    /\ ready = {}
    /\ running = {}
    /\ idle = number_threads + (1 - Joins)
    /\ blocked = Joins
    /\ gone = {}
    /\ silent = {}
    /\ up = TRUE

Next ==
    /\ \/ \E p \in pending, res \in {"ok", "error", "partial"} : Complete(p, res)
       \/ \E s \in Session : PeerReset(s)
       \/ \E c \in ready : Dispatch(c)
       \/ \E c \in running : Handle(c)
    /\ UNCHANGED number_threads

Spec == Init /\ [][Next]_vars

-----------------------------------------------------------------------------

TypeOK ==
    /\ number_threads \in Threads
    /\ live \subseteq Session
    /\ pending \subseteq PendingOp
    /\ ready \subseteq Completion
    /\ running \subseteq Completion
    /\ idle \in Nat
    /\ blocked \in Nat
    /\ gone \subseteq live
    /\ silent \subseteq live
    /\ up \in BOOLEAN

\* What the io_service holds for session s: operations and completions.
Work == pending \cup ready \cup running

\* Two operations are never outstanding on a session, and none on a deleted
\* one: no completion reaches freed memory (delete this), and no two threads
\* are in handlers of one session, though no strand orders them.
OneOperationPerSession ==
    /\ \A w \in Work : w.s \in live
    /\ \A v, w \in Work : v.s = w.s => v = w
    /\ pending \cap ready = {} /\ pending \cap running = {} /\ ready \cap running = {}

\* A session is kept alive by its operation alone.  The only live sessions
\* with none are those whose read failed with no byte received: handle_read
\* neither deletes them nor starts anything.
OnlySilentAreStranded ==
    up => \A s \in live : (s \in silent) <=> (\A w \in Work : w.s # s)

\* The acceptor is armed: exactly one session is being accepted, whatever
\* happened to the sessions before it.
AcceptorArmed ==
    up => \E w \in Work : w.op = "accept" /\ \A v \in Work : v.op = "accept" => v = w

\* Every handle_accept takes one thread out of the pool for good and adds
\* number_threads.
ThreadAccounting ==
    IF number_threads = 0 THEN blocked = 0 /\ Runners = 1
    ELSE blocked >= 1 /\ Runners = number_threads + (number_threads - 1) * (blocked - 1)

\* The threads joining each other never leave the io_service without one that
\* executes handlers.
SomeoneRuns == Runners >= 1

\* With one thread configured handlers are executed one at a time, although
\* the process gains a thread with every connection: routes_ and
\* entity_id_map, which no lock protects, are used by one thread at a time.
OneHandlerAtATime == number_threads <= 1 => Cardinality(running) <= 1

-----------------------------------------------------------------------------
(* Fairness.  The operating system runs every thread that is not blocked,   *)
(* so a handler that was started ends; the io_service hands completions out *)
(* in the order they came, so one cannot be passed over for ever.           *)

DispatchOf(s) ==
    (\E c \in ready : c.s = s /\ Dispatch(c)) /\ UNCHANGED number_threads
HandleOf(s) ==
    (\E c \in running : c.s = s /\ Handle(c)) /\ UNCHANGED number_threads
QuickHandleOf(s) ==
    (\E c \in running : c.s = s /\ c.op # "read" /\ Handle(c)) /\ UNCHANGED number_threads

\* The request handlers of one session may sleep: they need not end.
Sleeper == CHOOSE s \in Session : TRUE

FairSpec ==
    /\ Spec
    /\ \A s \in Session : SF_vars(DispatchOf(s)) /\ WF_vars(QuickHandleOf(s))
    /\ \A s \in Session \ {Sleeper} : WF_vars(HandleOf(s))

Waiting(s) == \E c \in ready : c.s = s

Served(s) == Waiting(s) ~> ~Waiting(s) \/ ~up

\* With one thread too, no completion waits for ever as long as every request
\* handler ends: the joins take no thread that is needed.
EveryCompletionHandled == WF_vars(HandleOf(Sleeper)) => \A s \in Session : Served(s)

\* "/echo response should be present before /sleep response"
\* (tests/multithread_test.sh): with two threads configured a request handler
\* that does not return keeps no other session waiting.
OthersServed == [](number_threads >= 2) => \A s \in Session \ {Sleeper} : Served(s)
=============================================================================

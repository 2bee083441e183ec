---------------------------- MODULE ServerProofs ----------------------------
(***************************************************************************)
(* Theorems about Server for every number of sessions, threads configured  *)
(* and threads allowed.                                                    *)
(*                                                                         *)
(* The inductive invariant ServerInv holds the properties together: that   *)
(* a handler's thread count is right needs the taken completion not to be  *)
(* executed already (OneOperationPerSession); that a deleted session is    *)
(* not a stranded one needs OnlySilentAreStranded; that the session        *)
(* handle_accept deletes is in no other set needs AcceptingNotGone.        *)
(***************************************************************************)
EXTENDS Server, FiniteSetTheorems, TLAPS

AcceptingNotGone == \A w \in Work : w.op = "accept" => w.s \notin gone

ServerInv ==
    /\ TypeOK
    /\ IsFiniteSet(running)
    /\ OneOperationPerSession
    /\ OnlySilentAreStranded
    /\ AcceptorArmed
    /\ AcceptingNotGone
    /\ ThreadAccounting

LEMMA InitServerInv == Init => ServerInv
<1> SUFFICES ASSUME Init PROVE ServerInv
  OBVIOUS
<1>1. PICK s \in Session : live = {s} /\ pending = {[s |-> s, op |-> "accept"]}
  BY DEF Init
<1>2. Work = {[s |-> s, op |-> "accept"]}
  BY <1>1 DEF Init, Work
<1>3. TypeOK
  BY <1>1, ThreadsAssumption DEF Init, TypeOK, PendingOp, Op, Joins
<1>4. IsFiniteSet(running) /\ Cardinality(running) = 0
  BY FS_EmptySet DEF Init
<1>5. OneOperationPerSession
  BY <1>1, <1>2 DEF Init, OneOperationPerSession
<1>6. OnlySilentAreStranded /\ AcceptorArmed /\ AcceptingNotGone
  BY <1>1, <1>2 DEF Init, OnlySilentAreStranded, AcceptorArmed, AcceptingNotGone
<1>7. ThreadAccounting
  BY <1>4, ThreadsAssumption DEF Init, ThreadAccounting, Runners, Joins
<1> QED
  BY <1>3, <1>4, <1>5, <1>6, <1>7 DEF ServerInv

-----------------------------------------------------------------------------
(* Counting threads. *)

\* A completion taken, or its handler returning: the thread changes place.
LEMMA TakeOne ==
    ASSUME IsFiniteSet(running), NEW c, c \notin running
    PROVE  /\ IsFiniteSet(running \cup {c})
           /\ Cardinality(running \cup {c}) = Cardinality(running) + 1
BY FS_AddElement

LEMMA ReturnOne ==
    ASSUME IsFiniteSet(running), NEW c \in running
    PROVE  /\ IsFiniteSet(running \ {c})
           /\ Cardinality(running \ {c}) = Cardinality(running) - 1
           /\ Cardinality(running) \in Nat
           /\ Cardinality(running \ {c}) \in Nat
BY FS_RemoveElement, FS_CardinalityType

LEMMA ReturnsThreads ==
    ASSUME ServerInv, NEW c \in running, Returns(c),
           UNCHANGED number_threads
    PROVE  /\ ThreadAccounting'
           /\ IsFiniteSet(running)'
           /\ idle' \in Nat
           /\ blocked' \in Nat
<1>1. /\ IsFiniteSet(running \ {c})
      /\ Cardinality(running \ {c}) = Cardinality(running) - 1
      /\ Cardinality(running) \in Nat
  BY ReturnOne DEF ServerInv
<1>2. running' = running \ {c} /\ idle' = idle + 1 /\ blocked' = blocked
  BY DEF Returns
<1>3. idle \in Nat /\ blocked \in Nat /\ ThreadAccounting
  BY DEF ServerInv, TypeOK
<1>4. Runners' = Runners
  BY <1>1, <1>2, <1>3 DEF Runners
<1> QED
  BY <1>1, <1>2, <1>3, <1>4 DEF ThreadAccounting

LEMMA DispatchThreads ==
    ASSUME ServerInv, NEW c \in ready, Dispatch(c),
           UNCHANGED number_threads
    PROVE  /\ ThreadAccounting'
           /\ IsFiniteSet(running)'
           /\ idle' \in Nat
<1>1. c \notin running
  BY DEF ServerInv, OneOperationPerSession
<1>2. /\ IsFiniteSet(running \cup {c})
      /\ Cardinality(running \cup {c}) = Cardinality(running) + 1
      /\ Cardinality(running) \in Nat
  BY <1>1, TakeOne, FS_CardinalityType DEF ServerInv
<1>3. running' = running \cup {c} /\ idle' = idle - 1 /\ idle > 0 /\ blocked' = blocked
  BY DEF Dispatch
<1>4. idle \in Nat /\ blocked \in Nat /\ ThreadAccounting
  BY DEF ServerInv, TypeOK
<1>5. Runners' = Runners
  BY <1>2, <1>3, <1>4 DEF Runners
<1> QED
  BY <1>2, <1>3, <1>4, <1>5 DEF ThreadAccounting

LEMMA AcceptThreads ==
    ASSUME ServerInv, NEW c \in running, HandleAccept(c),
           UNCHANGED number_threads
    PROVE  /\ ThreadAccounting'
           /\ IsFiniteSet(running)'
           /\ idle' \in Nat
           /\ blocked' \in Nat
<1>1. /\ IsFiniteSet(running \ {c})
      /\ Cardinality(running \ {c}) = Cardinality(running) - 1
      /\ Cardinality(running) \in Nat
  BY ReturnOne DEF ServerInv
<1>2. /\ running' = running \ {c}
      /\ idle' = idle + number_threads + (1 - Joins)
      /\ blocked' = blocked + Joins
  BY DEF HandleAccept, Spawns
<1>3. idle \in Nat /\ blocked \in Nat /\ number_threads \in Nat /\ ThreadAccounting
  BY ThreadsAssumption DEF ServerInv, TypeOK
<1>4. Runners' = Runners + number_threads - Joins /\ Runners \in Int
  BY <1>1, <1>2, <1>3 DEF Runners, Joins
<1>5. CASE number_threads = 0
  BY <1>1, <1>2, <1>3, <1>4, <1>5 DEF ThreadAccounting, Joins
<1>6. CASE number_threads # 0
  <2>1. Joins = 1
    BY <1>6 DEF Joins
  <2>2. (number_threads - 1) * (blocked + 1 - 1)
          = (number_threads - 1) * (blocked - 1) + (number_threads - 1)
    BY <1>3
  <2>3. Runners = number_threads + (number_threads - 1) * (blocked - 1) /\ blocked >= 1
    BY <1>3, <1>6 DEF ThreadAccounting
  <2>4. Runners' = number_threads + (number_threads - 1) * (blocked' - 1)
    BY <1>2, <1>3, <1>4, <2>1, <2>2, <2>3
  <2> QED
    BY <1>1, <1>2, <1>3, <1>6, <2>1, <2>3, <2>4 DEF ThreadAccounting
<1> QED
  BY <1>5, <1>6

-----------------------------------------------------------------------------
(* Sessions and their operations. *)

SessionInv ==
    /\ live \subseteq Session
    /\ pending \subseteq PendingOp
    /\ ready \subseteq Completion
    /\ running \subseteq Completion
    /\ gone \subseteq live
    /\ silent \subseteq live
    /\ up \in BOOLEAN
    /\ OneOperationPerSession
    /\ OnlySilentAreStranded
    /\ AcceptorArmed
    /\ AcceptingNotGone

LEMMA InvParts ==
    ServerInv <=> /\ SessionInv
                  /\ number_threads \in Threads
                  /\ idle \in Nat
                  /\ blocked \in Nat
                  /\ IsFiniteSet(running)
                  /\ ThreadAccounting
BY DEF ServerInv, SessionInv, TypeOK

\* The other work is on other sessions.
LEMMA OthersElsewhere ==
    ASSUME SessionInv, NEW c \in Work
    PROVE  c.s \in live /\ \A w \in Work : w # c => w.s # c.s
BY DEF SessionInv, OneOperationPerSession

\* The network completes an operation: the completion takes its place.
LEMMA CompleteSessions ==
    ASSUME SessionInv, NEW p \in pending, NEW res \in {"ok", "error", "partial"},
           Complete(p, res)
    PROVE  SessionInv'
<1> DEFINE d == [s |-> p.s, op |-> p.op, res |-> res]
<1>1. /\ pending' = pending \ {p}
      /\ ready' = ready \cup {d}
      /\ UNCHANGED <<live, running, gone, silent, up>>
  BY DEF Complete
<1>2. p \in Work /\ p \in PendingOp
  BY DEF Work, SessionInv
<1>3. d \in Completion /\ d.s = p.s /\ d.op = p.op
  BY <1>2 DEF PendingOp, Completion
<1> HIDE DEF d
<1>4. p.s \in live /\ \A w \in Work : w # p => w.s # p.s
  BY <1>2, OthersElsewhere
<1>5. p \notin ready /\ p \notin running
  BY DEF SessionInv, OneOperationPerSession
<1>6. d \notin pending' /\ d \notin running
  BY <1>1, <1>3, <1>4, <1>5 DEF Work
<1>7. Work' = (Work \ {p}) \cup {d}
  BY <1>1, <1>5 DEF Work
<1>8. OneOperationPerSession'
  BY <1>1, <1>3, <1>4, <1>5, <1>6, <1>7 DEF SessionInv, OneOperationPerSession
<1>9. OnlySilentAreStranded'
  BY <1>1, <1>2, <1>3, <1>7 DEF SessionInv, OnlySilentAreStranded
<1>10. AcceptorArmed'
  BY <1>1, <1>2, <1>3, <1>4, <1>7 DEF SessionInv, AcceptorArmed
<1>11. AcceptingNotGone'
  BY <1>1, <1>2, <1>3, <1>7 DEF SessionInv, AcceptingNotGone
<1> QED
  BY <1>1, <1>3, <1>8, <1>9, <1>10, <1>11 DEF SessionInv

LEMMA DispatchSessions ==
    ASSUME SessionInv, NEW c \in ready, Dispatch(c)
    PROVE  SessionInv'
<1>1. /\ ready' = ready \ {c}
      /\ running' = running \cup {c}
      /\ UNCHANGED <<live, pending, gone, silent, up>>
  BY DEF Dispatch
<1>2. Work' = Work
  BY <1>1 DEF Work
<1>3. OneOperationPerSession'
  BY <1>1, <1>2 DEF SessionInv, OneOperationPerSession
<1> QED
  BY <1>1, <1>2, <1>3
     DEF SessionInv, OnlySilentAreStranded, AcceptorArmed, AcceptingNotGone

LEMMA ResetSessions ==
    ASSUME SessionInv, NEW s \in Session, PeerReset(s)
    PROVE  SessionInv'
<1>1. /\ s \in live
      /\ \A w \in Work : w.s = s => w.op # "accept"
      /\ gone' = gone \cup {s}
      /\ UNCHANGED <<live, pending, ready, running, silent, up>>
  BY DEF PeerReset, Work
<1>2. Work' = Work
  BY <1>1 DEF Work
<1> QED
  BY <1>1, <1>2
     DEF SessionInv, OneOperationPerSession, OnlySilentAreStranded, AcceptorArmed, AcceptingNotGone

\* A handler that starts the next operation of its session.
LEMMA StartsSessions ==
    ASSUME SessionInv, NEW c \in running, c.op # "accept",
           NEW op \in {"read", "write"}, Returns(c), Starts(c.s, op)
    PROVE  SessionInv'
<1> DEFINE p == [s |-> c.s, op |-> op]
<1>1. /\ pending' = pending \cup {p}
      /\ running' = running \ {c}
      /\ UNCHANGED <<live, ready, gone, silent, up>>
  BY DEF Returns, Starts
<1>2. c \in Work /\ c \in Completion
  BY DEF Work, SessionInv
<1>3. p \in PendingOp /\ p.s = c.s /\ p.op # "accept"
  BY <1>2 DEF PendingOp, Completion, Op
<1> HIDE DEF p
<1>4. c.s \in live /\ \A w \in Work : w # c => w.s # c.s
  BY <1>2, OthersElsewhere
<1>5. c \notin ready /\ c \notin pending
  BY DEF SessionInv, OneOperationPerSession
<1>6. p \notin ready /\ p \notin running'
  BY <1>1, <1>3, <1>4, <1>5 DEF Work
<1>7. Work' = (Work \ {c}) \cup {p}
  BY <1>1, <1>5 DEF Work
<1>8. OneOperationPerSession'
  BY <1>1, <1>3, <1>4, <1>5, <1>6, <1>7 DEF SessionInv, OneOperationPerSession
<1>9. OnlySilentAreStranded'
  BY <1>1, <1>2, <1>3, <1>7 DEF SessionInv, OnlySilentAreStranded
<1>10. AcceptorArmed'
  BY <1>1, <1>2, <1>3, <1>4, <1>7 DEF SessionInv, AcceptorArmed
<1>11. AcceptingNotGone'
  BY <1>1, <1>2, <1>3, <1>7 DEF SessionInv, AcceptingNotGone
<1> QED
  BY <1>1, <1>3, <1>8, <1>9, <1>10, <1>11 DEF SessionInv

\* A handler that deletes its session.
LEMMA DeletesSessions ==
    ASSUME SessionInv, NEW c \in running, c.op # "accept", Returns(c), Deletes(c.s)
    PROVE  SessionInv'
<1>1. /\ live' = live \ {c.s}
      /\ gone' = gone \ {c.s}
      /\ running' = running \ {c}
      /\ UNCHANGED <<pending, ready, silent, up>>
      /\ up
  BY DEF Returns, Deletes
<1>2. c \in Work
  BY DEF Work
<1>3. c.s \in live /\ \A w \in Work : w # c => w.s # c.s
  BY <1>2, OthersElsewhere
<1>4. c \notin ready /\ c \notin pending
  BY DEF SessionInv, OneOperationPerSession
<1>5. Work' = Work \ {c}
  BY <1>1, <1>4 DEF Work
<1>6. c.s \notin silent
  BY <1>1, <1>2, <1>3 DEF SessionInv, OnlySilentAreStranded
<1>7. OneOperationPerSession'
  BY <1>1, <1>3, <1>5 DEF SessionInv, OneOperationPerSession
<1>8. OnlySilentAreStranded'
  BY <1>1, <1>3, <1>5 DEF SessionInv, OnlySilentAreStranded
<1>9. AcceptorArmed'
  BY <1>1, <1>2, <1>5 DEF SessionInv, AcceptorArmed
<1>10. AcceptingNotGone'
  BY <1>1, <1>5 DEF SessionInv, AcceptingNotGone
<1> QED
  BY <1>1, <1>6, <1>7, <1>8, <1>9, <1>10 DEF SessionInv

\* handle_read that leaves its session to itself.
LEMMA StrandsSessions ==
    ASSUME SessionInv, NEW c \in running, c.op # "accept", Returns(c),
           silent' = silent \cup {c.s}, UNCHANGED <<live, pending, gone, up>>
    PROVE  SessionInv'
<1>1. running' = running \ {c} /\ ready' = ready
  BY DEF Returns
<1>2. c \in Work
  BY DEF Work
<1>3. c.s \in live /\ \A w \in Work : w # c => w.s # c.s
  BY <1>2, OthersElsewhere
<1>4. c \notin ready /\ c \notin pending
  BY DEF SessionInv, OneOperationPerSession
<1>5. Work' = Work \ {c}
  BY <1>1, <1>4 DEF Work
<1>6. OneOperationPerSession'
  BY <1>1, <1>3, <1>5 DEF SessionInv, OneOperationPerSession
<1>7. OnlySilentAreStranded'
  BY <1>1, <1>3, <1>5 DEF SessionInv, OnlySilentAreStranded
<1>8. AcceptorArmed' /\ AcceptingNotGone'
  BY <1>1, <1>2, <1>5 DEF SessionInv, AcceptorArmed, AcceptingNotGone
<1> QED
  BY <1>1, <1>3, <1>6, <1>7, <1>8 DEF SessionInv

\* An exception that ends the process.
LEMMA TerminatesSessions ==
    ASSUME SessionInv, NEW c \in running, c.op # "accept", Returns(c), Terminates
    PROVE  SessionInv'
<1>1. /\ running' = running \ {c}
      /\ up' = FALSE
      /\ UNCHANGED <<live, pending, ready, gone, silent>>
  BY DEF Returns, Terminates
<1>2. Work' \subseteq Work
  BY <1>1 DEF Work
<1>3. OneOperationPerSession'
  BY <1>1, <1>2 DEF SessionInv, OneOperationPerSession
<1>4. OnlySilentAreStranded' /\ AcceptorArmed' /\ AcceptingNotGone'
  BY <1>1, <1>2 DEF SessionInv, OnlySilentAreStranded, AcceptorArmed, AcceptingNotGone
<1> QED
  BY <1>1, <1>3, <1>4 DEF SessionInv

\* handle_accept: the accepted session goes on to its handshake, or is
\* deleted, and a session that has no work takes its place at the acceptor.
LEMMA AcceptSessions ==
    ASSUME SessionInv, NEW c \in running, HandleAccept(c)
    PROVE  SessionInv'
<1>1. c \in Work /\ c \in Completion /\ c.op = "accept" /\ up
  BY DEF Work, SessionInv, HandleAccept
<1>2. c.s \in live /\ \A w \in Work : w # c => w.s # c.s
  BY <1>1, OthersElsewhere
<1>3. c \notin ready /\ c \notin pending
  BY DEF SessionInv, OneOperationPerSession
<1>4. c.s \notin silent /\ c.s \notin gone
  BY <1>1, <1>2 DEF SessionInv, OnlySilentAreStranded, AcceptingNotGone
<1>5. \A w \in Work : w # c => w.op # "accept"
  BY <1>1 DEF SessionInv, AcceptorArmed
<1>6. running' = running \ {c} /\ UNCHANGED <<ready, gone, silent>> /\ up' \in BOOLEAN
  BY DEF HandleAccept
<1>7. CASE c.res = "ok"
  <2>1. PICK next \in Session \ live :
          /\ live' = live \cup {next}
          /\ pending' = pending \cup {[s |-> next, op |-> "accept"]}
                                \cup {[s |-> c.s, op |-> "handshake"]}
    BY <1>7 DEF HandleAccept, Rearm
  <2> DEFINE a == [s |-> next, op |-> "accept"]
             h == [s |-> c.s, op |-> "handshake"]
  <2>2. /\ a \in PendingOp /\ a.s = next /\ a.op = "accept"
        /\ h \in PendingOp /\ h.s = c.s /\ h.op # "accept"
    BY <1>1 DEF PendingOp, Completion, Op
  <2>3. pending' = pending \cup {a, h}
    BY <2>1
  <2> HIDE DEF a, h
  <2>4. Work' = (Work \ {c}) \cup {a, h}
    BY <1>3, <1>6, <2>3 DEF Work
  <2>5. \A w \in Work : w.s \in live /\ w.s # next
    BY DEF SessionInv, OneOperationPerSession
  <2>6. c.s # next /\ next \notin gone /\ next \notin silent
    BY <1>2 DEF SessionInv
  <2>7. /\ a \notin ready /\ a \notin running'
        /\ h \notin ready /\ h \notin running'
    BY <1>2, <1>3, <1>6, <2>2, <2>5 DEF Work
  <2>8. OneOperationPerSession'
    BY <1>2, <1>6, <2>1, <2>2, <2>3, <2>4, <2>5, <2>6, <2>7
       DEF SessionInv, OneOperationPerSession
  <2>9. OnlySilentAreStranded'
    BY <1>1, <1>2, <1>4, <1>6, <2>1, <2>2, <2>4, <2>6 DEF SessionInv, OnlySilentAreStranded
  <2>10. AcceptorArmed'
    BY <1>5, <2>2, <2>4 DEF AcceptorArmed
  <2>11. AcceptingNotGone'
    BY <1>5, <1>6, <2>2, <2>4, <2>6 DEF AcceptingNotGone
  <2> QED
    BY <1>6, <2>1, <2>2, <2>3, <2>8, <2>9, <2>10, <2>11 DEF SessionInv
<1>8. CASE c.res # "ok"
  <2>1. PICK next \in (Session \ live) \cup {c.s} :
          /\ live' = (live \ {c.s}) \cup {next}
          /\ pending' = pending \cup {[s |-> next, op |-> "accept"]} \cup {}
    BY <1>8 DEF HandleAccept, Rearm
  <2> DEFINE a == [s |-> next, op |-> "accept"]
  <2>2. next \in Session
    BY <1>1 DEF Completion
  <2>3. a \in PendingOp /\ a.s = next /\ a.op = "accept"
    BY <2>2 DEF PendingOp, Op
  <2>4. pending' = pending \cup {a}
    BY <2>1
  <2> HIDE DEF a
  <2>5. Work' = (Work \ {c}) \cup {a}
    BY <1>3, <1>6, <2>4 DEF Work
  <2>6. \A w \in Work \ {c} : w.s \in live \ {c.s} /\ w.s # next
    BY <1>2, <2>1 DEF SessionInv, OneOperationPerSession
  <2>7. next \notin gone /\ next \notin silent
    BY <1>4, <2>1 DEF SessionInv
  <2>8. a \notin ready /\ a \notin running'
    BY <1>3, <1>6, <2>3, <2>6 DEF Work
  <2>9. OneOperationPerSession'
    BY <1>6, <2>1, <2>3, <2>4, <2>5, <2>6, <2>8 DEF SessionInv, OneOperationPerSession
  <2>10. OnlySilentAreStranded'
    BY <1>1, <1>2, <1>6, <2>1, <2>3, <2>5, <2>7 DEF SessionInv, OnlySilentAreStranded
  <2>11. AcceptorArmed'
    BY <1>5, <2>3, <2>5 DEF AcceptorArmed
  <2>12. AcceptingNotGone'
    BY <1>5, <1>6, <2>3, <2>5, <2>7 DEF AcceptingNotGone
  <2> QED
    BY <1>4, <1>6, <2>1, <2>2, <2>3, <2>4, <2>9, <2>10, <2>11, <2>12 DEF SessionInv
<1> QED
  BY <1>7, <1>8

-----------------------------------------------------------------------------

LEMMA NextServerInv == ServerInv /\ [Next]_vars => ServerInv'
<1> SUFFICES ASSUME ServerInv, [Next]_vars PROVE ServerInv'
  OBVIOUS
<1>s. SessionInv
  BY InvParts
<1>p. (ServerInv <=> /\ SessionInv
                     /\ number_threads \in Threads
                     /\ idle \in Nat
                     /\ blocked \in Nat
                     /\ IsFiniteSet(running)
                     /\ ThreadAccounting)'
  BY InvParts, PTL
<1>0. CASE UNCHANGED vars
  BY <1>0 DEF vars, ServerInv, TypeOK, OneOperationPerSession, OnlySilentAreStranded, Work,
              AcceptorArmed, AcceptingNotGone, ThreadAccounting, Runners
<1> SUFFICES ASSUME UNCHANGED number_threads, Next PROVE ServerInv'
  BY <1>0 DEF Next
<1>n. number_threads' \in Threads
  BY DEF ServerInv, TypeOK
<1>1. ASSUME NEW p \in pending, NEW res \in {"ok", "error", "partial"}, Complete(p, res)
      PROVE  ServerInv'
  <2>1. SessionInv'
    BY <1>s, <1>1, CompleteSessions
  <2>2. UNCHANGED <<running, idle, blocked>>
    BY <1>1 DEF Complete
  <2> QED
    BY <1>n, <1>p, <2>1, <2>2, InvParts DEF ThreadAccounting, Runners
<1>2. ASSUME NEW s \in Session, PeerReset(s)
      PROVE  ServerInv'
  <2>1. SessionInv'
    BY <1>s, <1>2, ResetSessions
  <2>2. UNCHANGED <<running, idle, blocked>>
    BY <1>2 DEF PeerReset
  <2> QED
    BY <1>n, <1>p, <2>1, <2>2, InvParts DEF ThreadAccounting, Runners
<1>3. ASSUME NEW c \in ready, Dispatch(c)
      PROVE  ServerInv'
  <2>1. SessionInv'
    BY <1>s, <1>3, DispatchSessions
  <2>2. blocked' = blocked
    BY <1>3 DEF Dispatch
  <2> QED
    BY <1>n, <1>p, <1>3, <2>1, <2>2, InvParts, DispatchThreads
<1>4. ASSUME NEW c \in running, HandleAccept(c)
      PROVE  ServerInv'
  <2>1. SessionInv'
    BY <1>s, <1>4, AcceptSessions
  <2> QED
    BY <1>n, <1>p, <1>4, <2>1, AcceptThreads
<1>5. ASSUME NEW c \in running, HandleHandshake(c) \/ HandleWrite(c)
      PROVE  ServerInv'
  <2>1. Returns(c) /\ c.op # "accept" /\ (Starts(c.s, "read") \/ Deletes(c.s))
    BY <1>5 DEF HandleHandshake, HandleWrite
  <2>2. SessionInv'
    BY <1>s, <2>1, StartsSessions, DeletesSessions
  <2> QED
    BY <1>n, <1>p, <2>1, <2>2, ReturnsThreads
<1>6. ASSUME NEW c \in running, HandleRequest(c)
      PROVE  ServerInv'
  <2>1. Returns(c) /\ c.op # "accept" /\ (Starts(c.s, "write") \/ Terminates)
    BY <1>6 DEF HandleRequest
  <2>2. SessionInv'
    BY <1>s, <2>1, StartsSessions, TerminatesSessions
  <2> QED
    BY <1>n, <1>p, <2>1, <2>2, ReturnsThreads
<1>7. ASSUME NEW c \in running, HandleReadError(c)
      PROVE  ServerInv'
  <2>1. /\ Returns(c) /\ c.op # "accept"
        /\ \/ Starts(c.s, "write")
           \/ silent' = silent \cup {c.s} /\ UNCHANGED <<live, pending, gone, up>>
    BY <1>7 DEF HandleReadError
  <2>2. SessionInv'
    BY <1>s, <2>1, StartsSessions, StrandsSessions
  <2> QED
    BY <1>n, <1>p, <2>1, <2>2, ReturnsThreads
<1> QED
  BY <1>1, <1>2, <1>3, <1>4, <1>5, <1>6, <1>7 DEF Next, Handle

LEMMA ServerInvariant == Spec => []ServerInv
BY InitServerInv, NextServerInv, PTL DEF Spec

\* The server's sets and counters keep their types for every number of
\* sessions and threads.
THEOREM ServerTypeCorrect == Spec => []TypeOK
<1>1. ServerInv => TypeOK
  BY DEF ServerInv
<1> QED
  BY <1>1, ServerInvariant, PTL

\* No completion reaches a deleted session and no two threads are in handlers
\* of one session, for any number of threads and without a strand.
THEOREM NoSharedSession == Spec => []OneOperationPerSession
<1>1. ServerInv => OneOperationPerSession
  BY DEF ServerInv
<1> QED
  BY <1>1, ServerInvariant, PTL

\* Only handle_read with an error and no bytes leaves a live session behind.
THEOREM NoOtherStranded == Spec => []OnlySilentAreStranded
<1>1. ServerInv => OnlySilentAreStranded
  BY DEF ServerInv
<1> QED
  BY <1>1, ServerInvariant, PTL

\* While the process runs, start_accept has armed the acceptor once.
THEOREM AlwaysAccepting == Spec => []AcceptorArmed
<1>1. ServerInv => AcceptorArmed
  BY DEF ServerInv
<1> QED
  BY <1>1, ServerInvariant, PTL

\* The threads in io_service::run, counted from those that start_accept keeps
\* in its joins.
THEOREM ThreadsAccounted == Spec => []ThreadAccounting
<1>1. ServerInv => ThreadAccounting
  BY DEF ServerInv
<1> QED
  BY <1>1, ServerInvariant, PTL

\* The joins of start_accept never take the last thread.
THEOREM NeverAllBlocked == Spec => []SomeoneRuns
<1>1. ASSUME ServerInv PROVE SomeoneRuns
  <2>1. number_threads \in Nat /\ blocked \in Nat /\ ThreadAccounting
    BY <1>1, ThreadsAssumption DEF ServerInv, TypeOK
  <2>2. CASE number_threads = 0
    BY <2>1, <2>2 DEF ThreadAccounting, SomeoneRuns
  <2>3. CASE number_threads # 0
    <3>1. blocked >= 1 /\ Runners = number_threads + (number_threads - 1) * (blocked - 1)
      BY <2>1, <2>3 DEF ThreadAccounting
    <3>2. \A m, n \in Nat : m * n \in Nat
      OBVIOUS
    <3>3. (number_threads - 1) * (blocked - 1) \in Nat
      BY <2>1, <2>3, <3>1, <3>2
    <3> QED
      BY <2>1, <2>3, <3>1, <3>3 DEF SomeoneRuns
  <2> QED
    BY <2>2, <2>3
<1> QED
  BY <1>1, ServerInvariant, PTL

\* With at most one thread configured no two handlers overlap, however many
\* threads handle_accept has added to the process.
THEOREM HandlersDoNotOverlap == Spec => []OneHandlerAtATime
<1>1. ASSUME ServerInv PROVE OneHandlerAtATime
  <2>1. /\ number_threads \in Nat /\ blocked \in Nat /\ idle \in Nat /\ ThreadAccounting
        /\ Cardinality(running) \in Nat
    BY <1>1, ThreadsAssumption, FS_CardinalityType DEF ServerInv, TypeOK
  <2>2. CASE number_threads = 0
    BY <2>1, <2>2 DEF ThreadAccounting, Runners, OneHandlerAtATime
  <2>3. CASE number_threads = 1
    <3>1. Runners = 1
      BY <2>1, <2>3 DEF ThreadAccounting
    <3> QED
      BY <2>1, <3>1 DEF Runners, OneHandlerAtATime
  <2> QED
    BY <2>1, <2>2, <2>3 DEF OneHandlerAtATime
<1> QED
  BY <1>1, ServerInvariant, PTL
=============================================================================

------------------------------ MODULE CoroServer ------------------------------
(***************************************************************************)
(* The coroutine server of server.cpp: threads that run handlers of one    *)
(* boost::asio::io_service, an accept loop, and a coroutine for every      *)
(* connection that reads a request and writes a reply until an operation   *)
(* fails.                                                                  *)
(*                                                                         *)
(* A coroutine leaves its thread in defer, with a handler the thread has   *)
(* still to call; this handler starts the operation, and whichever thread  *)
(* takes the completion resumes the coroutine.  The actions below are the  *)
(* stretches a thread executes between two points at which another thread  *)
(* can see or change something.  Reads and writes are one operation each,  *)
(* however many pieces they come in.                                       *)
(***************************************************************************)
EXTENDS Integers, FiniteSets, Sequences

CONSTANTS Thread,      \* the threads dispatch starts, and
          Main,        \* among them the one that called bind
          Conn,        \* bound: connections clients make, and their coroutines
          Acceptor,    \* the coroutine of the accept loop
          None

ASSUME ThreadAssumption == IsFiniteSet(Thread) /\ Main \in Thread
ASSUME ConnAssumption   == IsFiniteSet(Conn) /\ Acceptor \notin Conn
ASSUME NoneAssumption   == None \notin Conn \cup {Acceptor, "accept", "read", "write"}

Coro == Conn \cup {Acceptor}

VARIABLES
  \* each thread
  phase,               \* where it is
  coro,                \* the coroutine its handler is about
  t_deferHandler,      \* the operation the deferred handler starts, or None
  t_error,             \* t_error # nullptr
  \* each coroutine, as sets
  allocated,           \* new and not yet deleted
  started, running,    \* its two flags
  exc,                 \* an exception left its handler
  at,                  \* the operation it waits for, or waited for last
  \* the io_service
  ready,               \* handlers that can run
  ops,                 \* operations that were started and have not completed
  \* the rest
  up,                  \* the process lives
  accepted,            \* connections that were accepted
  failed               \* history: coroutines one of whose operations failed

threadVars  == <<phase, coro, t_deferHandler, t_error>>
coroVars    == <<allocated, started, running, exc, at>>
serviceVars == <<ready, ops>>
vars        == <<threadVars, coroVars, serviceVars, up, accepted, failed>>

GoHandler(c) == [kind |-> "go", coro |-> c]
Completion(c, error, conn) ==
  [kind |-> "complete", coro |-> c, error |-> error, conn |-> conn]

TypeOK ==
  /\ phase \in [Thread -> {"poll", "inside", "yielded", "left", "deferring", "gone"}]
  /\ coro \in [Thread -> Coro \cup {None}]
  /\ t_deferHandler \in [Thread -> {"accept", "read", "write", None}]
  /\ t_error \in [Thread -> BOOLEAN]
  /\ allocated \subseteq Coro /\ exc \subseteq Coro
  /\ started \subseteq allocated /\ running \subseteq allocated
  /\ at \in [Coro -> {"start", "accept", "read", "write", "end"}]
  /\ ready \in Seq([kind : {"go"}, coro : Coro]
                   \cup [kind : {"complete"}, coro : Coro, error : BOOLEAN,
                         conn : Conn \cup {None}])
  /\ ops \subseteq [coro : Coro, kind : {"accept", "read", "write"}]
  /\ up \in BOOLEAN
  /\ accepted \subseteq Conn /\ failed \subseteq Coro

\* bind has posted the accept loop, and dispatch has all threads in run.
Init ==
  /\ phase = [t \in Thread |-> "poll"]
  /\ coro = [t \in Thread |-> None]
  /\ t_deferHandler = [t \in Thread |-> None]
  /\ t_error = [t \in Thread |-> FALSE]
  /\ allocated = {} /\ started = {} /\ running = {} /\ exc = {}
  /\ at = [c \in Coro |-> "start"]
  /\ ready = <<GoHandler(Acceptor)>> /\ ops = {}
  /\ up = TRUE /\ accepted = {} /\ failed = {}

-----------------------------------------------------------------------------
(* The io_service: operations complete, threads take handlers              *)

\* A client connects, and the accept completes.
AcceptCompletes(conn) ==
  /\ [coro |-> Acceptor, kind |-> "accept"] \in ops
  /\ conn \notin accepted
  /\ accepted' = accepted \cup {conn}
  /\ ops' = ops \ {[coro |-> Acceptor, kind |-> "accept"]}
  /\ ready' = Append(ready, Completion(Acceptor, FALSE, conn))
  /\ UNCHANGED <<threadVars, coroVars, up, failed>>

\* A read gets a whole request, a write sends the whole reply.
TransferCompletes(o) ==
  /\ o \in ops /\ o.kind \in {"read", "write"}
  /\ ops' = ops \ {o}
  /\ ready' = Append(ready, Completion(o.coro, FALSE, None))
  /\ UNCHANGED <<threadVars, coroVars, up, accepted, failed>>

\* The client goes away, or the system is out of descriptors.
OperationFails(o) ==
  /\ o \in ops
  /\ ops' = ops \ {o}
  /\ ready' = Append(ready, Completion(o.coro, TRUE, None))
  /\ failed' = failed \cup {o.coro}
  /\ UNCHANGED <<threadVars, coroVars, up, accepted>>

Enter(t, c) ==
  /\ phase' = [phase EXCEPT ![t] = "inside"]
  /\ coro' = [coro EXCEPT ![t] = c]
  /\ running' = running \cup {c}

\* The handler of go: a new coroutine, which is started.
TakeGo(t) ==
  /\ phase[t] = "poll" /\ ready # <<>> /\ Head(ready).kind = "go"
  /\ LET c == Head(ready).coro
     IN /\ Enter(t, c)
        /\ allocated' = allocated \cup {c}
        /\ started' = started \cup {c}
  /\ ready' = Tail(ready)
  /\ UNCHANGED <<t_deferHandler, t_error, exc, at, ops, up, accepted, failed>>

\* mutant: an error stays until the next error
ErrorOfKept(t, h) == h.error \/ t_error[t]
ErrorOf(t, h) == h.error

\* mutant: the connection is not posted
PostedNever(h) == <<>>
\* onCompleteGoHandler posts the new connection.
Posted(h) == IF h.coro = Acceptor /\ ~h.error THEN <<GoHandler(h.conn)>> ELSE <<>>

\* onComplete: the coroutine is resumed, on whichever thread this is.
TakeCompletion(t) ==
  /\ phase[t] = "poll" /\ ready # <<>> /\ Head(ready).kind = "complete"
  /\ LET h == Head(ready)
     IN /\ Enter(t, h.coro)
        /\ t_error' = [t_error EXCEPT ![t] = ErrorOf(t, h)]
        /\ ready' = Tail(ready) \o Posted(h)
  /\ UNCHANGED <<t_deferHandler, allocated, started, exc, at, ops, up, accepted, failed>>

\* run returns when the service has nothing left to wait for; when it returns
\* in the main thread, bind does too and the program ends.
RunReturns(t) ==
  /\ phase[t] = "poll"
  /\ ready = <<>> /\ ops = {}
  /\ \A u \in Thread : phase[u] \in {"poll", "gone"}
  /\ phase' = [phase EXCEPT ![t] = "gone"]
  /\ up' = (t # Main)
  /\ UNCHANGED <<coro, t_deferHandler, t_error, coroVars, serviceVars, accepted, failed>>

-----------------------------------------------------------------------------
(* Inside a coroutine                                                      *)

\* defer: the handler is left to the thread, and the coroutine yields.
Defer(t, kind) ==
  /\ t_deferHandler' = [t_deferHandler EXCEPT ![t] = kind]
  /\ UNCHANGED ops
  /\ at' = [at EXCEPT ![coro[t]] = kind]
  /\ phase' = [phase EXCEPT ![t] = "yielded"]

\* handleError throws, once the coroutine has been resumed.
Fails(t) == at[coro[t]] # "start" /\ t_error[t]

\* goAccept, round after round.
AcceptNext(t) ==
  /\ phase[t] = "inside" /\ coro[t] = Acceptor /\ ~Fails(t)
  /\ Defer(t, "accept")
  /\ UNCHANGED <<coro, t_error, allocated, started, running, exc, ready, up,
                 accepted, failed>>

\* The accept loop does not catch the error: starter0 does, and keeps it.
AcceptFails(t) ==
  /\ phase[t] = "inside" /\ coro[t] = Acceptor /\ Fails(t)
  /\ exc' = exc \cup {Acceptor}
  /\ started' = started \ {Acceptor}
  /\ phase' = [phase EXCEPT ![t] = "yielded"]
  /\ UNCHANGED <<coro, t_deferHandler, t_error, allocated, running, at, serviceVars,
                 up, accepted, failed>>

\* A connection's loop: readUntil, write, readUntil ...
SessionNext(t) ==
  /\ phase[t] = "inside" /\ coro[t] \in Conn /\ ~Fails(t)
  /\ Defer(t, IF at[coro[t]] = "read" THEN "write" ELSE "read")
  /\ UNCHANGED <<coro, t_error, allocated, started, running, exc, ready, up,
                 accepted, failed>>

\* mutant: starter0 does not reset its flag
SessionEndsStarted(t) ==
  /\ phase[t] = "inside" /\ coro[t] \in Conn /\ Fails(t)
  /\ at' = [at EXCEPT ![coro[t]] = "end"]
  /\ phase' = [phase EXCEPT ![t] = "yielded"]
  /\ UNCHANGED <<coro, t_deferHandler, t_error, allocated, started, running, exc,
                 serviceVars, up, accepted, failed>>
\* mutant: the connection's handler does not catch the error
SessionEndsThrowing(t) ==
  /\ phase[t] = "inside" /\ coro[t] \in Conn /\ Fails(t)
  /\ started' = started \ {coro[t]}
  /\ exc' = exc \cup {coro[t]}
  /\ at' = [at EXCEPT ![coro[t]] = "end"]
  /\ phase' = [phase EXCEPT ![t] = "yielded"]
  /\ UNCHANGED <<coro, t_deferHandler, t_error, allocated, running, serviceVars,
                 up, accepted, failed>>
\* ... until it catches an error and returns.
SessionEnds(t) ==
  /\ phase[t] = "inside" /\ coro[t] \in Conn /\ Fails(t)
  /\ started' = started \ {coro[t]}
  /\ at' = [at EXCEPT ![coro[t]] = "end"]
  /\ phase' = [phase EXCEPT ![t] = "yielded"]
  /\ UNCHANGED <<coro, t_deferHandler, t_error, allocated, running, exc, serviceVars,
                 up, accepted, failed>>

-----------------------------------------------------------------------------
(* Back in the thread                                                      *)

\* The end of jump0.
Leave(t) ==
  /\ phase[t] = "yielded" /\ coro[t] \notin exc
  /\ running' = running \ {coro[t]}
  /\ phase' = [phase EXCEPT ![t] = "left"]
  /\ UNCHANGED <<coro, t_deferHandler, t_error, allocated, started, exc, at,
                 serviceVars, up, accepted, failed>>

\* jump0 throws the exception again, out of resume and run.  goSync catches it
\* and the thread ends; nobody catches it in the main thread.
Rethrow(t) ==
  /\ phase[t] = "yielded" /\ coro[t] \in exc
  /\ running' = running \ {coro[t]}
  /\ phase' = [phase EXCEPT ![t] = "gone"]
  /\ up' = (t # Main)
  /\ UNCHANGED <<coro, t_deferHandler, t_error, allocated, started, exc, at,
                 serviceVars, accepted, failed>>

\* mutant: the handler that write defers does not start an operation
StartOperationLost(t) ==
  /\ phase[t] = "left" /\ t_deferHandler[t] # None
  /\ ops' = ops \cup {o \in [coro : {coro[t]}, kind : {t_deferHandler[t]}] : o.kind # "write"}
  /\ phase' = [phase EXCEPT ![t] = "deferring"]
  /\ UNCHANGED <<coro, t_deferHandler, t_error, coroVars, ready, up, accepted, failed>>
\* onCoroComplete calls the deferred handler, which starts the operation ...
StartOperation(t) ==
  /\ phase[t] = "left" /\ t_deferHandler[t] # None
  /\ ops' = ops \cup {[coro |-> coro[t], kind |-> t_deferHandler[t]]}
  /\ phase' = [phase EXCEPT ![t] = "deferring"]
  /\ UNCHANGED <<coro, t_deferHandler, t_error, coroVars, ready, up, accepted, failed>>

\* mutant: the deferred handler stays
FinishDeferKept(t) ==
  /\ phase[t] = "deferring"
  /\ phase' = [phase EXCEPT ![t] = "poll"]
  /\ coro' = [coro EXCEPT ![t] = None]
  /\ UNCHANGED <<t_deferHandler, t_error, coroVars, serviceVars, up, accepted, failed>>
\* ... and forgets it.  The coroutine may be on another thread by now, or gone.
FinishDefer(t) ==
  /\ phase[t] = "deferring"
  /\ t_deferHandler' = [t_deferHandler EXCEPT ![t] = None]
  /\ phase' = [phase EXCEPT ![t] = "poll"]
  /\ coro' = [coro EXCEPT ![t] = None]
  /\ UNCHANGED <<t_error, coroVars, serviceVars, up, accepted, failed>>

\* onCoroComplete deletes a coroutine that has ended.
DeleteCoro(t) ==
  /\ phase[t] = "left" /\ t_deferHandler[t] = None
  /\ allocated' = allocated \ {coro[t]}
  /\ phase' = [phase EXCEPT ![t] = "poll"]
  /\ coro' = [coro EXCEPT ![t] = None]
  /\ UNCHANGED <<t_deferHandler, t_error, started, running, exc, at, serviceVars,
                 up, accepted, failed>>

-----------------------------------------------------------------------------
ThreadStep(t) ==
  /\ up
  /\ \/ TakeGo(t) \/ TakeCompletion(t) \/ RunReturns(t)
     \/ AcceptNext(t) \/ AcceptFails(t) \/ SessionNext(t) \/ SessionEnds(t)
     \/ Leave(t) \/ Rethrow(t)
     \/ StartOperation(t) \/ FinishDefer(t) \/ DeleteCoro(t)

NetworkStep ==
  /\ up
  /\ \/ \E conn \in Conn : AcceptCompletes(conn)
     \/ \E o \in ops : TransferCompletes(o) \/ OperationFails(o)

Next == NetworkStep \/ \E t \in Thread : ThreadStep(t)

\* Every thread keeps running; what clients and network do is up to them.
Spec == Init /\ [][Next]_vars /\ \A t \in Thread : WF_vars(ThreadStep(t))

-----------------------------------------------------------------------------
(* Properties                                                              *)

Inside(t)   == phase[t] \in {"inside", "yielded"}
Handling(t) == phase[t] \in {"inside", "yielded", "left"}
Waiting(c)  == \E o \in ops : o.coro = c
Resuming(c) == {i \in DOMAIN ready : ready[i].kind = "complete" /\ ready[i].coro = c}
Starting(c) == {i \in DOMAIN ready : ready[i].kind = "go" /\ ready[i].coro = c}

\* The assertions (VERIFY) of resume, defer and onCoroComplete, at whatever
\* moment a thread gets to them: a completion that is ready finds its coroutine
\* suspended, in whatever thread it was; a thread that enters a coroutine has no
\* deferred handler left; a coroutine that left its thread has ended or has
\* left a handler, not both.
VerifyHolds ==
  /\ \A c \in Coro : Resuming(c) # {} => c \in started \ running
  /\ \A t \in Thread : phase[t] \in {"poll", "inside"} => t_deferHandler[t] = None
  /\ \A t \in Thread : phase[t] = "left" =>
       (coro[t] \in started \cup running <=> t_deferHandler[t] # None)

\* A coroutine is never lost or doubled: one that exists, and has not failed for
\* good, is in the hands of exactly one thread, operation or completion; one
\* that was deleted is in nobody's, and every connection that was accepted gets
\* one coroutine, once.
NeverLost ==
  up =>
    /\ \A c \in Coro :
         LET holders == Cardinality({t \in Thread : Handling(t) /\ coro[t] = c})
                          + Cardinality({o \in ops : o.coro = c})
                          + Cardinality(Resuming(c))
         IN holders = IF c \in allocated \ exc THEN 1
                      ELSE IF c \in exc /\ c \in running THEN 1 ELSE 0
    /\ \A c \in Conn :
         /\ Cardinality(Starting(c)) <= 1
         /\ Starting(c) # {} => c \in accepted /\ c \notin allocated /\ at[c] = "start"
         /\ c \in accepted /\ at[c] = "start" =>
              \/ Starting(c) # {} \/ c \in running
              \/ \E i \in Resuming(Acceptor) : ready[i].conn = c

\* A connection ends, and the accept loop fails, only when an operation of its
\* own failed, not by an error some other coroutine left on the thread.
EndsByOwnError ==
  /\ \A c \in Conn : at[c] = "end" => c \in failed
  /\ exc # {} => Acceptor \in failed

\* Clients that go away cost no thread: before the service runs out of work at
\* most one thread is gone, the one that took the failed accept.
ThreadsSurvive ==
  \/ ready = <<>> /\ ops = {}
  \/ Cardinality({t \in Thread : phase[t] = "gone"}) <= IF Acceptor \in exc THEN 1 ELSE 0

\* Whatever the service has ready gets its turn, also after threads were lost
\* and however busy other connections are: the coroutine waits for its next
\* operation or ends, or the process is gone.
Settled(c) == Waiting(c) \/ at[c] = "end" \/ c \in exc
EveryHandlerRuns ==
  \A c \in Coro : (Resuming(c) # {} \/ Starting(c) # {}) ~> (Settled(c) \/ ~up)
=============================================================================

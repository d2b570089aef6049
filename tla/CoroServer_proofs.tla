--------------------------- MODULE CoroServer_proofs ---------------------------
(***************************************************************************)
(* The safety of CoroServer, for any number of threads and connections.    *)
(*                                                                         *)
(* Every coroutine that exists is held by exactly one of: a thread that    *)
(* handles it, an operation that was started for it, and a completion that *)
(* is ready.  What the holder may assume of the coroutine's flags, of the  *)
(* operation it waits for and of the deferred handler is the inductive     *)
(* invariant below.                                                        *)
(***************************************************************************)
EXTENDS CoroServer, TLAPS, FiniteSetTheorems, SequenceTheorems

USE ThreadAssumption, ConnAssumption, NoneAssumption

\* The handlers in a queue, and that no two of them are for one coroutine.
Handler == [kind : {"go"}, coro : Coro]
           \cup [kind : {"complete"}, coro : Coro, error : BOOLEAN, conn : Conn \cup {None}]
Elements(q)  == {q[i] : i \in DOMAIN q}
OnePerCoro(q) == \A i, j \in DOMAIN q : q[i].coro = q[j].coro => i = j

Started(c) == \E h \in Elements(ready) : h.kind = "go" /\ h.coro = c
Resumed(c) == \E h \in Elements(ready) : h.kind = "complete" /\ h.coro = c
Announced(c) == \E h \in Elements(ready) :
                  h.kind = "complete" /\ h.coro = Acceptor /\ ~h.error /\ h.conn = c

\* What a thread knows of the coroutine it handles, at each of its stops.
ThreadInv(t) ==
  LET c == coro[t]
      d == t_deferHandler[t]
  IN /\ phase[t] \in {"poll", "inside", "gone"} => d = None
     /\ phase[t] = "deferring" => d # None
     /\ phase[t] = "inside" =>
          /\ c \in (started \cap running) \ exc /\ at[c] # "end"
          /\ at[c] # "start" /\ t_error[t] => c \in failed
     /\ phase[t] = "yielded" =>
          /\ c \in running /\ at[c] # "start"
          /\ \/ d = None /\ c \notin started /\ (c \in exc \/ at[c] = "end")
             \/ d # None /\ c \in started \ exc /\ at[c] = d
     /\ phase[t] = "left" =>
          /\ c \in allocated \ (running \cup exc) /\ at[c] # "start"
          /\ \/ d = None /\ c \notin started /\ at[c] = "end"
             \/ d # None /\ c \in started /\ at[c] = d

ThreadsInv == \A t \in Thread : ThreadInv(t)

\* Where each coroutine can be, and how it got there.
CorosInv ==
  /\ at[Acceptor] \in {"start", "accept"}
  /\ exc \subseteq {Acceptor} \cap failed
  /\ \A c \in Conn :
       /\ at[c] # "accept"
       /\ at[c] = "end" => c \in failed
       /\ c \notin accepted => c \notin allocated /\ at[c] = "start"
       /\ c \in accepted /\ at[c] = "start" => Started(c) \/ c \in running \/ Announced(c)

\* An operation is the one its coroutine waits for.
OpsInv == \A o \in ops :
            o.coro \in started \ (running \cup exc) /\ o.kind = at[o.coro]

\* A completion finds its coroutine suspended; a go handler finds none yet.
ReadyInv ==
  /\ OnePerCoro(ready)
  /\ \A h \in Elements(ready) : h.kind = "complete" =>
       /\ h.coro \in started \ (running \cup exc)
       /\ at[h.coro] \notin {"start", "end"}
       /\ h.error => h.coro \in failed
       /\ h.coro = Acceptor /\ ~h.error =>
            h.conn \in accepted \ allocated /\ at[h.conn] = "start" /\ ~Started(h.conn)
  /\ \A h \in Elements(ready) : h.kind = "go" =>
       /\ h.coro \in (accepted \cup {Acceptor}) \ (allocated \cup exc)
       /\ at[h.coro] = "start"

\* No coroutine has two holders, ...
OneHolder ==
  /\ \A t, u \in Thread : Handling(t) /\ Handling(u) /\ coro[t] = coro[u] => t = u
  /\ \A t \in Thread : Handling(t) => ~Waiting(coro[t]) /\ ~Resumed(coro[t])
  /\ \A c \in Coro : ~(Waiting(c) /\ Resumed(c))

\* ... and each that can still go on has one.
SomeHolder ==
  /\ \A c \in allocated \ exc :
       (\E t \in Thread : Handling(t) /\ coro[t] = c) \/ Waiting(c) \/ Resumed(c)
  /\ \A c \in exc \cap running : \E t \in Thread : Handling(t) /\ coro[t] = c

\* A thread is gone after the service ran out of work, which it stays, or
\* because it rethrew the accept loop's error, which one thread does.
OutOfWork ==
  ready = <<>> /\ ops = {} /\ \A t \in Thread : phase[t] \in {"poll", "gone"}
GoneInv ==
  \/ OutOfWork
  \/ \A t \in Thread : phase[t] = "gone" =>
       /\ Acceptor \in exc \ running
       /\ \A u \in Thread : phase[u] = "gone" => u = t

IInv == /\ TypeOK /\ ThreadsInv /\ CorosInv /\ OpsInv /\ ReadyInv
        /\ OneHolder /\ SomeHolder /\ GoneInv

-----------------------------------------------------------------------------
(* Lemmas about queues and sets                                            *)

\* A handler that is appended joins the elements, and the queue stays one with
\* a handler per coroutine when it had none for this one.
LEMMA AppendElements ==
  ASSUME NEW q \in Seq(Handler), NEW h \in Handler
  PROVE  /\ Append(q, h) \in Seq(Handler)
         /\ Append(q, h) # <<>>
         /\ Elements(Append(q, h)) = Elements(q) \cup {h}
         /\ OnePerCoro(q) /\ (\A g \in Elements(q) : g.coro # h.coro)
              => OnePerCoro(Append(q, h))
<1>1. /\ Len(q) \in Nat /\ DOMAIN q = 1 .. Len(q)
      /\ Append(q, h) \in Seq(Handler) /\ Append(q, h) # <<>>
      /\ DOMAIN Append(q, h) = 1 .. Len(q) + 1
      /\ \A i \in 1 .. Len(q) : Append(q, h)[i] = q[i]
      /\ Append(q, h)[Len(q) + 1] = h
  BY LenProperties, AppendProperties
<1>2. \A i \in 1 .. Len(q) + 1 : i \in 1 .. Len(q) \/ i = Len(q) + 1
  BY <1>1
<1>3. 1 .. Len(q) \subseteq 1 .. Len(q) + 1 /\ Len(q) + 1 \in 1 .. Len(q) + 1
  BY <1>1
<1>4. Elements(Append(q, h)) = Elements(q) \cup {h}
  BY <1>1, <1>2, <1>3, Zenon DEF Elements
<1>5. ASSUME OnePerCoro(q), \A g \in Elements(q) : g.coro # h.coro
      PROVE  OnePerCoro(Append(q, h))
  BY <1>1, <1>2, <1>5, Zenon DEF Elements, OnePerCoro
<1> QED
  BY <1>1, <1>4, <1>5

\* Taking the head leaves the other elements.
LEMMA TailElements ==
  ASSUME NEW q \in Seq(Handler), q # <<>>, OnePerCoro(q)
  PROVE  /\ Head(q) \in Elements(q) /\ Head(q) \in Handler
         /\ Tail(q) \in Seq(Handler)
         /\ Elements(Tail(q)) = Elements(q) \ {Head(q)}
         /\ OnePerCoro(Tail(q))
<1>1. /\ Len(q) \in Nat \ {0} /\ DOMAIN q = 1 .. Len(q)
      /\ Head(q) = q[1] /\ Head(q) \in Handler
      /\ Tail(q) \in Seq(Handler)
      /\ DOMAIN Tail(q) = 1 .. Len(q) - 1
      /\ \A i \in 1 .. Len(q) - 1 : Tail(q)[i] = q[i + 1]
  BY LenProperties, HeadTailProperties, EmptySeq
<1>2. \A i \in 1 .. Len(q) - 1 : i + 1 \in 1 .. Len(q) /\ i + 1 # 1
  BY <1>1
<1>3. \A i \in 1 .. Len(q) : i = 1 \/ \E j \in 1 .. Len(q) - 1 : i = j + 1
  <2> SUFFICES ASSUME NEW i \in 1 .. Len(q), i # 1
               PROVE  \E j \in 1 .. Len(q) - 1 : i = j + 1
    OBVIOUS
  <2>1. i - 1 \in 1 .. Len(q) - 1 /\ i = (i - 1) + 1
    BY <1>1
  <2> QED
    BY <2>1
<1>4. 1 \in 1 .. Len(q)
  BY <1>1
<1>5. \A i \in 1 .. Len(q) : q[i] = q[1] => i = 1
  BY <1>1, <1>4 DEF OnePerCoro
<1>6. Elements(Tail(q)) = Elements(q) \ {Head(q)}
  <2>1. ASSUME NEW h \in Elements(q), h # Head(q)
        PROVE  h \in Elements(Tail(q))
    <3>1. PICK i \in 1 .. Len(q) : h = q[i]
      BY <1>1 DEF Elements
    <3>2. PICK j \in 1 .. Len(q) - 1 : i = j + 1
      BY <1>1, <1>3, <2>1, <3>1
    <3> QED
      BY <1>1, <3>1, <3>2 DEF Elements
  <2>2. ASSUME NEW h \in Elements(Tail(q))
        PROVE  h \in Elements(q) /\ h # Head(q)
    <3>1. PICK j \in 1 .. Len(q) - 1 : h = q[j + 1]
      BY <1>1 DEF Elements
    <3> QED
      BY <1>1, <1>2, <1>5, <3>1 DEF Elements
  <2> QED
    BY <2>1, <2>2
<1>7. OnePerCoro(Tail(q))
  <2> SUFFICES ASSUME NEW i \in 1 .. Len(q) - 1, NEW j \in 1 .. Len(q) - 1,
                      q[i + 1].coro = q[j + 1].coro
               PROVE  i = j
    BY <1>1 DEF OnePerCoro
  <2>1. i + 1 = j + 1
    BY <1>1, <1>2 DEF OnePerCoro
  <2> QED
    BY <2>1, <1>1
<1> QED
  BY <1>1, <1>4, <1>6, <1>7 DEF Elements

\* Each element has a coroutine that no other element has.
LEMMA ElementsDiffer ==
  ASSUME NEW q \in Seq(Handler), OnePerCoro(q),
         NEW g \in Elements(q), NEW h \in Elements(q), g.coro = h.coro
  PROVE  g = h
BY DEF Elements, OnePerCoro

LEMMA ElementsTyped ==
  ASSUME NEW q \in Seq(Handler)
  PROVE  /\ \A h \in Elements(q) : h \in Handler
         /\ q = <<>> <=> Elements(q) = {}
<1>1. Len(q) \in Nat /\ DOMAIN q = 1 .. Len(q) /\ \A i \in 1 .. Len(q) : q[i] \in Handler
  BY LenProperties, ElementOfSeq
<1>2. q # <<>> => 1 \in DOMAIN q
  BY <1>1, EmptySeq
<1>3. q = <<>> => DOMAIN q = {}
  BY <1>1, EmptySeq
<1> QED
  BY <1>1, <1>2, <1>3, Zenon DEF Elements

\* A set with no two elements is empty or a singleton.
LEMMA AtMostOne ==
  ASSUME NEW S, \A x, y \in S : x = y
  PROVE  Cardinality(S) = IF S = {} THEN 0 ELSE 1
<1>1. CASE S = {}
  BY <1>1, FS_EmptySet
<1>2. CASE S # {}
  <2>1. PICK x \in S : TRUE
    BY <1>2
  <2>2. S = {x}
    BY <2>1
  <2> QED
    BY <1>2, <2>2, FS_Singleton
<1> QED
  BY <1>1, <1>2

LEMMA TypedIsHandlers == TypeOK => ready \in Seq(Handler)
BY DEF TypeOK, Handler

-----------------------------------------------------------------------------
(* The initial state and every step                                        *)

LEMMA InitIInv == Init => IInv
<1> SUFFICES ASSUME Init PROVE IInv
  OBVIOUS
<1>1. GoHandler(Acceptor) \in Handler
  BY DEF GoHandler, Handler, Coro
<1>2. ready \in Seq(Handler) /\ OnePerCoro(ready) /\ Elements(ready) = {GoHandler(Acceptor)}
  BY <1>1 DEF Init, Elements, OnePerCoro
<1>3. TypeOK
  BY <1>2 DEF Init, TypeOK, Handler, Coro
<1> QED
  BY <1>2, <1>3 DEF Init, IInv, ThreadsInv, ThreadInv, CorosInv, OpsInv, ReadyInv, OneHolder,
     SomeHolder, GoneInv, Handling, Waiting, Resumed, Started, GoHandler, Coro

\* A coroutine has at most one operation under way.
LEMMA OperationsDiffer ==
  ASSUME TypeOK, OpsInv, NEW o \in ops, NEW p \in ops, o.coro = p.coro
  PROVE  o = p
BY DEF TypeOK, OpsInv

\* While it has one, nothing is ready for it.
LEMMA WaitingNotReady ==
  ASSUME IInv, NEW o \in ops
  PROVE  /\ o.coro \in Coro /\ o.coro \in started \ (running \cup exc)
         /\ o.coro \in allocated /\ Waiting(o.coro)
         /\ at[o.coro] = o.kind /\ o.kind \in {"accept", "read", "write"}
         /\ \A g \in Elements(ready) : g.coro # o.coro
<1> USE DEF IInv
<1>1. /\ o.coro \in Coro /\ o.coro \in started \ (running \cup exc)
      /\ o.coro \in allocated /\ Waiting(o.coro)
      /\ at[o.coro] = o.kind /\ o.kind \in {"accept", "read", "write"}
  BY DEF TypeOK, OpsInv, Waiting
<1>2. ASSUME NEW g \in Elements(ready), g.coro = o.coro
      PROVE  FALSE
  <2>1. g.kind = "go" \/ g.kind = "complete"
    BY TypedIsHandlers, ElementsTyped DEF Handler
  <2>2. g.kind # "go"
    BY <1>1, <1>2 DEF ReadyInv
  <2> QED
    BY <1>1, <1>2, <2>1, <2>2 DEF OneHolder, Resumed
<1> QED
  BY <1>1, <1>2

\* What all completions have in common: the coroutine passes from its operation
\* to the handler that is appended.
LEMMA OperationCompletes ==
  ASSUME IInv, NEW o \in ops, NEW h \in Handler, h.kind = "complete", h.coro = o.coro,
         ops' = ops \ {o}, ready' = Append(ready, h),
         UNCHANGED <<threadVars, coroVars, up>>, failed \subseteq failed'
  PROVE  /\ ready' \in Seq(Handler) /\ OnePerCoro(ready')
         /\ Elements(ready') = Elements(ready) \cup {h}
         /\ \A c : Started(c)' <=> Started(c)
         /\ ThreadsInv' /\ OpsInv' /\ OneHolder' /\ SomeHolder' /\ GoneInv'
<1> USE DEF IInv
<1>1. /\ o.coro \in started \ (running \cup exc) /\ o.coro \in allocated /\ Waiting(o.coro)
      /\ \A g \in Elements(ready) : g.coro # o.coro
  BY WaitingNotReady
<1>2. /\ ready' \in Seq(Handler) /\ OnePerCoro(ready')
      /\ Elements(ready') = Elements(ready) \cup {h}
  BY <1>1, TypedIsHandlers, AppendElements DEF ReadyInv
<1>3. /\ \A c : Started(c)' <=> Started(c)
      /\ \A c : Resumed(c)' <=> Resumed(c) \/ c = o.coro
  BY <1>2 DEF Started, Resumed
<1>4. \A c : Waiting(c)' <=> Waiting(c) /\ c # o.coro
  BY OperationsDiffer DEF Waiting
<1>5. UNCHANGED <<phase, coro, t_deferHandler, t_error, allocated, started, running, exc, at>>
  BY DEF threadVars, coroVars
<1>6. ThreadsInv'
  BY <1>5 DEF ThreadsInv, ThreadInv
<1>7. OpsInv'
  BY <1>5 DEF OpsInv
<1>8. OneHolder'
  BY <1>1, <1>3, <1>4, <1>5 DEF OneHolder, Handling
<1>9. SomeHolder'
  BY <1>1, <1>3, <1>4, <1>5 DEF SomeHolder, Handling
<1>10. GoneInv'
  BY <1>5 DEF GoneInv, OutOfWork
<1> QED
  BY <1>2, <1>3, <1>6, <1>7, <1>8, <1>9, <1>10

LEMMA AcceptCompletesIInv ==
  ASSUME IInv, NEW conn \in Conn, AcceptCompletes(conn)
  PROVE  IInv'
<1> DEFINE h == Completion(Acceptor, FALSE, conn)
           o == [coro |-> Acceptor, kind |-> "accept"]
<1> USE DEF IInv
<1>1. h \in Handler /\ h.kind = "complete" /\ h.coro = Acceptor /\ ~h.error /\ h.conn = conn
  BY DEF Completion, Handler, Coro
<1>2. /\ o \in ops /\ o.coro = Acceptor /\ ops' = ops \ {o} /\ ready' = Append(ready, h)
      /\ UNCHANGED <<threadVars, coroVars, up, failed>>
      /\ accepted' = accepted \cup {conn} /\ conn \notin accepted
  BY DEF AcceptCompletes
<1>3. Acceptor \in started \ (running \cup exc) /\ at[Acceptor] = "accept"
  BY <1>2, WaitingNotReady
<1> HIDE DEF h
<1>4. /\ ready' \in Seq(Handler) /\ OnePerCoro(ready')
      /\ Elements(ready') = Elements(ready) \cup {h}
      /\ \A c : Started(c)' <=> Started(c)
      /\ ThreadsInv' /\ OpsInv' /\ OneHolder' /\ SomeHolder' /\ GoneInv'
  BY <1>1, <1>2, OperationCompletes
<1>5. UNCHANGED <<phase, coro, t_deferHandler, t_error, allocated, started, running, exc, at>>
  BY <1>2 DEF threadVars, coroVars
<1>6. TypeOK'
  BY <1>2, <1>4, <1>5 DEF TypeOK, Handler
<1>7. \A c : Announced(c)' <=> Announced(c) \/ c = conn
  BY <1>1, <1>4 DEF Announced
<1>8. CorosInv'
  BY <1>2, <1>4, <1>5, <1>7 DEF CorosInv
<1>9. ReadyInv'
  BY <1>1, <1>2, <1>3, <1>4, <1>5 DEF ReadyInv, CorosInv, Started
<1> QED
  BY <1>4, <1>6, <1>8, <1>9

\* A read or write completes: not of the accept loop, which would have accepted.
LEMMA TransferCompletesIInv ==
  ASSUME IInv, NEW o \in ops, TransferCompletes(o)
  PROVE  IInv'
<1> DEFINE h == Completion(o.coro, FALSE, None)
<1> USE DEF IInv
<1>1. /\ o.coro \in Coro /\ o.coro \in started \ (running \cup exc)
      /\ at[o.coro] = o.kind /\ o.kind \in {"read", "write"}
  BY WaitingNotReady DEF TransferCompletes
<1>2. h \in Handler /\ h.kind = "complete" /\ h.coro = o.coro /\ ~h.error
  BY <1>1 DEF Completion, Handler
<1>3. /\ ops' = ops \ {o} /\ ready' = Append(ready, h)
      /\ UNCHANGED <<threadVars, coroVars, up, accepted, failed>>
  BY DEF TransferCompletes
<1>4. o.coro # Acceptor
  BY <1>1 DEF CorosInv
<1> HIDE DEF h
<1>5. /\ ready' \in Seq(Handler) /\ OnePerCoro(ready')
      /\ Elements(ready') = Elements(ready) \cup {h}
      /\ \A c : Started(c)' <=> Started(c)
      /\ ThreadsInv' /\ OpsInv' /\ OneHolder' /\ SomeHolder' /\ GoneInv'
  BY <1>2, <1>3, OperationCompletes
<1>6. UNCHANGED <<phase, coro, t_deferHandler, t_error, allocated, started, running, exc, at>>
  BY <1>3 DEF threadVars, coroVars
<1>7. TypeOK'
  BY <1>3, <1>5, <1>6 DEF TypeOK, Handler
<1>8. \A c : Announced(c)' <=> Announced(c)
  BY <1>2, <1>4, <1>5 DEF Announced
<1>9. CorosInv'
  BY <1>3, <1>5, <1>6, <1>8 DEF CorosInv
<1>10. ReadyInv'
  BY <1>1, <1>2, <1>3, <1>4, <1>5, <1>6 DEF ReadyInv
<1> QED
  BY <1>5, <1>7, <1>9, <1>10

LEMMA OperationFailsIInv ==
  ASSUME IInv, NEW o \in ops, OperationFails(o)
  PROVE  IInv'
<1> DEFINE h == Completion(o.coro, TRUE, None)
<1> USE DEF IInv
<1>1. /\ o.coro \in Coro /\ o.coro \in started \ (running \cup exc)
      /\ at[o.coro] = o.kind /\ o.kind \in {"accept", "read", "write"}
  BY WaitingNotReady
<1>2. h \in Handler /\ h.kind = "complete" /\ h.coro = o.coro /\ h.error
  BY <1>1 DEF Completion, Handler
<1>3. /\ ops' = ops \ {o} /\ ready' = Append(ready, h)
      /\ UNCHANGED <<threadVars, coroVars, up, accepted>> /\ failed' = failed \cup {o.coro}
  BY DEF OperationFails
<1> HIDE DEF h
<1>4. /\ ready' \in Seq(Handler) /\ OnePerCoro(ready')
      /\ Elements(ready') = Elements(ready) \cup {h}
      /\ \A c : Started(c)' <=> Started(c)
      /\ ThreadsInv' /\ OpsInv' /\ OneHolder' /\ SomeHolder' /\ GoneInv'
  BY <1>2, <1>3, OperationCompletes
<1>5. UNCHANGED <<phase, coro, t_deferHandler, t_error, allocated, started, running, exc, at>>
  BY <1>3 DEF threadVars, coroVars
<1>6. TypeOK'
  BY <1>1, <1>3, <1>4, <1>5 DEF TypeOK, Handler
<1>7. \A c : Announced(c)' <=> Announced(c)
  BY <1>2, <1>4 DEF Announced
<1>8. CorosInv'
  BY <1>3, <1>4, <1>5, <1>7 DEF CorosInv
<1>9. ReadyInv'
  BY <1>1, <1>2, <1>3, <1>4, <1>5 DEF ReadyInv
<1> QED
  BY <1>4, <1>6, <1>8, <1>9

\* The coroutine of a thread that handles one exists.
LEMMA HandledIsAllocated ==
  ASSUME IInv, NEW t \in Thread, Handling(t)
  PROVE  coro[t] \in allocated /\ coro[t] \in Coro
BY DEF IInv, TypeOK, ThreadsInv, ThreadInv, Handling

\* Taking the first handler leaves the others as they were.
LEMMA HeadTaken ==
  ASSUME IInv, ready # <<>>
  PROVE  /\ Head(ready) \in Elements(ready) /\ Head(ready) \in Handler
         /\ Tail(ready) \in Seq(Handler) /\ OnePerCoro(Tail(ready))
         /\ Elements(Tail(ready)) = Elements(ready) \ {Head(ready)}
         /\ \A g \in Elements(ready) : g.coro = Head(ready).coro => g = Head(ready)
BY TypedIsHandlers, TailElements, ElementsDiffer DEF IInv, ReadyInv

LEMMA TakeGoIInv ==
  ASSUME IInv, NEW t \in Thread, TakeGo(t)
  PROVE  IInv'
<1> DEFINE h == Head(ready)
           c == h.coro
<1> USE DEF IInv
<1>1. /\ phase[t] = "poll" /\ ready # <<>> /\ h.kind = "go"
      /\ phase' = [phase EXCEPT ![t] = "inside"] /\ coro' = [coro EXCEPT ![t] = c]
      /\ running' = running \cup {c} /\ allocated' = allocated \cup {c}
      /\ started' = started \cup {c} /\ ready' = Tail(ready)
      /\ UNCHANGED <<t_deferHandler, t_error, exc, at, ops, up, accepted, failed>>
  BY DEF TakeGo, Enter
<1>2. /\ h \in Elements(ready) /\ h \in Handler
      /\ ready' \in Seq(Handler) /\ OnePerCoro(ready')
      /\ Elements(ready') = Elements(ready) \ {h}
      /\ \A g \in Elements(ready) : g.coro = c => g = h
  BY <1>1, HeadTaken
<1> HIDE DEF h
<1>3. /\ c \in Coro /\ c \in (accepted \cup {Acceptor}) \ (allocated \cup exc)
      /\ at[c] = "start"
  BY <1>1, <1>2 DEF ReadyInv, Handler
<1>4. /\ ~Waiting(c) /\ ~Resumed(c) /\ ~Announced(c)
      /\ \A u \in Thread : Handling(u) => coro[u] # c /\ u # t
  BY <1>1, <1>2, <1>3, HandledIsAllocated
     DEF TypeOK, OpsInv, ReadyInv, Waiting, Resumed, Announced, Started, Handling
<1>5. /\ \A d : Started(d)' <=> Started(d) /\ d # c
      /\ \A d : Resumed(d)' <=> Resumed(d)
      /\ \A d : Announced(d)' <=> Announced(d)
      /\ \A d : Waiting(d)' <=> Waiting(d)
  BY <1>1, <1>2 DEF Started, Resumed, Announced, Waiting
<1>6. \A u \in Thread : /\ Handling(u)' <=> Handling(u) \/ u = t
                        /\ coro'[u] = IF u = t THEN c ELSE coro[u]
                        /\ phase'[u] = IF u = t THEN "inside" ELSE phase[u]
  BY <1>1 DEF Handling, TypeOK
<1>7. TypeOK'
  BY <1>1, <1>2, <1>3 DEF TypeOK, Handler
<1>8. ThreadsInv'
  BY <1>1, <1>3, <1>4, <1>6 DEF ThreadsInv, ThreadInv, TypeOK, Handling
<1>9. CorosInv'
  BY <1>1, <1>3, <1>5 DEF CorosInv
<1>10. OpsInv'
  BY <1>1, <1>4 DEF OpsInv, Waiting
<1>11. ReadyInv'
  BY <1>1, <1>2, <1>3, <1>5 DEF ReadyInv, Started
<1>12. OneHolder'
  BY <1>4, <1>5, <1>6 DEF OneHolder
<1>13. SomeHolder'
  BY <1>1, <1>3, <1>4, <1>5, <1>6 DEF SomeHolder
<1>14. GoneInv'
  BY <1>1, <1>3, <1>6 DEF GoneInv, OutOfWork
<1> QED
  BY <1>7, <1>8, <1>9, <1>10, <1>11, <1>12, <1>13, <1>14

\* Which handlers are ready after a completion was taken.
LEMMA CompletionTaken ==
  ASSUME IInv, NEW t \in Thread, TakeCompletion(t),
         NEW h, h = Head(ready)
  PROVE  /\ ready' \in Seq(Handler) /\ OnePerCoro(ready')
         /\ ~(h.coro = Acceptor /\ ~h.error) => Elements(ready') = Elements(ready) \ {h}
         /\ h.coro = Acceptor /\ ~h.error =>
              /\ h.conn \in Conn
              /\ Elements(ready') = (Elements(ready) \ {h}) \cup {GoHandler(h.conn)}
<1> USE DEF IInv
<1>1. /\ ready # <<>> /\ h.kind = "complete" /\ ready' = Tail(ready) \o Posted(h)
  BY DEF TakeCompletion
<1>2. /\ h \in Elements(ready) /\ h \in Handler
      /\ Tail(ready) \in Seq(Handler) /\ OnePerCoro(Tail(ready))
      /\ Elements(Tail(ready)) = Elements(ready) \ {h}
  BY <1>1, HeadTaken
<1>3. CASE ~(h.coro = Acceptor /\ ~h.error)
  <2>1. ready' = Tail(ready)
    BY <1>1, <1>2, <1>3, ConcatEmptySeq DEF Posted
  <2> QED
    BY <1>2, <1>3, <2>1
<1>4. CASE h.coro = Acceptor /\ ~h.error
  <2> DEFINE g == GoHandler(h.conn)
  <2>1. h.conn \in accepted \ allocated /\ ~Started(h.conn) /\ h.conn \in Conn
    BY <1>1, <1>2, <1>4 DEF ReadyInv, TypeOK
  <2>2. g \in Handler /\ g.kind = "go" /\ g.coro = h.conn
    BY <2>1 DEF GoHandler, Handler, Coro
  <2>3. ready' = Append(Tail(ready), g)
    BY <1>1, <1>2, <1>4, <2>2, AppendIsConcat DEF Posted
  <2>4. \A f \in Elements(ready) : f.coro # g.coro
    <3> SUFFICES ASSUME NEW f \in Elements(ready), f.coro = g.coro PROVE FALSE
      OBVIOUS
    <3>1. f.kind = "go" \/ f.kind = "complete"
      BY TypedIsHandlers, ElementsTyped DEF Handler
    <3>2. f.kind # "go"
      BY <2>1, <2>2 DEF Started
    <3> QED
      BY <2>1, <2>2, <3>1, <3>2 DEF ReadyInv, TypeOK
  <2> HIDE DEF g
  <2>5. /\ ready' \in Seq(Handler) /\ OnePerCoro(ready')
        /\ Elements(ready') = (Elements(ready) \ {h}) \cup {g}
    BY <1>2, <2>2, <2>3, <2>4, AppendElements
  <2> QED
    BY <1>4, <2>1, <2>5 DEF g
<1> QED
  BY <1>3, <1>4

LEMMA TakeCompletionIInv ==
  ASSUME IInv, NEW t \in Thread, TakeCompletion(t)
  PROVE  IInv'
<1> DEFINE h == Head(ready)
           c == h.coro
           announces == c = Acceptor /\ ~h.error
<1> USE DEF IInv
<1>1. /\ phase[t] = "poll" /\ ready # <<>> /\ h.kind = "complete"
      /\ phase' = [phase EXCEPT ![t] = "inside"] /\ coro' = [coro EXCEPT ![t] = c]
      /\ running' = running \cup {c} /\ t_error' = [t_error EXCEPT ![t] = h.error]
      /\ UNCHANGED <<t_deferHandler, allocated, started, exc, at, ops, up, accepted, failed>>
  BY DEF TakeCompletion, Enter, ErrorOf
<1>2. /\ h \in Elements(ready) /\ h \in Handler
      /\ \A g \in Elements(ready) : g.coro = c => g = h
  BY <1>1, HeadTaken
<1>3. /\ ready' \in Seq(Handler) /\ OnePerCoro(ready')
      /\ ~announces => Elements(ready') = Elements(ready) \ {h}
      /\ announces =>
           /\ h.conn \in Conn
           /\ Elements(ready') = (Elements(ready) \ {h}) \cup {GoHandler(h.conn)}
  BY CompletionTaken
<1> HIDE DEF h
<1>4. /\ c \in Coro /\ c \in started \ (running \cup exc) /\ c \in allocated
      /\ at[c] \notin {"start", "end"} /\ h.error \in BOOLEAN
      /\ h.error => c \in failed
      /\ announces => h.conn \in accepted \ allocated /\ at[h.conn] = "start"
  BY <1>1, <1>2 DEF ReadyInv, Handler, TypeOK
<1>5. /\ Resumed(c) /\ ~Waiting(c) /\ ~Started(c)
      /\ \A u \in Thread : Handling(u) => coro[u] # c /\ u # t
  BY <1>1, <1>2, <1>4 DEF OneHolder, ReadyInv, Resumed, Started, Handling
<1>6. announces => /\ GoHandler(h.conn).kind = "go" /\ GoHandler(h.conn).coro = h.conn
                   /\ GoHandler(h.conn) \in Handler
  BY <1>3 DEF GoHandler, Handler, Coro
<1>7. /\ \A d : Started(d)' <=> Started(d) \/ (announces /\ d = h.conn)
      /\ \A d : Resumed(d)' <=> Resumed(d) /\ d # c
      /\ \A d : Waiting(d)' <=> Waiting(d)
      /\ \A d : Announced(d) => Announced(d)' \/ (announces /\ d = h.conn)
      /\ c = Acceptor => \A d : ~Announced(d)'
  <2>1. CASE announces
    BY <1>1, <1>2, <1>3, <1>6, <2>1 DEF Started, Resumed, Waiting, Announced
  <2>2. CASE ~announces
    BY <1>1, <1>2, <1>3, <2>2 DEF Started, Resumed, Waiting, Announced
  <2> QED
    BY <2>1, <2>2
<1>8. \A u \in Thread : /\ Handling(u)' <=> Handling(u) \/ u = t
                        /\ coro'[u] = IF u = t THEN c ELSE coro[u]
                        /\ phase'[u] = IF u = t THEN "inside" ELSE phase[u]
                        /\ t_error'[u] = IF u = t THEN h.error ELSE t_error[u]
  BY <1>1 DEF Handling, TypeOK
<1>9. TypeOK'
  BY <1>1, <1>3, <1>4 DEF TypeOK, Handler
<1>10. ThreadsInv'
  BY <1>1, <1>4, <1>5, <1>8 DEF ThreadsInv, ThreadInv, TypeOK, Handling
<1>11. CorosInv'
  BY <1>1, <1>4, <1>7 DEF CorosInv
<1>12. OpsInv'
  BY <1>1, <1>5 DEF OpsInv, Waiting
<1>13. ReadyInv'
  <2>1. CASE announces
    BY <1>1, <1>2, <1>3, <1>4, <1>6, <1>7, <2>1 DEF ReadyInv, CorosInv
  <2>2. CASE ~announces
    BY <1>1, <1>2, <1>3, <1>7, <2>2 DEF ReadyInv
  <2> QED
    BY <2>1, <2>2
<1>14. OneHolder'
  BY <1>5, <1>7, <1>8 DEF OneHolder
<1>15. SomeHolder'
  BY <1>1, <1>4, <1>5, <1>7, <1>8 DEF SomeHolder
<1>16. GoneInv'
  BY <1>1, <1>4, <1>8 DEF GoneInv, OutOfWork
<1> QED
  BY <1>9, <1>10, <1>11, <1>12, <1>13, <1>14, <1>15, <1>16

LEMMA RunReturnsIInv ==
  ASSUME IInv, NEW t \in Thread, RunReturns(t)
  PROVE  IInv'
<1> USE DEF IInv
<1>1. /\ phase[t] = "poll" /\ ready = <<>> /\ ops = {}
      /\ \A u \in Thread : phase[u] \in {"poll", "gone"}
      /\ phase' = [phase EXCEPT ![t] = "gone"] /\ up' = (t # Main)
      /\ UNCHANGED <<coro, t_deferHandler, t_error, allocated, started, running, exc, at,
                     ready, ops, accepted, failed>>
  BY DEF RunReturns, coroVars, serviceVars
<1>2. \A u \in Thread : phase'[u] = IF u = t THEN "gone" ELSE phase[u]
  BY <1>1 DEF TypeOK
<1>3. TypeOK'
  BY <1>1 DEF TypeOK
<1>4. ThreadsInv'
  BY <1>1, <1>2 DEF ThreadsInv, ThreadInv
<1>5. \A u \in Thread : ~Handling(u) /\ ~Handling(u)'
  BY <1>1, <1>2 DEF Handling
<1>6. CorosInv' /\ OpsInv' /\ ReadyInv'
  BY <1>1 DEF CorosInv, OpsInv, ReadyInv, Started, Announced
<1>7. OneHolder'
  BY <1>1, <1>5 DEF OneHolder, Waiting, Resumed
<1>8. SomeHolder'
  BY <1>1, <1>5 DEF SomeHolder, Waiting, Resumed
<1>9. GoneInv'
  BY <1>1, <1>2 DEF GoneInv, OutOfWork
<1> QED
  BY <1>3, <1>4, <1>6, <1>7, <1>8, <1>9

\* While a thread handles a coroutine the service has not run out of work, and a
\* step of this thread that leaves the queue and the operations alone keeps what
\* is said of them, of every coroutine but its own, and of the other threads.
LEMMA OwnCoroutine ==
  ASSUME IInv, NEW t \in Thread, Handling(t)
  PROVE  /\ coro[t] \in Coro /\ coro[t] \in allocated
         /\ ~Waiting(coro[t]) /\ ~Resumed(coro[t]) /\ ~Started(coro[t])
         /\ \A u \in Thread : Handling(u) /\ u # t => coro[u] # coro[t]
         /\ ~OutOfWork
<1> USE DEF IInv
<1>1. coro[t] \in Coro /\ coro[t] \in allocated
  BY HandledIsAllocated
<1>2. ~Waiting(coro[t]) /\ ~Resumed(coro[t])
  BY DEF OneHolder
<1>3. ~Started(coro[t])
  BY <1>1 DEF Started, ReadyInv
<1>4. \A u \in Thread : Handling(u) /\ u # t => coro[u] # coro[t]
  BY DEF OneHolder
<1>5. ~OutOfWork
  BY DEF OutOfWork, Handling
<1> QED
  BY <1>1, <1>2, <1>3, <1>4, <1>5

LEMMA DeferIInv ==
  ASSUME IInv, NEW t \in Thread, phase[t] = "inside",
         NEW kind \in {"accept", "read", "write"},
         kind = "accept" <=> coro[t] = Acceptor,
         Defer(t, kind),
         UNCHANGED <<coro, t_error, allocated, started, running, exc, ready, up,
                     accepted, failed>>
  PROVE  IInv'
<1> DEFINE c == coro[t]
<1> USE DEF IInv
<1>1. /\ t_deferHandler' = [t_deferHandler EXCEPT ![t] = kind]
      /\ at' = [at EXCEPT ![c] = kind] /\ phase' = [phase EXCEPT ![t] = "yielded"]
      /\ UNCHANGED <<coro, t_error, allocated, started, running, exc, ready, ops, up,
                     accepted, failed>>
  BY DEF Defer
<1>2. /\ c \in Coro /\ c \in allocated
      /\ ~Waiting(c) /\ ~Resumed(c) /\ ~Started(c)
      /\ \A u \in Thread : Handling(u) /\ u # t => coro[u] # c
      /\ ~OutOfWork
  BY OwnCoroutine DEF Handling
<1>3. c \in (started \cap running) \ exc /\ kind # None
  BY DEF ThreadsInv, ThreadInv
<1>4. /\ \A u \in Thread : /\ phase'[u] = IF u = t THEN "yielded" ELSE phase[u]
                           /\ t_deferHandler'[u] = IF u = t THEN kind ELSE t_deferHandler[u]
                           /\ Handling(u)' <=> Handling(u)
      /\ \A d \in Coro : at'[d] = IF d = c THEN kind ELSE at[d]
  BY <1>1, <1>2 DEF TypeOK, Handling
<1> HIDE DEF c
<1>5. \A d : /\ Started(d)' <=> Started(d)
             /\ Resumed(d)' <=> Resumed(d)
             /\ Announced(d)' <=> Announced(d)
             /\ Waiting(d)' <=> Waiting(d)
  BY <1>1 DEF Started, Resumed, Announced, Waiting
<1>6. TypeOK'
  BY <1>1, <1>2 DEF TypeOK
<1>7. ThreadsInv'
  <2> SUFFICES ASSUME NEW u \in Thread PROVE ThreadInv(u)'
    BY DEF ThreadsInv
  <2>1. CASE u = t
    BY <1>1, <1>2, <1>3, <1>4, <2>1 DEF ThreadInv, c
  <2>2. CASE u # t
    <3>1. Handling(u) => coro[u] \in Coro /\ coro[u] # c
      BY <1>2, <2>2, HandledIsAllocated
    <3> QED
      BY <1>1, <1>4, <2>2, <3>1 DEF ThreadsInv, ThreadInv, Handling
  <2> QED
    BY <2>1, <2>2
<1>8. CorosInv'
  BY <1>1, <1>2, <1>4, <1>5 DEF CorosInv, Coro, c
<1>9. OpsInv'
  BY <1>1, <1>2, <1>4, <1>5 DEF OpsInv, Waiting, TypeOK
<1>10. ReadyInv'
  <2>1. \A h \in Elements(ready) : h \in Handler /\ h.coro \in Coro /\ h.coro # c
    BY <1>2, TypedIsHandlers, ElementsTyped DEF Handler, Started, Resumed
  <2> QED
    BY <1>1, <1>2, <1>4, <1>5, <2>1 DEF ReadyInv, TypeOK, Coro
<1>11. OneHolder'
  BY <1>1, <1>4, <1>5 DEF OneHolder
<1>12. SomeHolder'
  BY <1>1, <1>4, <1>5 DEF SomeHolder
<1>13. GoneInv'
  BY <1>1, <1>2, <1>4 DEF GoneInv
<1> QED
  BY <1>6, <1>7, <1>8, <1>9, <1>10, <1>11, <1>12, <1>13

LEMMA AcceptNextIInv ==
  ASSUME IInv, NEW t \in Thread, AcceptNext(t)
  PROVE  IInv'
<1>1. phase[t] = "inside" /\ coro[t] = Acceptor /\ Defer(t, "accept")
  BY DEF AcceptNext
<1>2. UNCHANGED <<coro, t_error, allocated, started, running, exc, ready, up, accepted, failed>>
  BY DEF AcceptNext
<1> QED
  BY <1>1, <1>2, DeferIInv

LEMMA SessionNextIInv ==
  ASSUME IInv, NEW t \in Thread, SessionNext(t)
  PROVE  IInv'
<1> DEFINE kind == IF at[coro[t]] = "read" THEN "write" ELSE "read"
<1>1. phase[t] = "inside" /\ coro[t] # Acceptor /\ Defer(t, kind)
  BY DEF SessionNext
<1>2. UNCHANGED <<coro, t_error, allocated, started, running, exc, ready, up, accepted, failed>>
  BY DEF SessionNext
<1>3. kind \in {"accept", "read", "write"} /\ kind # "accept"
  OBVIOUS
<1> HIDE DEF kind
<1> QED
  BY <1>1, <1>2, <1>3, DeferIInv

\* The accept loop ends in an exception, only after an accept failed.
LEMMA AcceptFailsIInv ==
  ASSUME IInv, NEW t \in Thread, AcceptFails(t)
  PROVE  IInv'
<1> USE DEF IInv
<1>1. /\ phase[t] = "inside" /\ coro[t] = Acceptor /\ at[Acceptor] # "start" /\ t_error[t]
      /\ exc' = exc \cup {Acceptor} /\ started' = started \ {Acceptor}
      /\ phase' = [phase EXCEPT ![t] = "yielded"]
      /\ UNCHANGED <<coro, t_deferHandler, t_error, allocated, running, at, ready, ops, up,
                     accepted, failed>>
  BY DEF AcceptFails, Fails, serviceVars
<1>2. /\ Acceptor \in allocated
      /\ ~Waiting(Acceptor) /\ ~Resumed(Acceptor) /\ ~Started(Acceptor)
      /\ \A u \in Thread : Handling(u) /\ u # t => coro[u] # Acceptor
      /\ ~OutOfWork
  BY <1>1, OwnCoroutine DEF Handling
<1>3. Acceptor \in running \ exc /\ Acceptor \in failed /\ t_deferHandler[t] = None
  BY <1>1 DEF ThreadsInv, ThreadInv
<1>4. \A u \in Thread : /\ phase'[u] = IF u = t THEN "yielded" ELSE phase[u]
                        /\ Handling(u)' <=> Handling(u)
  BY <1>1 DEF TypeOK, Handling
<1>5. \A d : /\ Started(d)' <=> Started(d)
             /\ Resumed(d)' <=> Resumed(d)
             /\ Announced(d)' <=> Announced(d)
             /\ Waiting(d)' <=> Waiting(d)
  BY <1>1 DEF Started, Resumed, Announced, Waiting
<1>6. TypeOK'
  BY <1>1 DEF TypeOK, Coro
<1>7. ThreadsInv'
  BY <1>1, <1>2, <1>3, <1>4 DEF ThreadsInv, ThreadInv, Handling
<1>8. CorosInv'
  BY <1>1, <1>3, <1>5 DEF CorosInv
<1>9. OpsInv'
  BY <1>1, <1>2 DEF OpsInv, Waiting
<1>10. ReadyInv'
  BY <1>1, <1>2, <1>5 DEF ReadyInv, Started, Resumed
<1>11. OneHolder'
  BY <1>1, <1>4, <1>5 DEF OneHolder
<1>12. SomeHolder'
  BY <1>1, <1>3, <1>4, <1>5 DEF SomeHolder, Handling
<1>13. GoneInv'
  BY <1>1, <1>2, <1>3, <1>4 DEF GoneInv
<1> QED
  BY <1>6, <1>7, <1>8, <1>9, <1>10, <1>11, <1>12, <1>13

\* A connection ends, only after an operation of its own failed.
LEMMA SessionEndsIInv ==
  ASSUME IInv, NEW t \in Thread, SessionEnds(t)
  PROVE  IInv'
<1> DEFINE c == coro[t]
<1> USE DEF IInv
<1>1. /\ phase[t] = "inside" /\ c \in Conn /\ at[c] # "start" /\ t_error[t]
      /\ started' = started \ {c} /\ at' = [at EXCEPT ![c] = "end"]
      /\ phase' = [phase EXCEPT ![t] = "yielded"]
      /\ UNCHANGED <<coro, t_deferHandler, t_error, allocated, running, exc, ready, ops, up,
                     accepted, failed>>
  BY DEF SessionEnds, Fails, serviceVars
<1>2. /\ c \in Coro /\ c \in allocated
      /\ ~Waiting(c) /\ ~Resumed(c) /\ ~Started(c)
      /\ \A u \in Thread : Handling(u) /\ u # t => coro[u] # c
      /\ ~OutOfWork
  BY <1>1, OwnCoroutine DEF Handling
<1>3. c \in running \ exc /\ c \in failed /\ t_deferHandler[t] = None
  BY <1>1 DEF ThreadsInv, ThreadInv
<1>4. /\ \A u \in Thread : /\ phase'[u] = IF u = t THEN "yielded" ELSE phase[u]
                           /\ Handling(u)' <=> Handling(u)
      /\ \A d \in Coro : at'[d] = IF d = c THEN "end" ELSE at[d]
  BY <1>1, <1>2 DEF TypeOK, Handling
<1> HIDE DEF c
<1>5. \A d : /\ Started(d)' <=> Started(d)
             /\ Resumed(d)' <=> Resumed(d)
             /\ Announced(d)' <=> Announced(d)
             /\ Waiting(d)' <=> Waiting(d)
  BY <1>1 DEF Started, Resumed, Announced, Waiting
<1>6. TypeOK'
  BY <1>1, <1>2 DEF TypeOK
<1>7. ThreadsInv'
  <2> SUFFICES ASSUME NEW u \in Thread PROVE ThreadInv(u)'
    BY DEF ThreadsInv
  <2>1. CASE u = t
    BY <1>1, <1>2, <1>3, <1>4, <2>1 DEF ThreadInv, c
  <2>2. CASE u # t
    <3>1. Handling(u) => coro[u] \in Coro /\ coro[u] # c
      BY <1>2, <2>2, HandledIsAllocated
    <3> QED
      BY <1>1, <1>4, <2>2, <3>1 DEF ThreadsInv, ThreadInv, Handling
  <2> QED
    BY <2>1, <2>2
<1>8. CorosInv'
  BY <1>1, <1>2, <1>3, <1>4, <1>5 DEF CorosInv, Coro
<1>9. OpsInv'
  BY <1>1, <1>2, <1>4, <1>5 DEF OpsInv, Waiting, TypeOK
<1>10. ReadyInv'
  <2>1. \A h \in Elements(ready) : h \in Handler /\ h.coro \in Coro /\ h.coro # c
    BY <1>2, TypedIsHandlers, ElementsTyped DEF Handler, Started, Resumed
  <2> QED
    BY <1>1, <1>2, <1>4, <1>5, <2>1 DEF ReadyInv, TypeOK, Coro
<1>11. OneHolder'
  BY <1>1, <1>4, <1>5 DEF OneHolder
<1>12. SomeHolder'
  BY <1>1, <1>4, <1>5 DEF SomeHolder
<1>13. GoneInv'
  BY <1>1, <1>2, <1>4 DEF GoneInv
<1> QED
  BY <1>6, <1>7, <1>8, <1>9, <1>10, <1>11, <1>12, <1>13

\* The thread leaves the coroutine: it still holds it, suspended or ended.
LEMMA LeaveIInv ==
  ASSUME IInv, NEW t \in Thread, Leave(t)
  PROVE  IInv'
<1> DEFINE c == coro[t]
<1> USE DEF IInv
<1>1. /\ phase[t] = "yielded" /\ c \notin exc
      /\ running' = running \ {c} /\ phase' = [phase EXCEPT ![t] = "left"]
      /\ UNCHANGED <<coro, t_deferHandler, t_error, allocated, started, exc, at, ready, ops,
                     up, accepted, failed>>
  BY DEF Leave, serviceVars
<1>2. /\ c \in Coro /\ c \in allocated
      /\ ~Waiting(c) /\ ~Resumed(c) /\ ~Started(c)
      /\ \A u \in Thread : Handling(u) /\ u # t => coro[u] # c
      /\ ~OutOfWork
  BY <1>1, OwnCoroutine DEF Handling
<1>3. /\ at[c] # "start"
      /\ \/ t_deferHandler[t] = None /\ c \notin started /\ at[c] = "end"
         \/ t_deferHandler[t] # None /\ c \in started /\ at[c] = t_deferHandler[t]
  BY <1>1 DEF ThreadsInv, ThreadInv
<1>4. \A u \in Thread : /\ phase'[u] = IF u = t THEN "left" ELSE phase[u]
                        /\ Handling(u)' <=> Handling(u)
  BY <1>1 DEF TypeOK, Handling
<1>5. \A d : /\ Started(d)' <=> Started(d)
             /\ Resumed(d)' <=> Resumed(d)
             /\ Announced(d)' <=> Announced(d)
             /\ Waiting(d)' <=> Waiting(d)
  BY <1>1 DEF Started, Resumed, Announced, Waiting
<1>6. TypeOK'
  BY <1>1 DEF TypeOK
<1>7. ThreadsInv'
  BY <1>1, <1>2, <1>3, <1>4 DEF ThreadsInv, ThreadInv, Handling
<1>8. CorosInv'
  BY <1>1, <1>3, <1>5 DEF CorosInv
<1>9. OpsInv'
  BY <1>1 DEF OpsInv
<1>10. ReadyInv'
  BY <1>1, <1>5 DEF ReadyInv
<1>11. OneHolder'
  BY <1>1, <1>4, <1>5 DEF OneHolder
<1>12. SomeHolder'
  BY <1>1, <1>4, <1>5 DEF SomeHolder
<1>13. GoneInv'
  BY <1>1, <1>2, <1>4 DEF GoneInv
<1> QED
  BY <1>6, <1>7, <1>8, <1>9, <1>10, <1>11, <1>12, <1>13

\* Only the accept loop's exception is thrown again: no thread is gone before.
LEMMA RethrowIInv ==
  ASSUME IInv, NEW t \in Thread, Rethrow(t)
  PROVE  IInv'
<1> USE DEF IInv
<1>1. /\ phase[t] = "yielded" /\ coro[t] \in exc
      /\ running' = running \ {coro[t]} /\ phase' = [phase EXCEPT ![t] = "gone"]
      /\ up' = (t # Main)
      /\ UNCHANGED <<coro, t_deferHandler, t_error, allocated, started, exc, at, ready, ops,
                     accepted, failed>>
  BY DEF Rethrow, serviceVars
<1>2. coro[t] = Acceptor
  BY <1>1 DEF CorosInv
<1>3. /\ Acceptor \in allocated
      /\ ~Waiting(Acceptor) /\ ~Resumed(Acceptor) /\ ~Started(Acceptor)
      /\ \A u \in Thread : Handling(u) /\ u # t => coro[u] # Acceptor
      /\ ~OutOfWork
  BY <1>1, <1>2, OwnCoroutine DEF Handling
<1>4. Acceptor \in running \cap exc /\ Acceptor \notin started /\ t_deferHandler[t] = None
  BY <1>1, <1>2 DEF ThreadsInv, ThreadInv
<1>5. \A u \in Thread : phase[u] # "gone"
  BY <1>3, <1>4 DEF GoneInv
<1>6. \A u \in Thread : /\ phase'[u] = IF u = t THEN "gone" ELSE phase[u]
                        /\ Handling(u)' <=> Handling(u) /\ u # t
  BY <1>1 DEF TypeOK, Handling
<1>7. \A d : /\ Started(d)' <=> Started(d)
             /\ Resumed(d)' <=> Resumed(d)
             /\ Announced(d)' <=> Announced(d)
             /\ Waiting(d)' <=> Waiting(d)
  BY <1>1 DEF Started, Resumed, Announced, Waiting
<1>8. TypeOK'
  BY <1>1 DEF TypeOK
<1>9. ThreadsInv'
  BY <1>1, <1>2, <1>3, <1>4, <1>6 DEF ThreadsInv, ThreadInv, Handling
<1>10. CorosInv'
  BY <1>1, <1>2, <1>7 DEF CorosInv
<1>11. OpsInv'
  BY <1>1 DEF OpsInv
<1>12. ReadyInv'
  BY <1>1, <1>7 DEF ReadyInv
<1>13. OneHolder'
  BY <1>1, <1>6, <1>7 DEF OneHolder
<1>14. SomeHolder'
  BY <1>1, <1>2, <1>4, <1>6, <1>7 DEF SomeHolder
<1>15. GoneInv'
  BY <1>1, <1>2, <1>4, <1>5, <1>6 DEF GoneInv
<1> QED
  BY <1>8, <1>9, <1>10, <1>11, <1>12, <1>13, <1>14, <1>15

\* The coroutine passes from the thread to the operation that is started for it.
LEMMA StartOperationIInv ==
  ASSUME IInv, NEW t \in Thread, StartOperation(t)
  PROVE  IInv'
<1> DEFINE c == coro[t]
           o == [coro |-> c, kind |-> t_deferHandler[t]]
<1> USE DEF IInv
<1>1. /\ phase[t] = "left" /\ t_deferHandler[t] # None
      /\ ops' = ops \cup {o} /\ phase' = [phase EXCEPT ![t] = "deferring"]
      /\ UNCHANGED <<coro, t_deferHandler, t_error, allocated, started, running, exc, at, ready,
                     up, accepted, failed>>
  BY DEF StartOperation, coroVars
<1>2. /\ c \in Coro /\ c \in allocated
      /\ ~Waiting(c) /\ ~Resumed(c) /\ ~Started(c)
      /\ \A u \in Thread : Handling(u) /\ u # t => coro[u] # c
      /\ ~OutOfWork
  BY <1>1, OwnCoroutine DEF Handling
<1>3. /\ c \in started \ (running \cup exc) /\ at[c] = t_deferHandler[t]
      /\ o.coro = c /\ o.kind = at[c] /\ o.kind \in {"accept", "read", "write"}
  BY <1>1 DEF ThreadsInv, ThreadInv, TypeOK
<1>4. \A u \in Thread : /\ phase'[u] = IF u = t THEN "deferring" ELSE phase[u]
                        /\ Handling(u)' <=> Handling(u) /\ u # t
  BY <1>1 DEF TypeOK, Handling
<1>5. /\ \A d : Started(d)' <=> Started(d)
      /\ \A d : Resumed(d)' <=> Resumed(d)
      /\ \A d : Announced(d)' <=> Announced(d)
      /\ \A d : Waiting(d)' <=> Waiting(d) \/ d = c
  BY <1>1, <1>3 DEF Started, Resumed, Announced, Waiting
<1>6. TypeOK'
  BY <1>1, <1>2, <1>3 DEF TypeOK
<1>7. ThreadsInv'
  BY <1>1, <1>4 DEF ThreadsInv, ThreadInv
<1>8. CorosInv'
  BY <1>1, <1>5 DEF CorosInv
<1>9. OpsInv'
  BY <1>1, <1>3 DEF OpsInv
<1>10. ReadyInv'
  BY <1>1, <1>5 DEF ReadyInv
<1>11. OneHolder'
  BY <1>1, <1>2, <1>4, <1>5 DEF OneHolder
<1>12. SomeHolder'
  BY <1>1, <1>3, <1>4, <1>5 DEF SomeHolder
<1>13. GoneInv'
  BY <1>1, <1>2, <1>4 DEF GoneInv
<1> QED
  BY <1>6, <1>7, <1>8, <1>9, <1>10, <1>11, <1>12, <1>13

\* The thread is done with a coroutine it does not hold any more.
LEMMA FinishDeferIInv ==
  ASSUME IInv, NEW t \in Thread, FinishDefer(t)
  PROVE  IInv'
<1> USE DEF IInv
<1>1. /\ phase[t] = "deferring" /\ t_deferHandler' = [t_deferHandler EXCEPT ![t] = None]
      /\ phase' = [phase EXCEPT ![t] = "poll"] /\ coro' = [coro EXCEPT ![t] = None]
      /\ UNCHANGED <<t_error, allocated, started, running, exc, at, ready, ops, up, accepted,
                     failed>>
  BY DEF FinishDefer, coroVars, serviceVars
<1>2. ~Handling(t) /\ ~OutOfWork
  BY <1>1 DEF Handling, OutOfWork
<1>3. \A u \in Thread : /\ phase'[u] = IF u = t THEN "poll" ELSE phase[u]
                        /\ coro'[u] = IF u = t THEN None ELSE coro[u]
                        /\ t_deferHandler'[u] = IF u = t THEN None ELSE t_deferHandler[u]
                        /\ Handling(u)' <=> Handling(u)
  BY <1>1 DEF TypeOK, Handling
<1>4. \A d : /\ Started(d)' <=> Started(d)
             /\ Resumed(d)' <=> Resumed(d)
             /\ Announced(d)' <=> Announced(d)
             /\ Waiting(d)' <=> Waiting(d)
  BY <1>1 DEF Started, Resumed, Announced, Waiting
<1>5. TypeOK'
  BY <1>1 DEF TypeOK
<1>6. ThreadsInv'
  BY <1>1, <1>3 DEF ThreadsInv, ThreadInv
<1>7. CorosInv' /\ OpsInv' /\ ReadyInv'
  BY <1>1, <1>4 DEF CorosInv, OpsInv, ReadyInv
<1>8. OneHolder'
  BY <1>2, <1>3, <1>4 DEF OneHolder
<1>9. SomeHolder'
  BY <1>1, <1>2, <1>3, <1>4 DEF SomeHolder
<1>10. GoneInv'
  BY <1>1, <1>2, <1>3 DEF GoneInv
<1> QED
  BY <1>5, <1>6, <1>7, <1>8, <1>9, <1>10

\* What is deleted has ended, and nobody else holds it.
LEMMA DeleteCoroIInv ==
  ASSUME IInv, NEW t \in Thread, DeleteCoro(t)
  PROVE  IInv'
<1> DEFINE c == coro[t]
<1> USE DEF IInv
<1>1. /\ phase[t] = "left" /\ t_deferHandler[t] = None
      /\ allocated' = allocated \ {c}
      /\ phase' = [phase EXCEPT ![t] = "poll"] /\ coro' = [coro EXCEPT ![t] = None]
      /\ UNCHANGED <<t_deferHandler, t_error, started, running, exc, at, ready, ops, up,
                     accepted, failed>>
  BY DEF DeleteCoro, serviceVars
<1>2. /\ c \in Coro /\ c \in allocated
      /\ ~Waiting(c) /\ ~Resumed(c) /\ ~Started(c)
      /\ \A u \in Thread : Handling(u) /\ u # t => coro[u] # c
      /\ ~OutOfWork /\ Handling(t)
  BY <1>1, OwnCoroutine DEF Handling
<1>3. c \notin started \cup running \cup exc /\ at[c] = "end"
  BY <1>1 DEF ThreadsInv, ThreadInv
<1>4. \A u \in Thread : /\ phase'[u] = IF u = t THEN "poll" ELSE phase[u]
                        /\ coro'[u] = IF u = t THEN None ELSE coro[u]
                        /\ Handling(u)' <=> Handling(u) /\ u # t
  BY <1>1 DEF TypeOK, Handling
<1> HIDE DEF c
<1>5. \A d : /\ Started(d)' <=> Started(d)
             /\ Resumed(d)' <=> Resumed(d)
             /\ Announced(d)' <=> Announced(d)
             /\ Waiting(d)' <=> Waiting(d)
  BY <1>1 DEF Started, Resumed, Announced, Waiting
<1>6. TypeOK'
  BY <1>1, <1>3 DEF TypeOK
<1>7. ThreadsInv'
  BY <1>1, <1>2, <1>4 DEF ThreadsInv, ThreadInv, Handling
<1>8. CorosInv' /\ OpsInv'
  BY <1>1, <1>5 DEF CorosInv, OpsInv
<1>9. ReadyInv'
  BY <1>1, <1>5 DEF ReadyInv
<1>10. OneHolder'
  BY <1>4, <1>5 DEF OneHolder
<1>11. SomeHolder'
  BY <1>1, <1>2, <1>3, <1>4, <1>5 DEF SomeHolder, c
<1>12. GoneInv'
  BY <1>1, <1>2, <1>4 DEF GoneInv
<1> QED
  BY <1>6, <1>7, <1>8, <1>9, <1>10, <1>11, <1>12

LEMMA NextIInv == IInv /\ [Next]_vars => IInv'
<1> SUFFICES ASSUME IInv, [Next]_vars PROVE IInv'
  OBVIOUS
<1>1. ASSUME NetworkStep PROVE IInv'
  BY <1>1, AcceptCompletesIInv, TransferCompletesIInv, OperationFailsIInv DEF NetworkStep
<1>2. ASSUME NEW t \in Thread, ThreadStep(t) PROVE IInv'
  BY <1>2, TakeGoIInv, TakeCompletionIInv, RunReturnsIInv, AcceptNextIInv, AcceptFailsIInv,
     SessionNextIInv, SessionEndsIInv, LeaveIInv, RethrowIInv, StartOperationIInv,
     FinishDeferIInv, DeleteCoroIInv DEF ThreadStep
<1>3. CASE UNCHANGED vars
  <2>1. /\ UNCHANGED <<phase, coro, t_deferHandler, t_error, allocated, started, running, exc, at>>
        /\ UNCHANGED <<ready, ops, up, accepted, failed>>
    BY <1>3 DEF vars, threadVars, coroVars, serviceVars
  <2>2. TypeOK'
    BY <2>1 DEF IInv, TypeOK
  <2>3. ThreadsInv' /\ OpsInv'
    BY <2>1 DEF IInv, ThreadsInv, ThreadInv, OpsInv
  <2>4. CorosInv' /\ ReadyInv'
    BY <2>1 DEF IInv, CorosInv, ReadyInv, Started, Announced
  <2>5. OneHolder' /\ SomeHolder'
    BY <2>1 DEF IInv, OneHolder, SomeHolder, Handling, Waiting, Resumed
  <2>6. GoneInv'
    BY <2>1 DEF IInv, GoneInv, OutOfWork
  <2> QED
    BY <2>2, <2>3, <2>4, <2>5, <2>6 DEF IInv
<1> QED
  BY <1>1, <1>2, <1>3 DEF Next

\* The invariant holds in every state the server reaches, whatever the numbers
\* of its threads and clients.
THEOREM Invariance == Spec => []IInv
BY InitIInv, NextIInv, PTL DEF Spec

-----------------------------------------------------------------------------
(* The properties of the run                                               *)

\* Flags, handlers and operations are what their types say: in particular a
\* coroutine has its flags only while it is allocated.
THEOREM TypeCorrect == Spec => []TypeOK
<1>1. IInv => TypeOK
  BY DEF IInv
<1> QED
  BY <1>1, Invariance, PTL

\* The indices at which handlers are ready for a coroutine, and the elements.
LEMMA IndicesOfElements ==
  ASSUME IInv, NEW c
  PROVE  /\ \A i, j \in Resuming(c) : i = j
         /\ Resuming(c) # {} <=> Resumed(c)
         /\ \A i, j \in Starting(c) : i = j
         /\ Starting(c) # {} <=> Started(c)
BY DEF IInv, ReadyInv, OnePerCoro, Elements, Resuming, Starting, Resumed, Started

\* The assertions of resume, defer and onCoroComplete hold at whatever moment a
\* thread gets to them.
THEOREM VerifyAlwaysHolds == Spec => []VerifyHolds
<1>1. IInv => VerifyHolds
  <2> SUFFICES ASSUME IInv PROVE VerifyHolds
    OBVIOUS
  <2>1. \A c \in Coro : Resuming(c) # {} => c \in started \ running
    BY IndicesOfElements DEF IInv, ReadyInv, Resumed
  <2>2. \A t \in Thread : phase[t] \in {"poll", "inside"} => t_deferHandler[t] = None
    BY DEF IInv, ThreadsInv, ThreadInv
  <2>3. \A t \in Thread : phase[t] = "left" =>
          (coro[t] \in started \cup running <=> t_deferHandler[t] # None)
    BY DEF IInv, ThreadsInv, ThreadInv
  <2> QED
    BY <2>1, <2>2, <2>3 DEF VerifyHolds
<1> QED
  BY <1>1, Invariance, PTL

\* A coroutine has exactly one holder while it can go on, and none afterwards.
LEMMA HoldersCounted ==
  ASSUME IInv, NEW c \in Coro
  PROVE  Cardinality({t \in Thread : Handling(t) /\ coro[t] = c})
           + Cardinality({o \in ops : o.coro = c}) + Cardinality(Resuming(c))
         = IF c \in allocated \ exc THEN 1
           ELSE IF c \in exc /\ c \in running THEN 1 ELSE 0
<1> DEFINE T == {t \in Thread : Handling(t) /\ coro[t] = c}
           O == {o \in ops : o.coro = c}
           R == Resuming(c)
<1>1. Cardinality(T) = IF T = {} THEN 0 ELSE 1
  <2>1. \A t, u \in T : t = u
    BY DEF IInv, OneHolder
  <2> QED
    BY <2>1, AtMostOne
<1>2. Cardinality(O) = IF O = {} THEN 0 ELSE 1
  <2>1. \A o, p \in O : o = p
    BY OperationsDiffer DEF IInv
  <2> QED
    BY <2>1, AtMostOne
<1>3. Cardinality(R) = IF R = {} THEN 0 ELSE 1
  <2>1. \A i, j \in R : i = j
    BY IndicesOfElements
  <2> QED
    BY <2>1, AtMostOne
<1>4. /\ T # {} <=> \E t \in Thread : Handling(t) /\ coro[t] = c
      /\ O # {} <=> Waiting(c)
      /\ R # {} <=> Resumed(c)
  BY IndicesOfElements DEF Waiting
<1>5. /\ T # {} => O = {} /\ R = {}
      /\ O # {} => R = {}
  BY <1>4 DEF IInv, OneHolder
<1>6. O # {} \/ R # {} => c \in allocated \ exc
  BY <1>4 DEF IInv, OpsInv, ReadyInv, Waiting, Resumed, TypeOK
<1>7. T # {} => c \in allocated /\ (c \in exc => c \in running)
  BY <1>4, HandledIsAllocated DEF IInv, ThreadsInv, ThreadInv, Handling
<1>8. c \in allocated \ exc => T # {} \/ O # {} \/ R # {}
  BY <1>4 DEF IInv, SomeHolder
<1>9. c \in exc /\ c \in running => T # {}
  BY <1>4 DEF IInv, SomeHolder
<1> HIDE DEF T, O, R
<1>10. Cardinality(T) + Cardinality(O) + Cardinality(R)
         = IF c \in allocated \ exc THEN 1
           ELSE IF c \in exc /\ c \in running THEN 1 ELSE 0
  BY <1>1, <1>2, <1>3, <1>5, <1>6, <1>7, <1>8, <1>9
<1> QED
  BY <1>10 DEF T, O, R

\* No coroutine is lost or resumed twice, and every accepted connection gets its
\* coroutine once.
THEOREM CoroutinesNeverLost == Spec => []NeverLost
<1>1. IInv => NeverLost
  <2> SUFFICES ASSUME IInv PROVE NeverLost
    OBVIOUS
  <2>1. ASSUME NEW c \in Conn
        PROVE  /\ Cardinality(Starting(c)) <= 1
               /\ Starting(c) # {} => c \in accepted /\ c \notin allocated /\ at[c] = "start"
               /\ c \in accepted /\ at[c] = "start" =>
                    \/ Starting(c) # {} \/ c \in running
                    \/ \E i \in Resuming(Acceptor) : ready[i].conn = c
    <3>1. Cardinality(Starting(c)) <= 1
      <4>1. Cardinality(Starting(c)) = IF Starting(c) = {} THEN 0 ELSE 1
        BY IndicesOfElements, AtMostOne
      <4> QED
        BY <4>1
    <3>2. Starting(c) # {} => c \in accepted /\ c \notin allocated /\ at[c] = "start"
      BY IndicesOfElements DEF IInv, ReadyInv, Started
    <3>3. Announced(c) => \E i \in Resuming(Acceptor) : ready[i].conn = c
      BY DEF Announced, Elements, Resuming
    <3> QED
      BY <3>1, <3>2, <3>3, IndicesOfElements DEF IInv, CorosInv
  <2> QED
    BY <2>1, HoldersCounted DEF NeverLost
<1> QED
  BY <1>1, Invariance, PTL

\* A coroutine ends by an error of its own, never by one that another coroutine
\* left behind on the thread.
THEOREM ErrorsAreOwn == Spec => []EndsByOwnError
<1>1. IInv => EndsByOwnError
  BY DEF IInv, CorosInv, EndsByOwnError
<1> QED
  BY <1>1, Invariance, PTL

\* Until the service runs out of work at most one thread is gone, and only after
\* the accept loop failed, however many clients went away.
THEOREM ThreadsAreKept == Spec => []ThreadsSurvive
<1>1. IInv => ThreadsSurvive
  <2> SUFFICES ASSUME IInv, ~(ready = <<>> /\ ops = {})
               PROVE  Cardinality({t \in Thread : phase[t] = "gone"})
                        <= IF Acceptor \in exc THEN 1 ELSE 0
    BY DEF ThreadsSurvive
  <2> DEFINE G == {t \in Thread : phase[t] = "gone"}
  <2>1. /\ \A t, u \in G : t = u
        /\ G # {} => Acceptor \in exc
    BY DEF IInv, GoneInv, OutOfWork
  <2>2. Cardinality(G) = IF G = {} THEN 0 ELSE 1
    BY <2>1, AtMostOne
  <2> QED
    BY <2>1, <2>2
<1> QED
  BY <1>1, Invariance, PTL
=============================================================================

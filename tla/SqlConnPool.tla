---------------------------- MODULE SqlConnPool ----------------------------
(***************************************************************************)
(* sql_conn_pool of code/pool/sql_conn_pool.cpp and its one client,        *)
(* http_request::verify_user_, which the workers of the thread pool run.   *)
(*                                                                         *)
(* verify_user_ writes sql_conn_RAII(&sql, ...) without a name for the     *)
(* object: a temporary, whose destructor gives the connection back before  *)
(* the first query.  The explicit free_conn at the end gives it back a     *)
(* second time.  What the queries say is left out, they fail or succeed.   *)
(*                                                                         *)
(* A section that holds mtx_ is one action.  free_conn notifies before it  *)
(* unlocks.                                                                *)
(***************************************************************************)
EXTENDS Naturals, Sequences, FiniteSets

CONSTANTS
  Thread,       \* the workers that may run verify_user_
  Conn,         \* the connections mysql_real_connect may make
  Null,         \* nullptr
  MaxConn,      \* MAX_CONN_, the connections init asks for
  MayFail,      \* mysql_real_connect may fail
  MaxCalls      \* bound on the number of calls of verify_user_

ASSUME SqlAssumption ==
  /\ IsFiniteSet(Thread) /\ IsFiniteSet(Conn)
  /\ MaxConn \in Nat \ {0} /\ MaxCalls \in Nat
  /\ MaxConn <= Cardinality(Conn)
  /\ Null \notin Conn
  /\ MayFail \in BOOLEAN

VARIABLES
  conn_queue,   \* conn_queue_, of connections and of nullptr
  made,         \* the connections init has made
  open,         \* close_pool was not called
  pc,           \* where each thread is
  sql,          \* the local variable sql of each thread
  calls         \* number of calls so far

vars == <<conn_queue, made, open, pc, sql, calls>>

At(at) == {t \in Thread : pc[t] = at}
Alive == At("aborted") = {}

(* init pushes what mysql_real_connect returned, also when it failed. *)
Init ==
  /\ conn_queue \in [1 .. MaxConn -> Conn \cup {Null}]
  /\ \A j, k \in 1 .. MaxConn :
       conn_queue[j] = conn_queue[k] /\ conn_queue[j] # Null => j = k
  /\ ~MayFail => \A k \in 1 .. MaxConn : conn_queue[k] # Null
  /\ made = {conn_queue[k] : k \in 1 .. MaxConn} \ {Null}
  /\ open = TRUE
  /\ pc = [t \in Thread |-> "idle"]
  /\ sql = [t \in Thread |-> Null]
  /\ calls = 0
-----------------------------------------------------------------------------
(* A request to log in or to register reaches the constructor. *)
Call(t) ==
  /\ pc[t] = "idle"
  /\ open /\ calls < MaxCalls
  /\ calls' = calls + 1
  /\ pc' = [pc EXCEPT ![t] = "get"]
  /\ UNCHANGED <<conn_queue, made, open, sql>>

(* Faulty variant: no test for an empty queue, whose front is undefined.    *)
GetConnUnchecked(t) ==
  /\ pc[t] = "get"
  /\ sql' = [sql EXCEPT ![t] = IF conn_queue = <<>> THEN "undefined"
                                                  ELSE Head(conn_queue)]
  /\ conn_queue' = SubSeq(conn_queue, 2, Len(conn_queue))
  /\ pc' = [pc EXCEPT ![t] = "destroy"]
  /\ UNCHANGED <<made, open, calls>>

GetConn(t) ==
  /\ pc[t] = "get"
  /\ conn_queue # <<>>
  /\ sql' = [sql EXCEPT ![t] = Head(conn_queue)]
  /\ conn_queue' = Tail(conn_queue)
  /\ pc' = [pc EXCEPT ![t] = "destroy"]
  /\ UNCHANGED <<made, open, calls>>

(* cond_.wait in the loop of get_conn, and its spurious return. *)
GetWaits(t) ==
  /\ pc[t] = "get"
  /\ conn_queue = <<>>
  /\ pc' = [pc EXCEPT ![t] = "waiting"]
  /\ UNCHANGED <<conn_queue, made, open, sql, calls>>

SpuriousWake(t) ==
  /\ pc[t] = "waiting"
  /\ pc' = [pc EXCEPT ![t] = "get"]
  /\ UNCHANGED <<conn_queue, made, open, sql, calls>>

(* Faulty variant: free_conn does not notify. *)
FreeConnSilent(t, next) ==
  /\ conn_queue' = Append(conn_queue, sql[t])
  /\ pc' = [pc EXCEPT ![t] = next]

(* free_conn: push, and notify_one before the lock is given back. *)
FreeConn(t, next) ==
  /\ conn_queue' = Append(conn_queue, sql[t])
  /\ IF At("waiting") = {}
       THEN pc' = [pc EXCEPT ![t] = next]
       ELSE \E w \in At("waiting") :
              pc' = [pc EXCEPT ![t] = next, ![w] = "get"]

(* Faulty variant: the connection stays with the call. *)
DestroyKeeps(t) ==
  /\ pc[t] = "destroy"
  /\ pc' = [pc EXCEPT ![t] = "assert"]
  /\ UNCHANGED <<conn_queue, made, open, sql, calls>>

(* ~sql_conn_RAII of the temporary. *)
DestroyRAII(t) ==
  /\ pc[t] = "destroy"
  /\ IF sql[t] # Null
       THEN FreeConn(t, "assert")
       ELSE pc' = [pc EXCEPT ![t] = "assert"] /\ UNCHANGED conn_queue
  /\ UNCHANGED <<made, open, sql, calls>>

(* assert(sql): the build has assertions, and a failed one ends the process. *)
AssertSql(t) ==
  /\ pc[t] = "assert"
  /\ pc' = [pc EXCEPT ![t] = IF sql[t] = Null THEN "aborted" ELSE "query"]
  /\ UNCHANGED <<conn_queue, made, open, sql, calls>>

(* The queries.  When the first one fails, verify_user_ returns at once.   *)
Query(t) ==
  /\ pc[t] = "query"
  /\ \/ pc' = [pc EXCEPT ![t] = "free"] /\ UNCHANGED sql
     \/ pc' = [pc EXCEPT ![t] = "idle"] /\ sql' = [sql EXCEPT ![t] = Null]
  /\ UNCHANGED <<conn_queue, made, open, calls>>

(* sql_conn_pool::instance()->free_conn(sql), and return. *)
FreeAgain(t) ==
  /\ pc[t] = "free"
  /\ FreeConn(t, "idle")
  /\ sql' = [sql EXCEPT ![t] = Null]
  /\ UNCHANGED <<made, open, calls>>

(* close_pool, by the destructor when the process ends.  server::start     *)
(* returns only if the construction of the server failed, before any call. *)
ClosePool ==
  /\ open /\ calls = 0
  /\ open' = FALSE
  /\ conn_queue' = <<>>
  /\ UNCHANGED <<made, pc, sql, calls>>
-----------------------------------------------------------------------------
Next ==
  /\ Alive
  /\ \/ ClosePool
     \/ \E t \in Thread :
          \/ Call(t) \/ GetConn(t) \/ GetWaits(t) \/ SpuriousWake(t)
          \/ DestroyRAII(t) \/ AssertSql(t) \/ Query(t) \/ FreeAgain(t)

(* Threads run and queries end; which waiting thread gets a connection is  *)
(* up to the mutex.                                                        *)
Fairness ==
  /\ WF_vars(Alive /\ \E t \in Thread : GetConn(t))
  /\ \A t \in Thread : WF_vars(Alive /\
       (DestroyRAII(t) \/ AssertSql(t) \/ Query(t) \/ FreeAgain(t)))

Spec == Init /\ [][Next]_vars /\ Fairness
-----------------------------------------------------------------------------
TypeOK ==
  /\ conn_queue \in Seq(Conn \cup {Null})
  /\ made \subseteq Conn
  /\ open \in BOOLEAN
  /\ pc \in [Thread -> {"idle", "get", "waiting", "destroy", "assert",
                        "query", "free", "aborted"}]
  /\ sql \in [Thread -> Conn \cup {Null}]
  /\ calls \in 0 .. MaxCalls

(* No path through verify_user_, the early return of a failed query        *)
(* included, loses a connection: it is in the queue, or a call is about to *)
(* give it back.                                                           *)
NoneLost ==
  open => \A c \in made :
    \/ \E k \in 1 .. Len(conn_queue) : conn_queue[k] = c
    \/ \E t \in At("destroy") : sql[t] = c

(* Every call of verify_user_ gets its connection and returns, unless the  *)
(* assertion ends the process.                                             *)
EveryCallEnds ==
  \A t \in Thread : pc[t] # "idle" ~> pc[t] = "idle" \/ ~Alive

(* The pool holds MAX_CONN_ connections and not more: the size main.cpp    *)
(* configures.                                                             *)
PoolBounded == Len(conn_queue) <= MaxConn
=============================================================================

-------------------------- MODULE SqlConnPoolProofs --------------------------
(***************************************************************************)
(* No path of verify_user_ loses a connection, for every number of threads *)
(* and connections.                                                        *)
(***************************************************************************)
EXTENDS SqlConnPool, SequenceTheorems, TLAPS

InQueue(c) == \E k \in 1 .. Len(conn_queue) : conn_queue[k] = c
InHand(c) == \E t \in At("destroy") : sql[t] = c

IInv == TypeOK /\ NoneLost

LEMMA InitInv == Init => IInv
<1> SUFFICES ASSUME Init PROVE IInv
  OBVIOUS
<1>1. conn_queue \in Seq(Conn \cup {Null}) /\ Len(conn_queue) = MaxConn
  BY SqlAssumption DEF Init, SqlAssumption
<1>2. TypeOK
  BY <1>1, SqlAssumption DEF Init, TypeOK, SqlAssumption
<1>3. NoneLost
  BY <1>1 DEF Init, NoneLost
<1>4. QED
  BY <1>2, <1>3 DEF IInv

(* free_conn: the queue keeps what it has, the connection of t is in it,   *)
(* and no other thread leaves the place it is at but to take one.          *)
LEMMA FreeConnGives ==
  ASSUME TypeOK, NEW t \in Thread, NEW next \in {"assert", "idle"},
         FreeConn(t, next)
  PROVE  /\ conn_queue' \in Seq(Conn \cup {Null})
         /\ pc' \in [Thread -> {"idle", "get", "waiting", "destroy", "assert",
                                "query", "free", "aborted"}]
         /\ \A c : InQueue(c) \/ c = sql[t] => InQueue(c)'
         /\ \A u \in At("destroy") \ {t} : pc'[u] = "destroy"
<1>1. conn_queue \in Seq(Conn \cup {Null}) /\ sql[t] \in Conn \cup {Null}
  BY DEF TypeOK
<1>2. conn_queue' = Append(conn_queue, sql[t])
  BY DEF FreeConn
<1>3. /\ Len(conn_queue') = Len(conn_queue) + 1
      /\ conn_queue'[Len(conn_queue) + 1] = sql[t]
      /\ \A k \in 1 .. Len(conn_queue) : conn_queue'[k] = conn_queue[k]
      /\ conn_queue' \in Seq(Conn \cup {Null})
  BY <1>1, <1>2, AppendProperties
<1>4. \A c : InQueue(c) \/ c = sql[t] => InQueue(c)'
  <2>1. Len(conn_queue) \in Nat
    BY <1>1
  <2>2. QED
    BY <2>1, <1>3 DEF InQueue
<1>5. /\ pc' \in [Thread -> {"idle", "get", "waiting", "destroy", "assert",
                             "query", "free", "aborted"}]
      /\ \A u \in At("destroy") \ {t} : pc'[u] = "destroy"
  BY DEF FreeConn, At, TypeOK
<1>6. QED
  BY <1>3, <1>4, <1>5

(* get_conn: the front goes to t and the others stay.                      *)
LEMMA GetConnTakes ==
  ASSUME TypeOK, NEW t \in Thread, GetConn(t)
  PROVE  /\ conn_queue' \in Seq(Conn \cup {Null})
         /\ sql'[t] \in Conn \cup {Null}
         /\ \A c : InQueue(c) => InQueue(c)' \/ sql'[t] = c
<1>1. conn_queue \in Seq(Conn \cup {Null}) /\ conn_queue # <<>>
  BY DEF TypeOK, GetConn
<1>2. /\ Head(conn_queue) \in Conn \cup {Null}
      /\ conn_queue' \in Seq(Conn \cup {Null})
      /\ Len(conn_queue') = Len(conn_queue) - 1
      /\ \A k \in 1 .. Len(conn_queue') : conn_queue'[k] = conn_queue[k + 1]
  BY <1>1, HeadTailProperties DEF GetConn
<1>3. sql'[t] = Head(conn_queue) /\ Head(conn_queue) = conn_queue[1]
  BY <1>1 DEF TypeOK, GetConn
<1>4. ASSUME NEW c, NEW k \in 1 .. Len(conn_queue), conn_queue[k] = c, k # 1
      PROVE  InQueue(c)'
  <2>1. k - 1 \in 1 .. Len(conn_queue') /\ conn_queue'[k - 1] = conn_queue[k]
    BY <1>1, <1>2, <1>4
  <2>2. QED
    BY <2>1, <1>4 DEF InQueue
<1>5. QED
  BY <1>2, <1>3, <1>4 DEF InQueue

LEMMA NextInv == IInv /\ [Next]_vars => IInv'
<1> SUFFICES ASSUME IInv, [Next]_vars PROVE IInv'
  OBVIOUS
<1> USE DEF IInv
<1>kept. ASSUME TypeOK', open' => open /\ made' = made,
                \A c \in made : InQueue(c) \/ InHand(c) => InQueue(c)' \/ InHand(c)'
         PROVE  IInv'
  BY <1>kept DEF NoneLost, InQueue, InHand
<1>1. CASE ClosePool
  <2>0. <<>> \in Seq(Conn \cup {Null})
    OBVIOUS
  <2>1. TypeOK'
    BY <1>1, <2>0 DEF TypeOK, ClosePool
  <2>2. QED
    BY <1>1, <2>1 DEF ClosePool, NoneLost
<1>2. ASSUME NEW t \in Thread, Call(t) \/ GetWaits(t) \/ SpuriousWake(t) \/ AssertSql(t) \/ Query(t)
      PROVE  IInv'
  <2>1. TypeOK'
    BY <1>2, SqlAssumption DEF TypeOK, Call, GetWaits, SpuriousWake, AssertSql, Query, SqlAssumption
  <2>2. conn_queue' = conn_queue /\ made' = made /\ open' = open
    BY <1>2 DEF Call, GetWaits, SpuriousWake, AssertSql, Query
  <2>3. \A u \in At("destroy") : pc'[u] = "destroy" /\ sql'[u] = sql[u]
    BY <1>2 DEF TypeOK, At, Call, GetWaits, SpuriousWake, AssertSql, Query
  <2>4. \A c \in made : InQueue(c) \/ InHand(c) => InQueue(c)' \/ InHand(c)'
    BY <2>2, <2>3 DEF InQueue, InHand, At
  <2>5. QED
    BY <2>1, <2>2, <2>4, <1>kept
<1>3. ASSUME NEW t \in Thread, GetConn(t) PROVE IInv'
  <2>1. TypeOK'
    BY <1>3, GetConnTakes DEF TypeOK, GetConn
  <2>2. t \in At("destroy")' /\ \A u \in At("destroy") : u \in At("destroy")' /\ sql'[u] = sql[u]
    BY <1>3 DEF TypeOK, At, GetConn
  <2>3. \A c \in made : InQueue(c) \/ InHand(c) => InQueue(c)' \/ InHand(c)'
    BY <1>3, <2>2, GetConnTakes DEF InHand
  <2>4. QED
    BY <1>3, <2>1, <2>3, <1>kept DEF GetConn
<1>4. ASSUME NEW t \in Thread, DestroyRAII(t) PROVE IInv'
  <2>1. CASE sql[t] = Null
    <3>1. TypeOK'
      BY <1>4, <2>1 DEF TypeOK, DestroyRAII
    <3>2. conn_queue' = conn_queue /\ sql' = sql /\ \A u \in At("destroy") \ {t} : u \in At("destroy")'
      BY <1>4, <2>1 DEF TypeOK, At, DestroyRAII
    <3>3. \A c \in made : c # Null
      BY SqlAssumption DEF TypeOK, SqlAssumption
    <3>4. \A c \in made : InQueue(c) \/ InHand(c) => InQueue(c)' \/ InHand(c)'
      BY <2>1, <3>2, <3>3 DEF InQueue, InHand
    <3>5. QED
      BY <1>4, <3>1, <3>4, <1>kept DEF DestroyRAII
  <2>2. CASE sql[t] # Null
    <3>1. FreeConn(t, "assert") /\ sql' = sql
      BY <1>4, <2>2 DEF DestroyRAII
    <3>2. TypeOK'
      BY <1>4, <3>1, FreeConnGives DEF TypeOK, DestroyRAII
    <3>3. \A u \in At("destroy") \ {t} : u \in At("destroy")'
      BY <3>1, FreeConnGives DEF At
    <3>4. \A c \in made : InQueue(c) \/ InHand(c) => InQueue(c)' \/ InHand(c)'
      BY <3>1, <3>3, FreeConnGives DEF InHand
    <3>5. QED
      BY <1>4, <3>2, <3>4, <1>kept DEF DestroyRAII
  <2>3. QED
    BY <2>1, <2>2
<1>5. ASSUME NEW t \in Thread, FreeAgain(t) PROVE IInv'
  <2>1. FreeConn(t, "idle") /\ t \notin At("destroy")
    BY <1>5 DEF FreeAgain, At
  <2>2. TypeOK'
    BY <1>5, <2>1, FreeConnGives DEF TypeOK, FreeAgain
  <2>3. \A u \in At("destroy") : u \in At("destroy")' /\ sql'[u] = sql[u]
    BY <1>5, <2>1, FreeConnGives DEF TypeOK, At, FreeAgain
  <2>4. \A c \in made : InQueue(c) \/ InHand(c) => InQueue(c)' \/ InHand(c)'
    BY <2>1, <2>3, FreeConnGives DEF InHand
  <2>5. QED
    BY <1>5, <2>2, <2>4, <1>kept DEF FreeAgain
<1>6. CASE UNCHANGED vars
  BY <1>6 DEF vars, TypeOK, NoneLost, At
<1>7. QED
  BY <1>1, <1>2, <1>3, <1>4, <1>5, <1>6 DEF Next

LEMMA Invariance == Spec => []IInv
BY InitInv, NextInv, PTL DEF Spec

(* Type correctness of the pool and of verify_user_.                       *)
THEOREM TypeCorrect == Spec => []TypeOK
<1>1. IInv => TypeOK
  BY DEF IInv
<1>2. QED
  BY <1>1, Invariance, PTL

(* A connection that was made is in the queue, or about to be given back,  *)
(* on every path through verify_user_.                                     *)
THEOREM NothingLost == Spec => []NoneLost
<1>1. IInv => NoneLost
  BY DEF IInv
<1>2. QED
  BY <1>1, Invariance, PTL
=============================================================================

------------------------------ MODULE AsyncLog ------------------------------
(***************************************************************************)
(* Log of code/log/log.cpp with the block_deque of code/log/block_deque.h: *)
(* threads that log hand their lines to a logger thread through a bounded  *)
(* queue, and write a line to the file themselves when the queue is full.  *)
(*                                                                         *)
(* Two mutexes are involved.  Log::mtx_ is held over several calls of the  *)
(* queue and is the variable log_lock.  The mutex of the queue is held     *)
(* within one of its functions only, which is therefore one action.        *)
(*                                                                         *)
(* A line is the number of its Log::write call in the order in which they  *)
(* got the lock.  Which file fp_ is, is left out: a rotation exchanges fp_ *)
(* under mtx_ and neither drops nor moves a line.  The destructor runs     *)
(* when main has returned, which it does only before any task was handed   *)
(* to a worker: nobody logs meanwhile.                                     *)
(***************************************************************************)
EXTENDS Naturals, Sequences, FiniteSets

CONSTANTS
  Writer,       \* the threads that use the LOG_ macros
  Logger,       \* write_thread_
  Main,         \* the thread that runs ~Log
  None,         \* nobody
  QueueCap,     \* the parameter max_queue_cap of Log::init
  Capacity,     \* capacity_ of the queue, by the default of its constructor
  MaxLines      \* bound on the number of lines

ASSUME LogAssumption ==
  /\ IsFiniteSet(Writer)
  /\ Logger \notin Writer /\ Main \notin Writer /\ None \notin Writer
  /\ Cardinality({Logger, Main, None}) = 3
  /\ QueueCap \in Nat /\ Capacity \in Nat \ {0} /\ MaxLines \in Nat

VARIABLES
  written,      \* number of lines so far, line_count_ without its resets
  log_lock,     \* the thread that holds Log::mtx_, or None
  deq,          \* deq_ of the queue
  is_closed,    \* is_closed_ of the queue
  file,         \* the lines that fputs was called for
  pc,           \* where each writer is
  line,         \* the line a writer is at, 0 if none
  logger,       \* where the logger thread is
  str,          \* its local variable str, 0 when it was written
  dtor          \* where ~Log is

vars == <<written, log_lock, deq, is_closed, file, pc, line, logger, str, dtor>>

Async == QueueCap > 0

Init ==
  /\ written = 0 /\ log_lock = None
  /\ deq = <<>> /\ is_closed = FALSE /\ file = <<>>
  /\ pc = [w \in Writer |-> "idle"] /\ line = [w \in Writer |-> 0]
  /\ logger = IF Async THEN "pop" ELSE "none"
  /\ str = 0
  /\ dtor = "alive"

(* cond_consumer_.notify_one: only the logger waits on that condition. *)
Notified == IF logger = "waiting" THEN "woken" ELSE logger
-----------------------------------------------------------------------------
(* Log::write, then Log::flush. *)

(* Faulty variant: the line is numbered and pushed without mtx_. *)
WriteUnlocked(w) ==
  /\ pc[w] = "idle" /\ dtor = "alive"
  /\ written < MaxLines
  /\ written' = written + 1
  /\ line' = [line EXCEPT ![w] = written + 1]
  /\ pc' = [pc EXCEPT ![w] = "full"]
  /\ UNCHANGED <<log_lock, deq, is_closed, file, logger, str, dtor>>

(* Take mtx_ and format the line in buff_. *)
Write(w) ==
  /\ pc[w] = "idle" /\ dtor = "alive"
  /\ log_lock = None /\ written < MaxLines
  /\ log_lock' = w
  /\ written' = written + 1
  /\ line' = [line EXCEPT ![w] = written + 1]
  /\ pc' = [pc EXCEPT ![w] = "full"]
  /\ UNCHANGED <<deq, is_closed, file, logger, str, dtor>>

(* is_async_ && deque_ && !deque_->full() *)
CheckFull(w) ==
  /\ pc[w] = "full"
  /\ pc' = [pc EXCEPT ![w] =
              IF Async /\ Len(deq) < Capacity THEN "push" ELSE "puts"]
  /\ UNCHANGED <<written, log_lock, deq, is_closed, file, line, logger, str,
                 dtor>>

(* The end of write: mtx_ is given back. *)
Unlock(w) ==
  /\ log_lock' = None
  /\ line' = [line EXCEPT ![w] = 0]
  /\ pc' = [pc EXCEPT ![w] = "flush"]

(* push_back, which waits on cond_producer_ while the queue is full. *)
Push(w) ==
  /\ pc[w] = "push"
  /\ Len(deq) < Capacity
  /\ deq' = Append(deq, line[w])
  /\ logger' = Notified
  /\ Unlock(w)
  /\ UNCHANGED <<written, is_closed, file, str, dtor>>

(* fputs(buff_.peek(), fp_) *)
Puts(w) ==
  /\ pc[w] = "puts"
  /\ file' = Append(file, line[w])
  /\ Unlock(w)
  /\ UNCHANGED <<written, deq, is_closed, logger, str, dtor>>

(* Log::flush: fflush under mtx_, then deque_->flush(). *)
Flush(w) ==
  /\ pc[w] = "flush"
  /\ log_lock = None
  /\ pc' = [pc EXCEPT ![w] = IF Async THEN "notify" ELSE "idle"]
  /\ UNCHANGED <<written, log_lock, deq, is_closed, file, line, logger, str,
                 dtor>>

FlushQueue(w) ==
  /\ pc[w] = "notify"
  /\ logger' = Notified
  /\ pc' = [pc EXCEPT ![w] = "idle"]
  /\ UNCHANGED <<written, log_lock, deq, is_closed, file, line, str, dtor>>
-----------------------------------------------------------------------------
(* The logger thread, Log::async_write_ around block_deque::pop_front. *)

(* Faulty variants: the wait comes before the test of the queue; and the   *)
(* queue is not tested again after it, so that front() may be undefined.   *)
PopWaitsFirst ==
  /\ logger = "pop" \/ (logger = "woken" /\ ~is_closed /\ deq = <<>>)
  /\ logger' = "waiting"
  /\ UNCHANGED <<written, log_lock, deq, is_closed, file, pc, line, str, dtor>>

PopFrontUntested ==
  /\ (logger = "pop" /\ deq # <<>>) \/ (logger = "woken" /\ ~is_closed)
  /\ str' = IF deq = <<>> THEN MaxLines + 1 ELSE Head(deq)
  /\ deq' = SubSeq(deq, 2, Len(deq))
  /\ logger' = "puts"
  /\ UNCHANGED <<written, log_lock, is_closed, file, pc, line, dtor>>

(* The queue is empty: wait.  is_closed_ is looked at after a wait only.   *)
PopWaits ==
  /\ deq = <<>>
  /\ logger = "pop" \/ (logger = "woken" /\ ~is_closed)
  /\ logger' = "waiting"
  /\ UNCHANGED <<written, log_lock, deq, is_closed, file, pc, line, str, dtor>>

(* cond_consumer_.wait may return without a notification. *)
SpuriousWake ==
  /\ logger = "waiting"
  /\ logger' = "woken"
  /\ UNCHANGED <<written, log_lock, deq, is_closed, file, pc, line, str, dtor>>

PopFront ==
  /\ deq # <<>>
  /\ logger = "pop" \/ (logger = "woken" /\ ~is_closed)
  /\ str' = Head(deq)
  /\ deq' = Tail(deq)
  /\ logger' = "puts"
  /\ UNCHANGED <<written, log_lock, is_closed, file, pc, line, dtor>>

(* fputs under mtx_. *)
LoggerPuts ==
  /\ logger = "puts"
  /\ log_lock = None
  /\ file' = Append(file, str)
  /\ str' = 0
  /\ logger' = "pop"
  /\ UNCHANGED <<written, log_lock, deq, is_closed, pc, line, dtor>>

(* pop_front returns false, and the thread ends. *)
LoggerExit ==
  /\ logger = "woken"
  /\ is_closed
  /\ logger' = "exited"
  /\ UNCHANGED <<written, log_lock, deq, is_closed, file, pc, line, str, dtor>>
-----------------------------------------------------------------------------
(* ~Log *)

Destroy ==
  /\ dtor = "alive"
  /\ \A w \in Writer : pc[w] = "idle"
  /\ dtor' = IF Async THEN "drain" ELSE "file"
  /\ UNCHANGED <<written, log_lock, deq, is_closed, file, pc, line, logger, str>>

(* Faulty variant: the queue is closed with lines in it. *)
DrainNothing ==
  /\ dtor = "drain"
  /\ dtor' = "close"
  /\ UNCHANGED <<written, log_lock, deq, is_closed, file, pc, line, logger, str>>

(* while(!deque_->empty()) deque_->flush() *)
Drain ==
  /\ dtor = "drain"
  /\ IF deq = <<>>
       THEN dtor' = "close" /\ UNCHANGED logger
       ELSE logger' = Notified /\ UNCHANGED dtor
  /\ UNCHANGED <<written, log_lock, deq, is_closed, file, pc, line, str>>

(* deque_->close(), whose notify_all comes after the unlock. *)
Close ==
  /\ dtor = "close"
  /\ deq' = <<>>
  /\ is_closed' = TRUE
  /\ dtor' = "notify_all"
  /\ UNCHANGED <<written, log_lock, file, pc, line, logger, str>>

NotifyAll ==
  /\ dtor = "notify_all"
  /\ logger' = Notified
  /\ dtor' = "join"
  /\ UNCHANGED <<written, log_lock, deq, is_closed, file, pc, line, str>>

Join ==
  /\ dtor = "join"
  /\ logger = "exited"
  /\ dtor' = "file"
  /\ UNCHANGED <<written, log_lock, deq, is_closed, file, pc, line, logger, str>>

(* The lock is taken, and flush() asks for it again: nothing follows. *)
LockFile ==
  /\ dtor = "file"
  /\ log_lock = None
  /\ log_lock' = Main
  /\ dtor' = "flush"
  /\ UNCHANGED <<written, deq, is_closed, file, pc, line, logger, str>>
-----------------------------------------------------------------------------
WriterStep(w) ==
  Write(w) \/ CheckFull(w) \/ Push(w) \/ Puts(w) \/ Flush(w) \/ FlushQueue(w)
LoggerStep == PopWaits \/ PopFront \/ LoggerPuts \/ LoggerExit
Destructor == Destroy \/ Drain \/ Close \/ NotifyAll \/ Join \/ LockFile

Next ==
  \/ \E w \in Writer : WriterStep(w)
  \/ LoggerStep \/ SpuriousWake \/ Destructor

(* Threads run.  Nobody is forced to log or to end the program, and no     *)
(* thread is sure to get mtx_ while others ask for it again and again.     *)
Fairness ==
  /\ WF_vars(LoggerStep)
  /\ \A w \in Writer : WF_vars(WriterStep(w) /\ pc[w] # "idle")
  /\ WF_vars(Destructor /\ dtor # "alive")

Spec == Init /\ [][Next]_vars /\ Fairness
-----------------------------------------------------------------------------
Lines == 1 .. MaxLines

TypeOK ==
  /\ written \in 0 .. MaxLines
  /\ log_lock \in Writer \cup {Main, None}
  /\ deq \in Seq(Lines) /\ file \in Seq(Lines)
  /\ is_closed \in BOOLEAN
  /\ pc \in [Writer -> {"idle", "full", "push", "puts", "flush", "notify"}]
  /\ line \in [Writer -> 0 .. MaxLines]
  /\ logger \in {"none", "pop", "waiting", "woken", "puts", "exited"}
  /\ str \in 0 .. MaxLines
  /\ dtor \in {"alive", "drain", "close", "notify_all", "join", "file", "flush"}

(* The queue and then the file hold each line once: none is lost between   *)
(* the full queue, the logger and the closing of the queue, none is        *)
(* written twice.                                                          *)
Places(n) ==
  {<<"file", k>> : k \in {j \in 1 .. Len(file) : file[j] = n}}
  \cup {<<"deq", k>> : k \in {j \in 1 .. Len(deq) : deq[j] = n}}
  \cup {<<"line", w>> : w \in {v \in Writer : line[v] = n}}
  \cup (IF str = n THEN {<<"str", Logger>>} ELSE {})
EachLineOnce == \A n \in 1 .. written : Cardinality(Places(n)) = 1

(* A line that finds the queue full is written at once and overtakes those *)
(* in the queue: at most the whole queue and the line in the logger's hand.*)
Overtaken(k) == {j \in k + 1 .. Len(file) : file[j] < file[k]}
BoundedOvertaking ==
  \A k \in 1 .. Len(file) : Cardinality(Overtaken(k)) <= Capacity + 1

(* push_back never waits for space.  It would wait with mtx_ held, which   *)
(* the logger needs before it can make space.                              *)
PushNeverWaits == \A w \in Writer : pc[w] = "push" => Len(deq) < Capacity

(* Every line gets to the file. *)
InFile(n) == \E k \in 1 .. Len(file) : file[k] = n
EveryLineWritten == \A n \in Lines : written >= n ~> InFile(n)
=============================================================================

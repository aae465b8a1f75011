---------------------------- MODULE ServerProofs ----------------------------
(***************************************************************************)
(* The safety of the reactor for every number of descriptors, workers and  *)
(* connections, for both kinds of listener, with and without timers.       *)
(***************************************************************************)
EXTENDS Server, SequenceTheorems, FiniteSetTheorems, TLAPS

(* What the main thread works on, by the place it is at. *)
MainJob ==
  /\ pc[Main] \in {"tick", "wait", "dispatch", "accept"} <=> job[Main] = NoJob
  /\ pc[Main] \in {"init", "register"} => job[Main].kind = "accept"
  /\ pc[Main] \in Closing => job[Main].kind \in {"hup", "timeout"}
  /\ job[Main].kind = "accept" => job[Main].conn # 0
  /\ pc[Main] = "tick" \/ job[Main].kind = "timeout" => UseTimer

(* A worker that is not idle has a job from the queue. *)
WorkerJob ==
  \A w \in Worker :
    /\ pc[w] = "idle" <=> job[w] = NoJob
    /\ pc[w] # "idle" => job[w] \in Tasks

(* No event is left over when the timers run and when the loop waits. *)
BatchScope ==
  listen_event \/ (\E fd \in Fd : Reported(fd)) =>
    pc[Main] \notin {"tick", "wait"} /\ job[Main].kind # "timeout"

(* What epoll watches, or has reported in the batch, has a timer; and what *)
(* the main thread has taken out of epoll stays out until it is closed.    *)
TimerKept ==
  /\ pc[Main] \in Closing \ {"del"} => interest[job[Main].fd] = "none"
  /\ UseTimer => \A fd \in Fd : interest[fd] # "none" \/ Reported(fd) => fd \in timer

(* Some thread will close fd, and nothing keeps it from that. *)
BeingClosed(fd) ==
  \E t \in Thread : pc[t] \in {"count", "close"} /\ job[t].fd = fd

(* An open connection without a timer is being accepted or closed, and so  *)
(* is one whose is_closed_ is set.                                         *)
OpenExplained ==
  \A fd \in Fd : conn[fd] # 0 =>
    /\ UseTimer /\ fd \notin timer =>
         BeingClosed(fd) \/ (pc[Main] \in {"init", "register"} /\ job[Main].fd = fd)
    /\ is_closed[fd] =>
         BeingClosed(fd) \/ (pc[Main] = "init" /\ job[Main].fd = fd)

(* The invariant of the loop, its timers and its listener. *)
LoopInv ==
  /\ TypeOK
  /\ MainJob
  /\ WorkerJob
  /\ BatchScope
  /\ TimerKept
  /\ OpenExplained
  /\ EdgeKept

-----------------------------------------------------------------------------
(* add_task puts a well-formed job behind the others, a worker takes the   *)
(* first one.                                                              *)
LEMMA AppendTask ==
  ASSUME tasks \in Seq(Tasks), NEW j \in Tasks
  PROVE  /\ Append(tasks, j) \in Seq(Tasks)
         /\ Len(tasks) \in Nat /\ Len(Append(tasks, j)) = Len(tasks) + 1
         /\ \A i \in 1 .. Len(tasks) : Append(tasks, j)[i] = tasks[i]
         /\ Append(tasks, j)[Len(tasks) + 1] = j
BY AppendProperties

LEMMA TakeTask ==
  ASSUME tasks \in Seq(Tasks), tasks # <<>>
  PROVE  /\ Len(tasks) \in Nat /\ 1 \in 1 .. Len(tasks)
         /\ Head(tasks) = tasks[1] /\ Head(tasks) \in Tasks
         /\ Tail(tasks) \in Seq(Tasks) /\ Len(Tail(tasks)) = Len(tasks) - 1
         /\ \A i \in 1 .. Len(Tail(tasks)) :
              i + 1 \in 1 .. Len(tasks) /\ Tail(tasks)[i] = tasks[i + 1]
<1>1. Len(tasks) \in Nat /\ 1 \in 1 .. Len(tasks)
  OBVIOUS
<1>2. /\ Head(tasks) = tasks[1]
      /\ Tail(tasks) \in Seq(Tasks) /\ Len(Tail(tasks)) = Len(tasks) - 1
      /\ \A i \in 1 .. Len(Tail(tasks)) : Tail(tasks)[i] = tasks[i + 1]
  BY HeadTailProperties
<1>3. Head(tasks) \in Tasks
  BY <1>1, <1>2
<1>4. QED
  BY <1>1, <1>2, <1>3

(* The end of close_conn_ is at one of three places. *)
LEMMA ReturnType ==
  ASSUME TypeOK, MainJob, NEW t \in Thread, pc[t] \in Closing, Return(t)
  PROVE  /\ job' \in [Thread -> Jobs \cup {NoJob}]
         /\ pc' \in [Thread -> MainPc \cup WorkerPc]
         /\ pc'[Main] \in MainPc /\ \A w \in Worker : pc'[w] \in WorkerPc
         /\ timer' \in SUBSET Fd
BY ServerAssumption DEF ServerAssumption, TypeOK, Return, Thread, MainPc, WorkerPc

LEMMA TypeInv == ASSUME LoopInv, Next PROVE TypeOK'
<1> USE ServerAssumption DEF ServerAssumption, LoopInv, history
<1>1. CASE Arrive
  BY <1>1 DEF TypeOK, Arrive
<1>2. ASSUME NEW t \in Thread, CloseConn(t)
      PROVE  TypeOK'
  <2>1. CASE CheckClosed(t)
    <3>1. CASE Return(t)
      BY <2>1, <3>1, ReturnType DEF TypeOK, CheckClosed, batch, kernel, Closing
    <3>2. CASE ~Return(t)
      BY ZenonT(60), <2>1, <3>2 DEF TypeOK, CheckClosed, batch, kernel, Thread, MainPc,
                        WorkerPc, Closing
    <3>3. QED
      BY <3>1, <3>2
  <2>2. CASE CloseFd(t)
    <3>1. job[t].fd \in Fd
      BY <2>2 DEF CloseFd, TypeOK, MainJob, WorkerJob, Thread, Jobs, Tasks,
                  NoJob, Closing
    <3>2. conn' \in [Fd -> 0 .. MaxConn]
      BY <2>2, <3>1 DEF TypeOK, CloseFd
    <3>3. interest' \in [Fd -> {"none", "off", "in", "out"}]
      BY <2>2, <3>1 DEF TypeOK, CloseFd
    <3>4. pc[t] \in Closing /\ Return(t)
      BY <2>2 DEF CloseFd, Closing
    <3>5. QED
      BY <2>2, <3>2, <3>3, <3>4, ReturnType DEF TypeOK, CloseFd, batch, kernel
  <2>3. CASE Del(t) \/ SetClosed(t)
    BY ZenonT(60), <2>3 DEF TypeOK, Del, SetClosed, batch, kernel, Thread, MainPc,
                WorkerPc, Closing
  <2>4. CASE CountDown(t)
    BY <2>4 DEF TypeOK, CountDown, batch, kernel, Thread, MainPc,
                WorkerPc, Closing
  <2>5. QED
    BY <1>2, <2>1, <2>2, <2>3, <2>4 DEF CloseConn
<1>3. ASSUME NEW fd \in Fd, Expire(fd) \/ DealHup(fd)
      PROVE  TypeOK'
  <2>1. Job("timeout", fd) \in Jobs /\ Job("hup", fd) \in Jobs
    BY DEF TypeOK, Job, Jobs, JobKind
  <2>2. job' \in [Thread -> Jobs \cup {NoJob}]
    BY ZenonT(60), <1>3, <2>1 DEF TypeOK, Expire, DealHup
  <2>3. /\ pc' \in [Thread -> MainPc \cup WorkerPc]
        /\ pc'[Main] \in MainPc /\ \A w \in Worker : pc'[w] \in WorkerPc
    BY <1>3 DEF TypeOK, Expire, DealHup, Thread, MainPc, Closing
  <2>4. events' \in [Fd -> {"none", "hup", "in", "out"}]
    BY <1>3 DEF TypeOK, Expire, DealHup, batch
  <2>5. QED
    BY <1>3, <2>2, <2>3, <2>4 DEF TypeOK, Expire, DealHup, batch, kernel
<1>4. CASE Wait
  BY <1>4 DEF TypeOK, Wait, ListenReady, Reports, Thread, MainPc, WorkerPc
<1>5. CASE TickDone \/ BatchDone \/ DealListen
  BY <1>5 DEF TypeOK, TickDone, BatchDone, DealListen, batch, kernel, Thread,
              MainPc, WorkerPc
<1>6. ASSUME NEW fd \in Fd, DealRead(fd) \/ DealWrite(fd)
      PROVE  TypeOK'
  <2>1. Job("read", fd) \in Tasks /\ Job("write", fd) \in Tasks
    BY DEF TypeOK, Job, Tasks
  <2>2. tasks' \in Seq(Tasks)
    BY ZenonT(60), <1>6, <2>1, AppendTask DEF TypeOK, DealRead, DealWrite, DealIO
  <2>3. QED
    BY <1>6, <2>2 DEF TypeOK, DealRead, DealWrite, DealIO, kernel
<1>7. CASE AcceptFails \/ Refuse
  <2>1. /\ pc' \in [Thread -> MainPc \cup WorkerPc]
        /\ pc'[Main] \in MainPc /\ \A w \in Worker : pc'[w] \in WorkerPc
    BY <1>7 DEF TypeOK, AcceptFails, Refuse, Thread, MainPc
  <2>2. arrived' \in 0 .. MaxConn /\ backlog' \in 0 .. arrived'
    BY <1>7 DEF TypeOK, AcceptFails, Refuse, kernel
  <2>3. abandoned' \in BOOLEAN
    <3>1. (backlog > 0) \in BOOLEAN /\ (backlog > 1) \in BOOLEAN
      BY DEF TypeOK
    <3>2. QED
      BY <1>7, <3>1 DEF AcceptFails, Refuse
  <2>4. QED
    BY <1>7, <2>1, <2>2, <2>3 DEF TypeOK, AcceptFails, Refuse, batch, kernel
<1>8. ASSUME NEW fd \in Fd, Accept(fd)
      PROVE  TypeOK'
  <2>1. arrived - backlog + 1 \in 0 .. MaxConn /\ backlog - 1 \in 0 .. arrived
    BY <1>8 DEF TypeOK, Accept
  <2>2. [kind |-> "accept", fd |-> fd, conn |-> arrived - backlog + 1] \in Jobs
    BY <2>1 DEF Jobs, JobKind
  <2>3. QED
    BY <1>8, <2>1, <2>2 DEF TypeOK, Accept, batch, Thread, MainPc, WorkerPc
<1>9. CASE InitConn \/ Register
  <2>1. job[Main].fd \in Fd
    BY <1>9 DEF TypeOK, MainJob, InitConn, Register, Thread, Jobs, NoJob
  <2>2. /\ pc' \in [Thread -> MainPc \cup WorkerPc]
        /\ pc'[Main] \in MainPc /\ \A w \in Worker : pc'[w] \in WorkerPc
    BY <1>9 DEF TypeOK, InitConn, Register, Thread, MainPc
  <2>3. CASE InitConn
    BY <2>1, <2>2, <2>3 DEF TypeOK, InitConn, batch, kernel
  <2>4. CASE Register
    BY <2>1, <2>2, <2>4 DEF TypeOK, Register, batch, kernel
  <2>5. QED
    BY <1>9, <2>3, <2>4
<1>10. ASSUME NEW w \in Worker, Take(w)
       PROVE  TypeOK'
  <2>1. Head(tasks) \in Tasks /\ tasks' \in Seq(Tasks)
    BY <1>10, TakeTask DEF TypeOK, Take
  <2>2. Head(tasks) \in Jobs /\ Head(tasks).kind \in WorkerPc
    BY <2>1 DEF Tasks, Jobs, JobKind, WorkerPc
  <2>3. QED
    BY <1>10, <2>1, <2>2 DEF TypeOK, Take, batch, kernel, Thread, MainPc
<1>11. ASSUME NEW w \in Worker, OnRead(w) \/ OnWrite(w)
       PROVE  TypeOK'
  <2>1. /\ pc' \in [Thread -> MainPc \cup WorkerPc]
        /\ pc'[Main] \in MainPc /\ \A v \in Worker : pc'[v] \in WorkerPc
    BY ZenonT(60), <1>11 DEF TypeOK, OnRead, OnWrite, Thread, WorkerPc, Closing
  <2>2. QED
    BY <1>11, <2>1 DEF TypeOK, OnRead, OnWrite, batch, kernel
<1>12. ASSUME NEW w \in Worker, Reset(w) \/ RearmIn(w) \/ RearmOut(w)
       PROVE  TypeOK'
  BY ZenonT(60), <1>12 DEF TypeOK, Reset, RearmIn, RearmOut, Rearm, batch, kernel,
               Thread, MainPc, WorkerPc, Closing
<1>13. QED
  BY <1>1, <1>2, <1>3, <1>4, <1>5, <1>6, <1>7, <1>8, <1>9, <1>10, <1>11,
     <1>12 DEF Next, MainLoop, WorkerStep, Thread
-----------------------------------------------------------------------------
(* A thread that is closing works on a descriptor. *)
LEMMA JobFd ==
  ASSUME TypeOK, MainJob, WorkerJob, NEW t \in Thread, job[t] # NoJob
  PROVE  job[t].fd \in Fd /\ job[t].fd # None
BY ServerAssumption DEF ServerAssumption, TypeOK, Jobs

LEMMA ClosingJob ==
  ASSUME TypeOK, MainJob, WorkerJob, NEW t \in Thread, pc[t] \in Closing
  PROVE  job[t] # NoJob
BY ServerAssumption
   DEF ServerAssumption, MainJob, WorkerJob, Thread, Closing, TypeOK, NoJob

LEMMA MainJobInv == ASSUME LoopInv, Next PROVE MainJob'
<1> USE ServerAssumption DEF ServerAssumption, LoopInv
<1> DEFINE M == UNCHANGED <<pc[Main], job[Main]>>
<1>a. Main \in Thread
  BY DEF Thread
<1>b. M => MainJob'
  BY DEF MainJob
<1>1. CASE Arrive \/ Wait \/ TickDone \/ BatchDone \/ DealListen
  BY <1>1, <1>a DEF Arrive, Wait, TickDone, BatchDone, DealListen, TypeOK,
                    MainJob, Closing
<1>2. ASSUME NEW t \in Thread, CloseConn(t)
      PROVE  MainJob'
  <2>1. CASE t # Main
    <3>1. M
      BY <1>a, <1>2, <2>1 DEF CloseConn, Del, CheckClosed, SetClosed,
                              CountDown, CloseFd, Return, TypeOK
    <3>2. QED
      BY <3>1, <1>b
  <2>2. CASE t = Main
    <3>1. CASE Return(Main)
      <4>1. job'[Main] = NoJob /\ pc'[Main] \in {"tick", "dispatch"}
        BY <3>1, <1>a DEF Return, TypeOK
      <4>2. job[Main].kind = "timeout" => UseTimer
        BY DEF MainJob
      <4>3. pc'[Main] = "tick" => UseTimer
        BY <3>1, <1>a, <4>2 DEF Return, TypeOK
      <4>4. QED
        BY <4>1, <4>3 DEF MainJob, NoJob, Closing
    <3>2. CASE ~Return(Main)
      <4>1. pc[Main] \in Closing /\ pc'[Main] \in Closing /\ job' = job
        BY <1>2, <2>2, <3>2, <1>a DEF CloseConn, Del, CheckClosed, SetClosed,
                              CountDown, CloseFd, TypeOK, Closing
      <4>2. QED
        BY <4>1 DEF MainJob, Closing
    <3>3. QED
      BY <2>2, <3>1, <3>2
  <2>3. QED
    BY <2>1, <2>2
<1>3. ASSUME NEW fd \in Fd, Expire(fd) \/ DealHup(fd)
      PROVE  MainJob'
  BY <1>3, <1>a DEF Expire, DealHup, Job, NoJob, TypeOK, MainJob, Closing
<1>4. ASSUME NEW fd \in Fd, DealRead(fd) \/ DealWrite(fd)
      PROVE  MainJob'
  BY <1>4, <1>b DEF DealRead, DealWrite, DealIO
<1>5. CASE AcceptFails \/ Refuse
  BY <1>5, <1>a DEF AcceptFails, Refuse, TypeOK, MainJob, Closing
<1>6. ASSUME NEW fd \in Fd, Accept(fd)
      PROVE  MainJob'
  <2>1. arrived - backlog + 1 # 0
    BY DEF TypeOK
  <2>2. QED
    BY <1>6, <1>a, <2>1 DEF Accept, NoJob, TypeOK, MainJob, Closing
<1>7. CASE InitConn \/ Register
  BY <1>7, <1>a DEF InitConn, Register, NoJob, TypeOK, MainJob, Closing
<1>8. ASSUME NEW w \in Worker,
             \/ Take(w) \/ OnRead(w) \/ OnWrite(w) \/ Reset(w)
             \/ RearmIn(w) \/ RearmOut(w)
      PROVE  MainJob'
  <2>1. M
    BY <1>8, <1>a DEF Take, OnRead, OnWrite, Reset, RearmIn, RearmOut, Rearm,
                      TypeOK, Thread
  <2>2. QED
    BY <2>1, <1>b
<1>9. QED
  BY <1>1, <1>2, <1>3, <1>4, <1>5, <1>6, <1>7, <1>8
     DEF Next, MainLoop, WorkerStep, Thread

LEMMA WorkerJobInv == ASSUME LoopInv, Next PROVE WorkerJob'
<1> USE ServerAssumption DEF ServerAssumption, LoopInv
<1> DEFINE W == \A w \in Worker : UNCHANGED <<pc[w], job[w]>>
<1>a. W => WorkerJob'
  BY DEF WorkerJob
<1>1. CASE Arrive \/ Wait \/ TickDone \/ BatchDone \/ DealListen
           \/ AcceptFails \/ Refuse \/ InitConn \/ Register
  <2>1. \A w \in Worker : pc'[w] = pc[w]
    BY <1>1 DEF Arrive, Wait, TickDone, BatchDone, DealListen, AcceptFails,
                Refuse, InitConn, Register, TypeOK, Thread
  <2>2. \A w \in Worker : job'[w] = job[w]
    BY <1>1 DEF Arrive, Wait, TickDone, BatchDone, DealListen, AcceptFails,
                Refuse, InitConn, Register, TypeOK, Thread
  <2>3. QED
    BY <2>1, <2>2, <1>a
<1>2. ASSUME NEW t \in Thread, CloseConn(t)
      PROVE  WorkerJob'
  <2>1. \A w \in Worker \ {t} : UNCHANGED <<pc[w], job[w]>>
    BY <1>2 DEF CloseConn, Del, CheckClosed, SetClosed, CountDown, CloseFd,
                Return, TypeOK, Thread
  <2>2. CASE t \in Worker /\ Return(t)
    <3>1. pc'[t] = "idle" /\ job'[t] = NoJob
      BY <2>2 DEF Return, TypeOK, Thread
    <3>2. QED
      BY <2>1, <3>1 DEF WorkerJob
  <2>3. CASE t \in Worker /\ ~Return(t)
    <3>1. pc[t] # "idle" /\ pc'[t] # "idle" /\ job' = job
      BY <1>2, <2>3 DEF CloseConn, Del, CheckClosed, SetClosed, CountDown,
                        CloseFd, TypeOK
    <3>2. QED
      BY <2>1, <3>1 DEF WorkerJob
  <2>4. CASE t \notin Worker
    BY <2>1, <2>4, <1>a
  <2>5. QED
    BY <2>2, <2>3, <2>4
<1>3. ASSUME NEW fd \in Fd,
             \/ Expire(fd) \/ DealHup(fd) \/ Accept(fd)
             \/ DealRead(fd) \/ DealWrite(fd)
      PROVE  WorkerJob'
  <2>1. \A w \in Worker : pc'[w] = pc[w]
    BY <1>3 DEF Expire, DealHup, Accept, DealRead, DealWrite, DealIO, TypeOK,
                Thread
  <2>2. \A w \in Worker : job'[w] = job[w]
    BY <1>3 DEF Expire, DealHup, Accept, DealRead, DealWrite, DealIO, TypeOK,
                Thread
  <2>3. QED
    BY <2>1, <2>2, <1>a
<1>4. ASSUME NEW w \in Worker, Take(w)
      PROVE  WorkerJob'
  <2>1. Head(tasks) \in Tasks
    BY <1>4, TakeTask DEF Take, TypeOK
  <2>2. Head(tasks) # NoJob /\ Head(tasks).kind # "idle"
    BY <2>1 DEF Tasks, NoJob
  <2>3. pc'[w] = Head(tasks).kind /\ job'[w] = Head(tasks)
    BY <1>4 DEF Take, TypeOK, Thread
  <2>4. \A v \in Worker \ {w} : UNCHANGED <<pc[v], job[v]>>
    BY <1>4 DEF Take, TypeOK, Thread
  <2>5. QED
    BY <2>1, <2>2, <2>3, <2>4 DEF WorkerJob
<1>5. ASSUME NEW w \in Worker, OnRead(w) \/ OnWrite(w) \/ Reset(w)
      PROVE  WorkerJob'
  <2>1. job' = job /\ pc[w] # "idle" /\ pc'[w] # "idle"
    BY <1>5 DEF OnRead, OnWrite, Reset, TypeOK, Thread
  <2>2. \A v \in Worker \ {w} : pc'[v] = pc[v]
    BY <1>5 DEF OnRead, OnWrite, Reset, TypeOK, Thread
  <2>3. QED
    BY <2>1, <2>2 DEF WorkerJob
<1>6. ASSUME NEW w \in Worker, RearmIn(w) \/ RearmOut(w)
      PROVE  WorkerJob'
  BY <1>6 DEF RearmIn, RearmOut, Rearm, TypeOK, Thread, WorkerJob
<1>7. QED
  BY <1>1, <1>2, <1>3, <1>4, <1>5, <1>6 DEF Next, MainLoop, WorkerStep, Thread

LEMMA BatchScopeInv == ASSUME LoopInv, Next PROVE BatchScope'
<1> USE ServerAssumption DEF ServerAssumption, LoopInv
<1>a. Main \in Thread
  BY DEF Thread
<1>1. CASE Arrive
  BY <1>1 DEF Arrive, BatchScope, Reported
<1>2. ASSUME NEW t \in Thread, CloseConn(t)
      PROVE  BatchScope'
  <2>1. events' = events /\ listen_event' = listen_event
    BY <1>2 DEF CloseConn, Del, CheckClosed, SetClosed, CountDown, CloseFd, batch
  <2>2. CASE t # Main
    <3>1. UNCHANGED <<pc[Main], job[Main]>>
      BY <1>a, <1>2, <2>2 DEF CloseConn, Del, CheckClosed, SetClosed,
                              CountDown, CloseFd, Return, TypeOK
    <3>2. QED
      BY <2>1, <3>1 DEF BatchScope, Reported
  <2>3. CASE t = Main /\ Return(t)
    BY <2>1, <2>3, <1>a DEF Return, NoJob, BatchScope, Reported, TypeOK
  <2>4. CASE t = Main /\ ~Return(t)
    BY <1>a, <1>2, <2>1, <2>4
       DEF CloseConn, Del, CheckClosed, SetClosed, CountDown, CloseFd,
           BatchScope, Reported, TypeOK
  <2>5. QED
    BY <2>2, <2>3, <2>4
<1>3. ASSUME NEW fd \in Fd, Expire(fd)
      PROVE  BatchScope'
  BY <1>3 DEF Expire, BatchScope, Reported, batch
<1>4. CASE Wait
  BY <1>4, <1>a DEF Wait, BatchScope, Reported, MainJob, NoJob, TypeOK
<1>5. CASE TickDone \/ BatchDone
  BY <1>5, <1>a DEF TickDone, BatchDone, BatchScope, Reported, TypeOK, batch
<1>6. CASE DealListen \/ AcceptFails \/ Refuse
  BY <1>6, <1>a DEF DealListen, AcceptFails, Refuse, BatchScope, Reported,
                    TypeOK, batch
<1>7. ASSUME NEW fd \in Fd, DealHup(fd) \/ Accept(fd)
      PROVE  BatchScope'
  BY <1>7, <1>a DEF DealHup, Accept, Job, BatchScope, Reported, TypeOK, batch
<1>8. ASSUME NEW fd \in Fd, DealRead(fd) \/ DealWrite(fd)
      PROVE  BatchScope'
  BY <1>8 DEF DealRead, DealWrite, DealIO, BatchScope, Reported, TypeOK
<1>9. CASE InitConn \/ Register
  BY <1>9, <1>a DEF InitConn, Register, NoJob, BatchScope, Reported, TypeOK,
                    batch
<1>10. ASSUME NEW w \in Worker,
              \/ Take(w) \/ OnRead(w) \/ OnWrite(w) \/ Reset(w)
              \/ RearmIn(w) \/ RearmOut(w)
       PROVE  BatchScope'
  <2>1. UNCHANGED <<pc[Main], job[Main], events, listen_event>>
    BY <1>10, <1>a DEF Take, OnRead, OnWrite, Reset, RearmIn, RearmOut, Rearm,
                       TypeOK, Thread, batch
  <2>2. QED
    BY <2>1 DEF BatchScope, Reported
<1>11. QED
  BY <1>1, <1>2, <1>3, <1>4, <1>5, <1>6, <1>7, <1>8, <1>9, <1>10
     DEF Next, MainLoop, WorkerStep, Thread

LEMMA TimerKeptInv == ASSUME LoopInv, Next PROVE TimerKept'
<1> USE ServerAssumption DEF ServerAssumption, LoopInv
<1>a. Main \in Thread
  BY DEF Thread
<1>1. CASE Arrive \/ TickDone \/ BatchDone \/ DealListen \/ AcceptFails
           \/ Refuse
  <2>1. UNCHANGED <<interest, timer, events, job>>
    BY <1>1 DEF Arrive, TickDone, BatchDone, DealListen, AcceptFails, Refuse,
                batch
  <2>2. pc'[Main] = pc[Main] \/ pc'[Main] \notin Closing
    BY <1>1, <1>a DEF Arrive, TickDone, BatchDone, DealListen, AcceptFails,
                      Refuse, TypeOK, Closing
  <2>3. QED
    BY <2>1, <2>2 DEF TimerKept, Reported
<1>2. ASSUME NEW t \in Thread, CloseConn(t)
      PROVE  TimerKept'
  <2>1. job[t].fd \in Fd
    BY <1>2, ClosingJob, JobFd DEF CloseConn, Del, CheckClosed, SetClosed,
                                   CountDown, CloseFd, Closing
  <2>2. /\ events' = events
        /\ \A fd \in Fd : interest'[fd] # "none" => interest[fd] # "none"
    BY <1>2, <2>1 DEF CloseConn, Del, CheckClosed, SetClosed, CountDown,
                      CloseFd, TypeOK, batch
  <2>3. CASE t # Main
    <3>1. UNCHANGED <<pc[Main], job[Main]>>
      BY <1>a, <1>2, <2>3 DEF CloseConn, Del, CheckClosed, SetClosed,
                              CountDown, CloseFd, Return, TypeOK
    <3>2. job[t].kind # "timeout"
      BY <1>2, <2>3 DEF WorkerJob, Tasks, Thread, CloseConn, Del, CheckClosed,
                        SetClosed, CountDown, CloseFd
    <3>3. timer' = timer
      BY <1>2, <3>2 DEF CloseConn, Del, CheckClosed, SetClosed, CountDown,
                        CloseFd, Return
    <3>4. pc[Main] \in Closing => job[Main].fd \in Fd
      BY <1>a, ClosingJob, JobFd
    <3>5. QED
      BY <2>2, <3>1, <3>3, <3>4 DEF TimerKept, Reported, TypeOK, Closing
  <2>4. CASE t = Main /\ (CheckClosed(t) \/ CloseFd(t)) /\ Return(t)
    <3>1. pc'[Main] \notin Closing
      BY <1>a, <2>4 DEF Return, Closing, TypeOK
    <3>2. interest'[job[t].fd] = "none"
      BY <2>1, <2>4 DEF CheckClosed, CloseFd, TimerKept, Closing, TypeOK
    <3>3. job[t].kind = "timeout" => \A fd \in Fd : ~Reported(fd)
      BY <2>4 DEF BatchScope
    <3>4. \A fd \in timer \ timer' : job[t].kind = "timeout" /\ fd = job[t].fd
      BY <2>4 DEF Return
    <3>5. QED
      BY <2>2, <3>1, <3>2, <3>3, <3>4 DEF TimerKept, Reported
  <2>5. CASE t = Main /\ ~((CheckClosed(t) \/ CloseFd(t)) /\ Return(t))
    <3>1. job' = job /\ timer' = timer
      BY <1>2, <2>5 DEF CloseConn, Del, CheckClosed, SetClosed, CountDown,
                        CloseFd
    <3>2. interest'[job[t].fd] = "none"
      BY <1>2, <2>1, <2>5 DEF CloseConn, Del, CheckClosed, SetClosed,
                              CountDown, CloseFd, TimerKept, Closing, TypeOK
    <3>3. QED
      BY <2>2, <2>5, <3>1, <3>2 DEF TimerKept, Reported
  <2>6. QED
    BY <2>3, <2>4, <2>5
<1>3. ASSUME NEW fd \in Fd, Expire(fd) \/ DealHup(fd) \/ Accept(fd)
      PROVE  TimerKept'
  <2>1. UNCHANGED <<interest, timer>> /\ pc'[Main] \notin Closing \ {"del"}
    BY <1>3, <1>a DEF Expire, DealHup, Accept, Closing, TypeOK
  <2>2. \A f \in Fd : Reported(f)' => Reported(f)
    BY <1>3 DEF Expire, DealHup, Accept, Reported, batch, TypeOK
  <2>3. QED
    BY <2>1, <2>2 DEF TimerKept
<1>4. CASE Wait
  <2>1. timer' = timer /\ pc'[Main] \notin Closing
    BY <1>4, <1>a DEF Wait, Closing, TypeOK
  <2>2. \A fd \in Fd : interest'[fd] # "none" \/ Reported(fd)' =>
          interest[fd] # "none"
    BY <1>4 DEF Wait, Reports, Reported, TypeOK
  <2>3. QED
    BY <2>1, <2>2 DEF TimerKept
<1>5. ASSUME NEW fd \in Fd, DealRead(fd) \/ DealWrite(fd)
      PROVE  TimerKept'
  BY <1>5 DEF DealRead, DealWrite, DealIO, TimerKept, Reported, TypeOK
<1>6. CASE InitConn
  BY <1>6, <1>a DEF InitConn, TimerKept, Reported, Closing, TypeOK, batch
<1>7. CASE Register
  <2>1. job[Main].fd \in Fd
    BY <1>7, <1>a, JobFd DEF Register, MainJob
  <2>2. /\ pc'[Main] \notin Closing /\ events' = events
        /\ UseTimer => timer' = timer \cup {job[Main].fd}
        /\ \A fd \in Fd : fd # job[Main].fd => interest'[fd] = interest[fd]
    BY <1>7, <1>a, <2>1 DEF Register, Closing, TypeOK, batch
  <2>3. QED
    BY <2>2 DEF TimerKept, Reported
<1>8. ASSUME NEW w \in Worker,
             \/ Take(w) \/ OnRead(w) \/ OnWrite(w) \/ Reset(w)
             \/ RearmIn(w) \/ RearmOut(w)
      PROVE  TimerKept'
  <2>1. UNCHANGED <<pc[Main], job[Main], events, timer>>
    BY <1>8, <1>a DEF Take, OnRead, OnWrite, Reset, RearmIn, RearmOut, Rearm,
                      TypeOK, Thread, batch
  <2>2. \A fd \in Fd : interest[fd] = "none" <=> interest'[fd] = "none"
    BY <1>8 DEF Take, OnRead, OnWrite, Reset, RearmIn, RearmOut, Rearm, TypeOK
  <2>3. pc[Main] \in Closing => job[Main].fd \in Fd
    BY <1>a, ClosingJob, JobFd
  <2>4. QED
    BY <2>1, <2>2, <2>3 DEF TimerKept, Reported
<1>9. QED
  BY <1>1, <1>2, <1>3, <1>4, <1>5, <1>6, <1>7, <1>8
     DEF Next, MainLoop, WorkerStep, Thread

(* A step that leaves connections, timers and flags alone and interrupts   *)
(* neither a close nor an accept.                                          *)
LEMMA OpenQuiet ==
  ASSUME OpenExplained, UNCHANGED <<conn, timer, is_closed>>,
         \A fd \in Fd : BeingClosed(fd) => BeingClosed(fd)',
         pc[Main] \in {"init", "register"} => UNCHANGED <<pc[Main], job[Main]>>
  PROVE  OpenExplained'
BY DEF OpenExplained

LEMMA OpenInv == ASSUME LoopInv, Next PROVE OpenExplained'
<1> USE ServerAssumption DEF ServerAssumption, LoopInv
<1>a. Main \in Thread
  BY DEF Thread
<1>1. CASE \/ Arrive \/ TickDone \/ BatchDone \/ DealListen \/ AcceptFails
           \/ Refuse \/ Wait
           \/ \E fd \in Fd :
                Expire(fd) \/ DealHup(fd) \/ DealRead(fd) \/ DealWrite(fd)
  <2>1. UNCHANGED <<conn, timer, is_closed>>
    BY <1>1 DEF Arrive, TickDone, BatchDone, DealListen, AcceptFails, Refuse,
                Wait, Expire, DealHup, DealRead, DealWrite, DealIO
  <2>2. \A t \in Thread : pc[t] \in {"count", "close", "init", "register"} =>
          pc'[t] = pc[t] /\ job'[t] = job[t]
    BY <1>1 DEF Arrive, TickDone, BatchDone, DealListen, AcceptFails, Refuse,
                Wait, Expire, DealHup, DealRead, DealWrite, DealIO, TypeOK
  <2>3. QED
    BY <1>a, <2>1, <2>2, OpenQuiet DEF BeingClosed
<1>2. ASSUME NEW t \in Thread, Del(t) \/ CountDown(t)
      PROVE  OpenExplained'
  <2>1. UNCHANGED <<conn, timer, is_closed, job>>
    BY <1>2 DEF Del, CountDown
  <2>2. \A s \in Thread : pc[s] \in {"count", "close"} => pc'[s] \in {"count", "close"}
    BY <1>2 DEF Del, CountDown, TypeOK
  <2>3. pc[Main] \in {"init", "register"} => pc'[Main] = pc[Main]
    BY <1>2, <1>a DEF Del, CountDown, TypeOK
  <2>4. QED
    BY <2>1, <2>2, <2>3, OpenQuiet DEF BeingClosed
<1>3. ASSUME NEW t \in Thread, SetClosed(t)
      PROVE  OpenExplained'
  <2>1. UNCHANGED <<conn, timer, job>>
    BY <1>3 DEF SetClosed
  <2>2. pc'[t] = "count" /\ \A s \in Thread \ {t} : pc'[s] = pc[s]
    BY <1>3 DEF SetClosed, TypeOK
  <2>3. \A fd \in Fd : BeingClosed(fd) \/ job[t].fd = fd => BeingClosed(fd)'
    BY <1>3, <2>1, <2>2 DEF BeingClosed, SetClosed
  <2>4. pc[Main] \in {"init", "register"} => pc'[Main] = pc[Main]
    BY <1>3, <2>2, <1>a DEF SetClosed
  <2>5. \A fd \in Fd : is_closed'[fd] => is_closed[fd] \/ job[t].fd = fd
    BY <1>3 DEF SetClosed, TypeOK
  <2>6. QED
    BY <2>1, <2>3, <2>4, <2>5 DEF OpenExplained
<1>4. ASSUME NEW t \in Thread, CheckClosed(t)
      PROVE  OpenExplained'
  <2>1. /\ UNCHANGED <<conn, is_closed>> /\ timer \ timer' \subseteq {job[t].fd}
        /\ timer' # timer => is_closed[job[t].fd] /\ t = Main
    BY <1>4 DEF CheckClosed, Return, WorkerJob, Tasks, Thread
  <2>2. \A s \in Thread : pc[s] \in {"count", "close", "init", "register"} =>
          pc'[s] = pc[s] /\ job'[s] = job[s]
    BY <1>4 DEF CheckClosed, Return, TypeOK
  <2>3. \A fd \in Fd : BeingClosed(fd) => BeingClosed(fd)'
    BY <2>2 DEF BeingClosed
  <2>4. CASE timer' = timer
    BY <1>a, <2>1, <2>2, <2>3, <2>4, OpenQuiet
  <2>5. CASE timer' # timer
    <3>1. pc[Main] = "check" /\ is_closed[job[Main].fd]
      BY <1>4, <2>1, <2>5 DEF CheckClosed
    <3>2. QED
      BY <2>1, <2>3, <2>5, <3>1 DEF OpenExplained
  <2>6. QED
    BY <2>4, <2>5
<1>5. ASSUME NEW t \in Thread, CloseFd(t)
      PROVE  OpenExplained'
  <2>1. job[t].fd \in Fd
    BY <1>5, ClosingJob, JobFd DEF CloseFd, Closing
  <2>2. /\ is_closed' = is_closed /\ conn'[job[t].fd] = 0
        /\ \A fd \in Fd \ {job[t].fd} :
             conn'[fd] = conn[fd] /\ (fd \in timer => fd \in timer')
    BY <1>5, <2>1 DEF CloseFd, Return, TypeOK
  <2>3. \A s \in Thread \ {t} : pc'[s] = pc[s] /\ job'[s] = job[s]
    BY <1>5 DEF CloseFd, Return, TypeOK
  <2>4. \A fd \in Fd \ {job[t].fd} : BeingClosed(fd) => BeingClosed(fd)'
    BY <2>3 DEF BeingClosed
  <2>5. pc[Main] \in {"init", "register"} => UNCHANGED <<pc[Main], job[Main]>>
    BY <1>5, <1>a, <2>3 DEF CloseFd
  <2>6. QED
    BY <2>2, <2>4, <2>5 DEF OpenExplained
<1>6. ASSUME NEW fd \in Fd, Accept(fd)
      PROVE  OpenExplained'
  <2>1. /\ timer' = timer /\ is_closed' = is_closed
        /\ pc'[Main] = "init" /\ job'[Main].fd = fd
        /\ \A f \in Fd \ {fd} : conn'[f] = conn[f]
    BY <1>6, <1>a DEF Accept, TypeOK
  <2>2. \A f \in Fd : BeingClosed(f) => BeingClosed(f)'
    BY <1>6, <1>a DEF Accept, BeingClosed, TypeOK
  <2>3. pc[Main] = "accept"
    BY <1>6 DEF Accept
  <2>4. QED
    BY <2>1, <2>2, <2>3 DEF OpenExplained
<1>7. CASE InitConn \/ Register
  <2>1. job[Main].fd \in Fd
    BY <1>7, <1>a, JobFd DEF InitConn, Register, MainJob
  <2>2. \A f \in Fd : BeingClosed(f) => BeingClosed(f)'
    <3>1. \A s \in Thread : pc[s] \in {"count", "close"} =>
            pc'[s] = pc[s] /\ job'[s] = job[s]
      BY <1>7, <1>a DEF InitConn, Register, TypeOK
    <3>2. QED
      BY <3>1 DEF BeingClosed
  <2>3. CASE InitConn
    <3>1. /\ UNCHANGED <<conn, timer, job>> /\ pc'[Main] = "register"
          /\ ~is_closed'[job[Main].fd]
          /\ \A f \in Fd \ {job[Main].fd} : is_closed'[f] = is_closed[f]
      BY <2>3, <2>1, <1>a DEF InitConn, TypeOK
    <3>2. pc[Main] = "init"
      BY <2>3 DEF InitConn
    <3>3. QED
      BY <2>2, <3>1, <3>2 DEF OpenExplained
  <2>4. CASE Register
    <3>1. /\ UNCHANGED <<conn, is_closed>> /\ pc[Main] = "register"
          /\ timer \subseteq timer'
          /\ UseTimer => job[Main].fd \in timer'
      BY <2>4 DEF Register
    <3>2. QED
      BY <2>2, <3>1 DEF OpenExplained
  <2>5. QED
    BY <1>7, <2>3, <2>4
<1>8. ASSUME NEW w \in Worker,
             \/ Take(w) \/ OnRead(w) \/ OnWrite(w) \/ Reset(w)
             \/ RearmIn(w) \/ RearmOut(w)
      PROVE  OpenExplained'
  <2>1. /\ UNCHANGED <<conn, timer, pc[Main], job[Main]>>
        /\ \A fd \in Fd : is_closed'[fd] => is_closed[fd]
    BY <1>8, <1>a DEF Take, OnRead, OnWrite, Reset, RearmIn, RearmOut, Rearm,
                      TypeOK, Thread
  <2>2. \A s \in Thread : pc[s] \in {"count", "close"} =>
          pc'[s] = pc[s] /\ job'[s] = job[s]
    BY <1>8 DEF Take, OnRead, OnWrite, Reset, RearmIn, RearmOut, Rearm, TypeOK
  <2>3. \A fd \in Fd : BeingClosed(fd) => BeingClosed(fd)'
    BY <2>2 DEF BeingClosed
  <2>4. QED
    BY <2>1, <2>3 DEF OpenExplained
<1>9. QED
  BY <1>1, <1>2, <1>3, <1>4, <1>5, <1>6, <1>7, <1>8
     DEF Next, MainLoop, WorkerStep, CloseConn, Thread

LEMMA EdgeInv == ASSUME LoopInv, Next PROVE EdgeKept'
<1> USE ServerAssumption DEF ServerAssumption, LoopInv, history
<1>a. Main \in Thread
  BY DEF Thread
<1>1. CASE Arrive
  BY <1>1 DEF Arrive, EdgeKept
<1>2. CASE Wait
  <2>1. backlog' = backlog /\ job' = job /\ abandoned' = abandoned
    BY <1>2 DEF Wait
  <2>2. pc[Main] = "wait" /\ ~listen_event
    BY <1>2 DEF Wait, BatchScope
  <2>3. ListenET /\ backlog > 0 /\ listen_edge => listen_event'
    BY <1>2 DEF Wait, ListenReady
  <2>4. QED
    BY <2>1, <2>2, <2>3 DEF EdgeKept
<1>3. CASE DealListen \/ AcceptFails \/ Refuse
  <2>1. CASE DealListen
    BY <2>1, <1>a DEF DealListen, EdgeKept, TypeOK
  <2>2. CASE AcceptFails
    <3>1. backlog' = backlog
      BY <2>2 DEF AcceptFails, kernel
    <3>2. backlog > 0 => abandoned'
      BY <2>2 DEF AcceptFails
    <3>3. QED
      BY <3>1, <3>2 DEF EdgeKept
  <2>3. CASE Refuse
    <3>1. backlog' = backlog - 1 /\ (backlog > 1 => abandoned')
      BY <2>3 DEF Refuse
    <3>2. backlog' > 0 => backlog > 1
      BY <3>1 DEF TypeOK
    <3>3. QED
      BY <3>1, <3>2 DEF EdgeKept
  <2>4. QED
    BY <1>3, <2>1, <2>2, <2>3
<1>4. ASSUME NEW fd \in Fd, Accept(fd)
      PROVE  EdgeKept'
  BY <1>4, <1>a DEF Accept, EdgeKept, TypeOK
<1>5. CASE InitConn \/ Register
  <2>1. CASE InitConn
    BY <2>1 DEF InitConn, MainJob, EdgeKept
  <2>2. CASE Register
    BY <2>2, <1>a DEF Register, EdgeKept, TypeOK
  <2>3. QED
    BY <1>5, <2>1, <2>2
<1>6. CASE \/ TickDone \/ BatchDone
           \/ \E fd \in Fd :
                Expire(fd) \/ DealHup(fd) \/ DealRead(fd) \/ DealWrite(fd)
           \/ \E t \in Thread : CloseConn(t)
           \/ \E w \in Worker :
                \/ Take(w) \/ OnRead(w) \/ OnWrite(w) \/ Reset(w)
                \/ RearmIn(w) \/ RearmOut(w)
  <2>1. UNCHANGED <<kernel, abandoned>>
    BY <1>6 DEF TickDone, BatchDone, Expire, DealHup, DealRead, DealWrite,
                DealIO, CloseConn, Del, CheckClosed, SetClosed, CountDown,
                CloseFd, Take, OnRead, OnWrite, Reset, RearmIn, RearmOut, Rearm
  <2>2. listen_event' = listen_event
    BY <1>6 DEF TickDone, BatchDone, Expire, DealHup, DealRead, DealWrite,
                DealIO, CloseConn, Del, CheckClosed, SetClosed, CountDown,
                CloseFd, Take, OnRead, OnWrite, Reset, RearmIn, RearmOut,
                Rearm, batch
  <2>3. pc[Main] = "accept" => pc'[Main] = "accept"
    BY <1>6, <1>a DEF TickDone, BatchDone, Expire, DealHup, DealRead,
                DealWrite, DealIO, CloseConn, Del, CheckClosed, SetClosed,
                CountDown, CloseFd, Return, Take, OnRead, OnWrite, Reset,
                RearmIn, RearmOut, Rearm, TypeOK, Thread
  <2>4. job[Main].kind = "accept" => job'[Main].kind = "accept"
    <3>1. CASE \E t \in Thread : CloseConn(t)
      BY <3>1, <1>a DEF CloseConn, Del, CheckClosed, SetClosed, CountDown,
                        CloseFd, Return, MainJob, Closing, TypeOK
    <3>2. CASE \E fd \in Fd : Expire(fd) \/ DealHup(fd)
      BY <3>2, <1>a DEF Expire, DealHup, MainJob, NoJob, TypeOK
    <3>3. CASE ~ \/ \E t \in Thread : CloseConn(t)
                 \/ \E fd \in Fd : Expire(fd) \/ DealHup(fd)
      BY <1>6, <3>3, <1>a DEF TickDone, BatchDone, DealRead, DealWrite,
                DealIO, Take, OnRead, OnWrite, Reset, RearmIn, RearmOut, Rearm,
                TypeOK, Thread
    <3>4. QED
      BY <3>1, <3>2, <3>3
  <2>5. QED
    BY <2>1, <2>2, <2>3, <2>4 DEF EdgeKept, kernel
<1>7. QED
  BY <1>1, <1>2, <1>3, <1>4, <1>5, <1>6 DEF Next, MainLoop, WorkerStep, Thread

LEMMA LoopInit == Init => LoopInv
<1> SUFFICES ASSUME Init PROVE LoopInv
  OBVIOUS
<1> USE ServerAssumption DEF ServerAssumption, Init, Thread
<1>1. TypeOK
  <2>1. 0 \in 0 .. MaxConn /\ 0 \in 0 .. arrived /\ tasks \in Seq(Tasks)
    OBVIOUS
  <2>2. pc \in [Thread -> MainPc \cup WorkerPc] /\ pc[Main] \in MainPc
    BY DEF MainPc, WorkerPc
  <2>3. \A w \in Worker : pc[w] \in WorkerPc
    BY DEF WorkerPc
  <2>4. /\ arrived \in 0 .. MaxConn /\ backlog \in 0 .. arrived
        /\ conn \in [Fd -> 0 .. MaxConn]
    BY <2>1
  <2>5. job \in [Thread -> Jobs \cup {NoJob}]
    OBVIOUS
  <2>6. /\ interest \in [Fd -> {"none", "off", "in", "out"}]
        /\ events \in [Fd -> {"none", "hup", "in", "out"}]
        /\ is_closed \in [Fd -> BOOLEAN]
    OBVIOUS
  <2>7. user_cnt \in Int /\ timer \in SUBSET Fd
    OBVIOUS
  <2>8. /\ listen_edge \in BOOLEAN /\ listen_event \in BOOLEAN
        /\ abandoned \in BOOLEAN /\ outlived \in SUBSET Fd
    OBVIOUS
  <2> HIDE DEF Init, Thread
  <2>9. QED
    BY <2>1, <2>2, <2>3, <2>4, <2>5, <2>6, <2>7, <2>8 DEF TypeOK
<1>2. MainJob
  BY DEF MainJob, NoJob, Closing
<1>3. WorkerJob /\ BatchScope
  BY DEF WorkerJob, BatchScope, Reported
<1>4. TimerKept
  BY DEF TimerKept, Reported, Closing
<1>5. OpenExplained /\ EdgeKept
  BY DEF OpenExplained, EdgeKept
<1>6. QED
  BY <1>1, <1>2, <1>3, <1>4, <1>5 DEF LoopInv

LEMMA LoopStutter == ASSUME LoopInv, UNCHANGED vars PROVE LoopInv'
BY DEF vars, kernel, batch, LoopInv, TypeOK, MainJob, WorkerJob, BatchScope,
       Reported, TimerKept, OpenExplained, BeingClosed, EdgeKept

LEMMA LoopNext == LoopInv /\ [Next]_vars => LoopInv'
<1> SUFFICES ASSUME LoopInv, [Next]_vars PROVE LoopInv'
  OBVIOUS
<1>1. CASE Next
  <2>1. TypeOK' /\ MainJob' /\ WorkerJob' /\ BatchScope'
    BY <1>1, TypeInv, MainJobInv, WorkerJobInv, BatchScopeInv
  <2>2. TimerKept' /\ OpenExplained' /\ EdgeKept'
    BY <1>1, TimerKeptInv, OpenInv, EdgeInv
  <2>3. QED
    BY <2>1, <2>2 DEF LoopInv
<1>2. CASE UNCHANGED vars
  BY <1>2, LoopStutter
<1>3. QED
  BY <1>1, <1>2

THEOREM LoopInvariant == Spec => []LoopInv
BY LoopInit, LoopNext, PTL DEF Spec

(* The variables keep their types. *)
THEOREM TypeCorrect == Spec => []TypeOK
<1>1. LoopInv => TypeOK
  BY DEF LoopInv
<1>2. QED
  BY <1>1, LoopInvariant, PTL

(* The assertion of timer_heap::adjust holds whenever extent_time_ calls   *)
(* it, however long the tasks take.                                        *)
THEOREM AdjustSafe == Spec => []AdjustFindsTimer
<1>1. LoopInv => AdjustFindsTimer
  BY DEF LoopInv, TypeOK, TimerKept, Reported, AdjustFindsTimer
<1>2. QED
  BY <1>1, LoopInvariant, PTL

(* Every open connection that no thread is accepting or closing has a      *)
(* timer.                                                                  *)
THEOREM TimersCover == Spec => []TimerCovers
<1>1. LoopInv => TimerCovers
  BY ServerAssumption DEF ServerAssumption, LoopInv, OpenExplained, TimerCovers,
     Handled, BeingClosed, Thread
<1>2. QED
  BY <1>1, LoopInvariant, PTL

(* No edge of the listening socket is lost but by an early end of          *)
(* deal_listen_.                                                           *)
THEOREM EdgeNotLost == Spec => []EdgeKept
<1>1. LoopInv => EdgeKept
  BY DEF LoopInv
<1>2. QED
  BY <1>1, LoopInvariant, PTL
-----------------------------------------------------------------------------
(* What EPOLLONESHOT gives the server.  Everything is said of one          *)
(* descriptor: as long as no timer has closed it under a task, the         *)
(* invariant of that descriptor holds, whatever happens to the others.     *)

(* One place at a time holds fd. *)
Lone(fd) == \A i, j \in 1 .. Len(tasks) : tasks[i].fd = fd /\ tasks[j].fd = fd => i = j

OneHolds(fd) ==
  /\ Reported(fd) => ~Queued(fd) /\ ~Handled(fd)
  /\ Queued(fd) => ~Handled(fd)
  /\ Lone(fd)
  /\ \A s, t \in Thread : job[s].fd = fd /\ job[t].fd = fd => s = t

(* What holds fd was made for the connection behind it. *)
TasksOwn(fd) ==
  \A i \in 1 .. Len(tasks) :
    tasks[i].fd = fd => tasks[i].conn # 0 /\ conn[fd] = tasks[i].conn

Owns(fd) ==
  /\ Reported(fd) => conn[fd] # 0
  /\ TasksOwn(fd)
  /\ \A t \in Thread : job[t].fd = fd => conn[fd] = job[t].conn

(* While epoll watches fd, only the callback of a timer works on it. *)
OneShot(fd) ==
  Armed(fd) =>
    /\ conn[fd] # 0 /\ ~Reported(fd) /\ ~Queued(fd)
    /\ \A t \in Thread : job[t].fd = fd => t = Main /\ pc[t] = "del"

(* The places in on_read_ and on_write_. *)
InTask == {"read", "write", "reset", "rearm_in", "rearm_out"}

(* A reported, queued or running task finds fd registered and disarmed. *)
Disarmed(fd) ==
  /\ Reported(fd) \/ Queued(fd) => interest[fd] = "off"
  /\ \A t \in Thread : job[t].fd = fd /\ pc[t] \in InTask => interest[fd] = "off"

(* A task was made for an open connection, and so was a close that counts. *)
RealConn(fd) ==
  \A t \in Thread :
    job[t].fd = fd /\ (t \in Worker \/ pc[t] \in {"count", "close"}) => job[t].conn # 0

(* is_closed_ is set before fd is closed, and stays set. *)
FlagSet(fd) ==
  /\ ~is_closed[fd] => conn[fd] # 0
  /\ \A t \in Thread : job[t].fd = fd =>
       /\ pc[t] \in {"count", "close"} => is_closed[fd]
       /\ pc[t] = "flag" => ~is_closed[fd]

Safe(fd) ==
  OneHolds(fd) /\ Owns(fd) /\ OneShot(fd) /\ Disarmed(fd) /\ RealConn(fd) /\ FlagSet(fd)

HandlerInv == \A fd \in InTime : Safe(fd)
-----------------------------------------------------------------------------
(* The record of a job. *)
LEMMA JobFacts ==
  ASSUME LoopInv, NEW t \in Thread
  PROVE  /\ job[t] = NoJob \/ job[t] \in Jobs
         /\ job[t] # NoJob <=> job[t].fd \in Fd
BY ServerAssumption DEF ServerAssumption, LoopInv, TypeOK, Jobs, NoJob

(* A worker in a task, and every thread that is closing, has a job. *)
LEMMA PlaceFacts ==
  ASSUME LoopInv, NEW t \in Thread
  PROVE  /\ t \in Worker /\ pc[t] # "idle" => job[t] # NoJob
         /\ pc[t] \in InTask \cup {"idle"} => t \in Worker
         /\ pc[t] \in Closing \cup {"init", "register"} => job[t] # NoJob
         /\ pc[t] \in {"init", "register"} => t = Main
BY ServerAssumption
   DEF ServerAssumption, LoopInv, TypeOK, MainJob, WorkerJob, Thread, InTask, MainPc,
       WorkerPc, Closing, NoJob

LEMMA TaskFacts ==
  ASSUME LoopInv, NEW i \in 1 .. Len(tasks)
  PROVE  tasks[i] \in Tasks /\ tasks[i].fd \in Fd
<1>1. tasks \in Seq(Tasks)
  BY DEF LoopInv, TypeOK
<1>2. tasks[i] \in Tasks
  BY <1>1
<1>3. QED
  BY <1>2 DEF Tasks

(* The same tasks stand for the same. *)
LEMMA SameTasks ==
  ASSUME NEW fd, tasks' = tasks, conn'[fd] = conn[fd]
  PROVE  /\ Queued(fd)' <=> Queued(fd)
         /\ Lone(fd)' <=> Lone(fd)
         /\ TasksOwn(fd)' <=> TasksOwn(fd)
BY DEF Queued, Lone, TasksOwn

(* A step that does not touch fd, and starts nothing for it; a thread that *)
(* works on it may move on inside its task or from "count" to "close".     *)
Moves(t) ==
  /\ job'[t] = job[t]
  /\ pc[t] = "del" => pc'[t] = "del"
  /\ pc'[t] \in InTask => pc[t] \in InTask
  /\ pc'[t] = "flag" => pc[t] = "flag"
  /\ pc'[t] \in {"count", "close"} => pc[t] \in {"count", "close"}

LEMMA Untouched ==
  ASSUME NEW fd \in Fd, Safe(fd),
         UNCHANGED <<conn[fd], interest[fd], is_closed[fd]>>,
         Reported(fd)' => Reported(fd), Queued(fd)' => Queued(fd),
         Lone(fd)', TasksOwn(fd)',
         \A t \in Thread : job'[t].fd = fd => Moves(t)
  PROVE  Safe(fd)'
<1> USE DEF Safe
<1>1. Handled(fd)' => Handled(fd)
  BY DEF Handled, Moves
<1>2. OneHolds(fd)'
  BY <1>1 DEF OneHolds, Moves
<1>3. Owns(fd)'
  BY DEF Owns, Moves
<1>4. OneShot(fd)'
  BY DEF OneShot, Armed, Moves
<1>5. Disarmed(fd)'
  BY DEF Disarmed, Moves
<1>6. RealConn(fd)'
  BY DEF RealConn, Moves
<1>7. FlagSet(fd)'
  BY DEF FlagSet, Moves
<1> QED BY <1>2, <1>3, <1>4, <1>5, <1>6, <1>7

(* A step in which threads only move on: no job, event, task, flag or      *)
(* descriptor changes.                                                     *)
LEMMA SafeMove ==
  ASSUME LoopInv, NEW fd \in Fd, Safe(fd),
         \/ Arrive \/ TickDone \/ BatchDone \/ DealListen \/ AcceptFails
         \/ Refuse
         \/ \E t \in Thread : CountDown(t)
         \/ \E w \in Worker : OnRead(w) \/ OnWrite(w)
  PROVE  Safe(fd)'
<1>1. UNCHANGED <<conn, interest, is_closed, events, tasks, job>>
  BY DEF Arrive, TickDone, BatchDone, DealListen, AcceptFails, Refuse,
         CountDown, OnRead, OnWrite, batch
<1>2. \A t \in Thread : Moves(t)
  <2>1. CASE Arrive \/ TickDone \/ BatchDone \/ DealListen \/ AcceptFails \/ Refuse
    BY <1>1, <2>1 DEF LoopInv, TypeOK, Arrive, TickDone, BatchDone, DealListen,
                      AcceptFails, Refuse, Moves, InTask
  <2>2. ASSUME NEW t \in Thread, CountDown(t) PROVE \A s \in Thread : Moves(s)
    BY <1>1, <2>2 DEF LoopInv, TypeOK, CountDown, Moves, InTask
  <2>3. ASSUME NEW w \in Worker, OnRead(w) \/ OnWrite(w) PROVE \A s \in Thread : Moves(s)
    BY <1>1, <2>3 DEF LoopInv, TypeOK, OnRead, OnWrite, Moves, InTask, Thread
  <2> QED BY <2>1, <2>2, <2>3
<1>3. Lone(fd)' /\ TasksOwn(fd)' /\ (Queued(fd)' => Queued(fd))
  BY <1>1, SameTasks DEF Safe, OneHolds, Owns
<1> QED BY <1>1, <1>2, <1>3, Untouched DEF Reported

(* A step of one thread about the descriptor of its job leaves the others  *)
(* as they are.                                                            *)
LEMMA SafeOther ==
  ASSUME LoopInv, NEW fd \in Fd, Safe(fd), NEW t \in Thread,
         UNCHANGED <<events, tasks>>,
         UNCHANGED <<conn[fd], interest[fd], is_closed[fd]>>,
         \A s \in Thread \ {t} : job'[s] = job[s] /\ pc'[s] = pc[s],
         job'[t].fd # fd
  PROVE  Safe(fd)'
<1>1. \A s \in Thread : job'[s].fd = fd => Moves(s)
  BY DEF Moves
<1>2. Lone(fd)' /\ TasksOwn(fd)' /\ (Queued(fd)' => Queued(fd))
  BY SameTasks DEF Safe, OneHolds, Owns
<1> QED BY <1>1, <1>2, Untouched DEF Reported

(* Who has a job for a safe descriptor is the only one to hold it. *)
LEMMA Alone ==
  ASSUME NEW fd \in Fd, OneHolds(fd), NEW t \in Thread, job[t].fd = fd
  PROVE  /\ ~Reported(fd) /\ ~Queued(fd)
         /\ \A s \in Thread \ {t} : job[s].fd # fd
BY DEF OneHolds, Handled

(* A step of the thread that holds fd, inside its job. *)
LEMMA SafeOwn ==
  ASSUME LoopInv, NEW fd \in Fd, Safe(fd), NEW t \in Thread, job[t].fd = fd,
         UNCHANGED <<conn, events, tasks, job>>,
         \A s \in Thread \ {t} : pc'[s] = pc[s],
         interest'[fd] \notin {"in", "out"},
         pc'[t] \in InTask => interest'[fd] = "off",
         is_closed'[fd] \/ conn[fd] # 0,
         pc'[t] \in {"count", "close"} => is_closed'[fd] /\ job[t].conn # 0,
         pc'[t] = "flag" => ~is_closed'[fd]
  PROVE  Safe(fd)'
<1>1. ~Reported(fd) /\ ~Queued(fd) /\ \A s \in Thread \ {t} : job[s].fd # fd
  BY Alone DEF Safe
<1>2. ~Reported(fd)' /\ ~Queued(fd)'
  BY <1>1 DEF Reported, Queued
<1>3. OneHolds(fd)'
  BY <1>2 DEF Safe, OneHolds, Lone
<1>4. Owns(fd)'
  BY <1>2 DEF Safe, Owns, TasksOwn
<1>5. OneShot(fd)'
  BY DEF OneShot, Armed
<1>6. Disarmed(fd)'
  BY <1>1, <1>2 DEF Disarmed
<1>7. RealConn(fd)'
  BY <1>1 DEF Safe, RealConn
<1>8. FlagSet(fd)'
  BY <1>1 DEF FlagSet
<1> QED BY <1>3, <1>4, <1>5, <1>6, <1>7, <1>8 DEF Safe

LEMMA SafeDel ==
  ASSUME LoopInv, NEW fd \in Fd, Safe(fd), NEW t \in Thread, Del(t)
  PROVE  Safe(fd)'
<1>1. job[t].fd \in Fd
  BY PlaceFacts, JobFacts DEF Del, Closing
<1>2. /\ UNCHANGED <<conn, is_closed, events, tasks, job>>
      /\ interest'[job[t].fd] = "none" /\ pc'[t] = "check"
      /\ \A f \in Fd \ {job[t].fd} : interest'[f] = interest[f]
      /\ \A s \in Thread \ {t} : pc'[s] = pc[s]
  BY <1>1 DEF Del, LoopInv, TypeOK, batch
<1>3. CASE job[t].fd = fd
  <2>1. is_closed'[fd] \/ conn[fd] # 0
    BY <1>2 DEF Safe, FlagSet
  <2> QED BY <1>2, <1>3, <2>1, SafeOwn DEF InTask
<1>4. CASE job[t].fd # fd
  BY <1>2, <1>4, SafeOther
<1> QED BY <1>3, <1>4

(* A job ends: the thread holds nothing any more, and the descriptor is    *)
(* watched again or closed.                                                *)
LEMMA JobEnds ==
  ASSUME LoopInv, NEW fd \in Fd, Safe(fd), NEW t \in Thread, job[t].fd = fd,
         job' = [job EXCEPT ![t] = NoJob], UNCHANGED <<events, tasks>>,
         \A s \in Thread \ {t} : pc'[s] = pc[s],
         \/ conn'[fd] = 0 /\ is_closed'[fd] /\ interest'[fd] \notin {"in", "out"}
         \/ conn'[fd] # 0 /\ interest'[fd] \in {"in", "out"}
  PROVE  Safe(fd)'
<1>1. /\ ~Reported(fd) /\ ~Queued(fd)
      /\ \A s \in Thread \ {t} : job[s].fd # fd
  BY Alone DEF Safe
<1>2. \A s \in Thread : job'[s].fd # fd
  BY <1>1, ServerAssumption DEF ServerAssumption, NoJob, LoopInv, TypeOK
<1>3. ~Reported(fd)' /\ ~Queued(fd)' /\ ~Handled(fd)'
  BY <1>1, <1>2 DEF Reported, Queued, Handled
<1>4. OneHolds(fd)'
  BY <1>2, <1>3 DEF Safe, OneHolds, Lone
<1>5. Owns(fd)'
  BY <1>2, <1>3 DEF Owns, TasksOwn, Queued
<1>6. OneShot(fd)'
  BY <1>2, <1>3 DEF OneShot, Armed
<1>7. Disarmed(fd)' /\ RealConn(fd)'
  BY <1>2, <1>3 DEF Disarmed, RealConn
<1>8. FlagSet(fd)'
  BY <1>2 DEF FlagSet
<1> QED BY <1>4, <1>5, <1>6, <1>7, <1>8 DEF Safe

(* What Return does to the jobs. *)
LEMMA ReturnFacts ==
  ASSUME LoopInv, NEW t \in Thread, Return(t)
  PROVE  /\ job' = [job EXCEPT ![t] = NoJob]
         /\ job'[t].fd = None
         /\ \A s \in Thread \ {t} : job'[s] = job[s] /\ pc'[s] = pc[s]
         /\ pc'[t] \in {"idle", "tick", "dispatch"}
BY DEF Return, LoopInv, TypeOK, NoJob

LEMMA SafeCheck ==
  ASSUME LoopInv, NEW fd \in Fd, Safe(fd), NEW t \in Thread, CheckClosed(t)
  PROVE  Safe(fd)'
<1>1. /\ job[t].fd \in Fd /\ pc[t] = "check"
      /\ UNCHANGED <<conn, interest, is_closed, events, tasks>>
  BY PlaceFacts, JobFacts DEF CheckClosed, Closing, batch
<1>2. CASE is_closed[job[t].fd]
  <2>1. Return(t)
    BY <1>2 DEF CheckClosed
  <2>2. CASE job[t].fd = fd
    <3>1. ~BeingClosed(fd)
      BY <1>1, <2>2, Alone DEF BeingClosed, Safe
    <3>2. pc[Main] = "init" => job[Main].fd # fd
      BY <1>1, <2>2, Alone DEF Safe, Thread
    <3>3. conn[fd] = 0
      BY <1>2, <2>2, <3>1, <3>2 DEF LoopInv, OpenExplained
    <3>4. ~Armed(fd)
      BY <3>3 DEF Safe, OneShot
    <3> QED BY <1>1, <1>2, <2>1, <2>2, <3>3, <3>4, ReturnFacts, JobEnds DEF Armed
  <2>3. CASE job[t].fd # fd
    BY <1>1, <2>1, <2>3, ReturnFacts, SafeOther, ServerAssumption DEF ServerAssumption
  <2> QED BY <2>2, <2>3
<1>3. CASE ~is_closed[job[t].fd]
  <2>1. job' = job /\ pc'[t] = "flag" /\ \A s \in Thread \ {t} : pc'[s] = pc[s]
    BY <1>3 DEF CheckClosed, LoopInv, TypeOK
  <2>2. CASE job[t].fd = fd
    <3>1. ~Armed(fd) /\ conn[fd] # 0
      BY <1>1, <1>3, <2>2 DEF Safe, OneShot, FlagSet
    <3> QED BY <1>1, <1>3, <2>1, <2>2, <3>1, SafeOwn DEF Armed, InTask
  <2>3. CASE job[t].fd # fd
    BY <1>1, <2>1, <2>3, SafeOther
  <2> QED BY <2>2, <2>3
<1> QED BY <1>2, <1>3

LEMMA SafeFlag ==
  ASSUME LoopInv, NEW fd \in Fd, Safe(fd), NEW t \in Thread, SetClosed(t)
  PROVE  Safe(fd)'
<1>1. /\ job[t].fd \in Fd /\ pc[t] = "flag"
      /\ UNCHANGED <<conn, interest, events, tasks, job>>
  BY PlaceFacts, JobFacts DEF SetClosed, Closing, batch
<1>2. /\ is_closed'[job[t].fd]
      /\ \A f \in Fd \ {job[t].fd} : is_closed'[f] = is_closed[f]
      /\ pc'[t] = "count" /\ \A s \in Thread \ {t} : pc'[s] = pc[s]
  BY <1>1 DEF SetClosed, LoopInv, TypeOK
<1>3. CASE job[t].fd = fd
  <2>1. ~Armed(fd)
    BY <1>1, <1>3 DEF Safe, OneShot
  <2>2. job[t].conn # 0
    BY <1>1, <1>3 DEF Safe, FlagSet, Owns
  <2> QED BY <1>1, <1>2, <1>3, <2>1, <2>2, SafeOwn DEF Armed, InTask
<1>4. CASE job[t].fd # fd
  BY <1>1, <1>2, <1>4, SafeOther
<1> QED BY <1>3, <1>4

LEMMA SafeClose ==
  ASSUME LoopInv, NEW fd \in Fd, Safe(fd), NEW t \in Thread, CloseFd(t)
  PROVE  Safe(fd)'
<1>1. /\ job[t].fd \in Fd /\ pc[t] = "close" /\ Return(t)
      /\ UNCHANGED <<is_closed, events, tasks>>
  BY PlaceFacts, JobFacts DEF CloseFd, Closing, batch
<1>2. /\ conn'[job[t].fd] = 0 /\ interest'[job[t].fd] = "none"
      /\ \A f \in Fd \ {job[t].fd} : conn'[f] = conn[f] /\ interest'[f] = interest[f]
  BY <1>1 DEF CloseFd, LoopInv, TypeOK
<1>3. CASE job[t].fd = fd
  <2>1. is_closed'[fd]
    BY <1>1, <1>3 DEF Safe, FlagSet
  <2> QED BY <1>1, <1>2, <1>3, <2>1, ReturnFacts, JobEnds
<1>4. CASE job[t].fd # fd
  BY <1>1, <1>2, <1>4, ReturnFacts, SafeOther, ServerAssumption DEF ServerAssumption
<1> QED BY <1>3, <1>4

LEMMA SafeRegister ==
  ASSUME LoopInv, NEW fd \in Fd, Safe(fd), Register
  PROVE  Safe(fd)'
<1>1. Main \in Thread
  BY DEF Thread
<1>2. /\ job[Main].conn # 0 /\ job[Main].fd \in Fd
      /\ UNCHANGED <<conn, is_closed, events, tasks>>
  BY <1>1, JobFacts DEF Register, LoopInv, MainJob, batch
<1>3. /\ interest'[job[Main].fd] = "in"
      /\ \A f \in Fd \ {job[Main].fd} : interest'[f] = interest[f]
  BY <1>2 DEF Register, LoopInv, TypeOK
<1>4. /\ job' = [job EXCEPT ![Main] = NoJob] /\ job'[Main].fd = None
      /\ \A s \in Thread \ {Main} : job'[s] = job[s] /\ pc'[s] = pc[s]
  BY <1>1 DEF Register, LoopInv, TypeOK, NoJob
<1>5. CASE job[Main].fd = fd
  <2>1. conn'[fd] # 0
    BY <1>1, <1>2, <1>5 DEF Safe, Owns
  <2> QED BY <1>1, <1>2, <1>3, <1>4, <1>5, <2>1, JobEnds
<1>6. CASE job[Main].fd # fd
  BY <1>1, <1>2, <1>3, <1>4, <1>6, SafeOther, ServerAssumption DEF ServerAssumption
<1> QED BY <1>5, <1>6

LEMMA SafeRearm ==
  ASSUME LoopInv, NEW fd \in Fd, Safe(fd), NEW w \in Worker, RearmIn(w) \/ RearmOut(w)
  PROVE  Safe(fd)'
<1>1. w \in Thread /\ pc[w] \in {"rearm_in", "rearm_out"}
  BY DEF Thread, RearmIn, RearmOut, Rearm
<1>2. /\ job[w].fd \in Fd
      /\ UNCHANGED <<conn, is_closed, events, tasks>>
  BY <1>1, PlaceFacts, JobFacts DEF RearmIn, RearmOut, Rearm, batch
<1>3. /\ interest[job[w].fd] = "off" => interest'[job[w].fd] \in {"in", "out"}
      /\ \A f \in Fd \ {job[w].fd} : interest'[f] = interest[f]
  BY <1>2 DEF RearmIn, RearmOut, Rearm, LoopInv, TypeOK
<1>4. /\ job' = [job EXCEPT ![w] = NoJob] /\ job'[w].fd = None
      /\ \A s \in Thread \ {w} : job'[s] = job[s] /\ pc'[s] = pc[s]
  BY <1>1 DEF RearmIn, RearmOut, Rearm, LoopInv, TypeOK, NoJob
<1>5. CASE job[w].fd = fd
  <2>1. interest[fd] = "off" /\ conn[fd] # 0
    BY <1>1, <1>5 DEF Safe, Disarmed, InTask, RealConn, Owns
  <2> QED BY <1>1, <1>2, <1>3, <1>4, <1>5, <2>1, JobEnds
<1>6. CASE job[w].fd # fd
  BY <1>1, <1>2, <1>3, <1>4, <1>6, SafeOther, ServerAssumption DEF ServerAssumption
<1> QED BY <1>5, <1>6

(* init and reset of a connection clear is_closed_. *)
LEMMA SafeClear ==
  ASSUME LoopInv, NEW fd \in Fd, Safe(fd),
         InitConn \/ \E w \in Worker : Reset(w)
  PROVE  Safe(fd)'
<1>1. PICK t \in Thread :
        /\ UNCHANGED <<conn, interest, events, tasks, job>>
        /\ \/ t = Main /\ pc[t] = "init" /\ pc'[t] = "register"
           \/ t \in Worker /\ pc[t] = "reset" /\ pc'[t] = "rearm_in"
        /\ is_closed' = [is_closed EXCEPT ![job[t].fd] = FALSE]
        /\ \A s \in Thread \ {t} : pc'[s] = pc[s]
  <2>1. CASE InitConn
    BY <2>1 DEF InitConn, LoopInv, TypeOK, batch, Thread
  <2>2. ASSUME NEW w \in Worker, Reset(w)
        PROVE  /\ UNCHANGED <<conn, interest, events, tasks, job>>
               /\ w \in Thread /\ pc[w] = "reset" /\ pc'[w] = "rearm_in"
               /\ is_closed' = [is_closed EXCEPT ![job[w].fd] = FALSE]
               /\ \A s \in Thread \ {w} : pc'[s] = pc[s]
    BY <2>2 DEF Reset, LoopInv, TypeOK, batch, Thread
  <2> QED BY <2>1, <2>2
<1>2. t = Main => job[t].conn # 0
  BY <1>1, ServerAssumption DEF LoopInv, MainJob, ServerAssumption
<1>3. job[t].fd \in Fd
  BY <1>1, PlaceFacts, JobFacts
<1>4. CASE job[t].fd = fd
  <2>1. conn[fd] # 0
    BY <1>1, <1>2, <1>4 DEF Safe, Owns, RealConn
  <2>2. ~Armed(fd)
    BY <1>1, <1>4 DEF Safe, OneShot
  <2>3. pc'[t] \in InTask => interest[fd] = "off"
    BY <1>1, <1>4 DEF Safe, Disarmed, InTask
  <2>4. ~is_closed'[fd]
    BY <1>1, <1>4 DEF LoopInv, TypeOK
  <2> QED BY <1>1, <1>4, <2>1, <2>2, <2>3, <2>4, SafeOwn DEF Armed
<1>5. CASE job[t].fd # fd
  <2>1. is_closed'[fd] = is_closed[fd]
    BY <1>1, <1>5 DEF LoopInv, TypeOK
  <2> QED BY <1>1, <1>5, <2>1, SafeOther
<1> QED BY <1>4, <1>5

(* A job starts: a thread takes over a descriptor that no other thread     *)
(* and, from now on, no event and no task holds.                           *)
LEMMA JobStarts ==
  ASSUME LoopInv, NEW fd \in Fd, NEW t \in Thread, NEW j \in Jobs, j.fd = fd,
         job' = [job EXCEPT ![t] = j],
         \A s \in Thread \ {t} : pc'[s] = pc[s] /\ job[s].fd # fd,
         ~Reported(fd)', ~Queued(fd)', conn'[fd] = j.conn,
         is_closed'[fd] \/ conn'[fd] # 0,
         interest'[fd] \in {"in", "out"} =>
           conn'[fd] # 0 /\ t = Main /\ pc'[t] = "del",
         pc'[t] \in InTask => interest'[fd] = "off",
         t \in Worker => j.conn # 0,
         pc'[t] \notin {"flag", "count", "close"}
  PROVE  Safe(fd)'
<1>1. \A s \in Thread : job'[s].fd = fd => s = t /\ job'[s] = j
  BY DEF LoopInv, TypeOK
<1>2. OneHolds(fd)'
  BY <1>1 DEF OneHolds, Lone, Queued
<1>3. Owns(fd)'
  BY <1>1 DEF Owns, TasksOwn, Queued
<1>4. OneShot(fd)'
  BY <1>1 DEF OneShot, Armed
<1>5. Disarmed(fd)' /\ RealConn(fd)'
  BY <1>1 DEF Disarmed, RealConn
<1>6. FlagSet(fd)'
  BY <1>1 DEF FlagSet
<1> QED BY <1>2, <1>3, <1>4, <1>5, <1>6 DEF Safe

(* The callback of a timer takes over a descriptor that nothing holds, or  *)
(* the descriptor is not in time any more.                                 *)
LEMMA SafeExpire ==
  ASSUME LoopInv, NEW fd \in Fd, Safe(fd), NEW f \in Fd, Expire(f), fd \notin outlived'
  PROVE  Safe(fd)'
<1> DEFINE j == Job("timeout", f)
<1>1. Main \in Thread /\ Main \notin Worker
  BY ServerAssumption DEF ServerAssumption, Thread
<1>2. /\ j \in Jobs /\ j.fd = f /\ j.conn = conn[f]
      /\ job' = [job EXCEPT ![Main] = j]
      /\ UNCHANGED <<conn, interest, is_closed, events, tasks>>
      /\ pc[Main] = "tick" /\ pc'[Main] = "del"
      /\ \A s \in Thread \ {Main} : job'[s] = job[s] /\ pc'[s] = pc[s]
  BY <1>1 DEF Expire, Job, Jobs, JobKind, LoopInv, TypeOK, batch
<1> HIDE DEF j
<1>3. CASE f = fd
  <2>1. ~Queued(fd) /\ ~Handled(fd)
    BY <1>3 DEF Expire
  <2>2. ~Reported(fd)
    BY <1>2 DEF LoopInv, BatchScope
  <2>3. /\ ~Reported(fd)' /\ ~Queued(fd)'
        /\ \A s \in Thread \ {Main} : pc'[s] = pc[s] /\ job[s].fd # fd
    BY <1>2, <2>1, <2>2 DEF Reported, Queued, Handled
  <2>4. /\ is_closed'[fd] \/ conn'[fd] # 0
        /\ interest'[fd] \in {"in", "out"} => conn'[fd] # 0
    BY <1>2 DEF Safe, FlagSet, OneShot, Armed
  <2> QED BY <1>1, <1>2, <1>3, <2>3, <2>4, JobStarts DEF InTask
<1>4. CASE f # fd
  <2>1. job'[Main].fd # fd
    BY <1>1, <1>2, <1>4 DEF LoopInv, TypeOK
  <2> QED BY <1>1, <1>2, <2>1, SafeOther
<1> QED BY <1>3, <1>4

LEMMA SafeHup ==
  ASSUME LoopInv, NEW fd \in Fd, Safe(fd), NEW f \in Fd, DealHup(f)
  PROVE  Safe(fd)'
<1> DEFINE j == Job("hup", f)
<1>1. Main \in Thread /\ Main \notin Worker
  BY ServerAssumption DEF ServerAssumption, Thread
<1>2. /\ j \in Jobs /\ j.fd = f /\ j.conn = conn[f]
      /\ job' = [job EXCEPT ![Main] = j]
      /\ UNCHANGED <<conn, interest, is_closed, tasks>>
      /\ pc'[Main] = "del"
      /\ \A s \in Thread \ {Main} : job'[s] = job[s] /\ pc'[s] = pc[s]
  BY <1>1 DEF DealHup, Job, Jobs, JobKind, LoopInv, TypeOK
<1> HIDE DEF j
<1>3. Reported(f) /\ ~Reported(f)' /\ (Reported(fd)' => Reported(fd))
  BY DEF DealHup, Reported, LoopInv, TypeOK
<1>4. CASE f = fd
  <2>1. ~Queued(fd) /\ ~Handled(fd) /\ conn[fd] # 0
    BY <1>3, <1>4 DEF Safe, OneHolds, Owns
  <2>2. ~Queued(fd)' /\ \A s \in Thread \ {Main} : job[s].fd # fd
    BY <1>2, <2>1 DEF Queued, Handled
  <2> QED BY <1>1, <1>2, <1>3, <1>4, <2>1, <2>2, JobStarts DEF InTask
<1>5. CASE f # fd
  <2>1. \A s \in Thread : job'[s].fd = fd => Moves(s)
    BY <1>1, <1>2, <1>5 DEF LoopInv, TypeOK, Moves
  <2>2. Lone(fd)' /\ TasksOwn(fd)' /\ (Queued(fd)' => Queued(fd))
    BY <1>2, SameTasks DEF Safe, OneHolds, Owns
  <2> QED BY <1>2, <1>3, <2>1, <2>2, Untouched
<1> QED BY <1>4, <1>5

LEMMA SafeAccept ==
  ASSUME LoopInv, NEW fd \in Fd, Safe(fd), NEW f \in Fd, Accept(f)
  PROVE  Safe(fd)'
<1> DEFINE j == [kind |-> "accept", fd |-> f, conn |-> arrived - backlog + 1]
<1>1. Main \in Thread /\ Main \notin Worker
  BY ServerAssumption DEF ServerAssumption, Thread
<1>2. arrived - backlog + 1 \in 1 .. MaxConn
  BY ServerAssumption DEF ServerAssumption, Accept, LoopInv, TypeOK
<1>3. /\ j \in Jobs /\ j.fd = f /\ j.conn # 0
  BY <1>2 DEF Jobs, JobKind
<1>4. /\ job' = [job EXCEPT ![Main] = j]
      /\ UNCHANGED <<interest, is_closed, events, tasks>>
      /\ conn[f] = 0 /\ conn'[f] = j.conn
      /\ \A g \in Fd \ {f} : conn'[g] = conn[g]
      /\ pc'[Main] = "init"
      /\ \A s \in Thread \ {Main} : job'[s] = job[s] /\ pc'[s] = pc[s]
  BY <1>1 DEF Accept, FreeFd, LoopInv, TypeOK, batch
<1> HIDE DEF j
<1>5. CASE f = fd
  <2>1. ~Reported(fd) /\ ~Queued(fd) /\ ~Armed(fd)
    BY <1>4, <1>5 DEF Safe, Owns, TasksOwn, OneShot, Queued
  <2>2. \A s \in Thread \ {Main} : job[s].fd # fd
    BY <1>4, <1>5 DEF Safe, Owns, RealConn, Thread
  <2>3. ~Reported(fd)' /\ ~Queued(fd)' /\ interest'[fd] \notin {"in", "out"}
    BY <1>4, <2>1 DEF Reported, Queued, Armed
  <2> QED BY <1>1, <1>3, <1>4, <1>5, <2>2, <2>3, JobStarts DEF InTask
<1>6. CASE f # fd
  <2>1. job'[Main].fd # fd /\ conn'[fd] = conn[fd]
    BY <1>1, <1>3, <1>4, <1>6 DEF LoopInv, TypeOK
  <2> QED BY <1>1, <1>4, <2>1, SafeOther
<1> QED BY <1>5, <1>6

(* The queue without its first task. *)
LEMMA TailTasks ==
  ASSUME LoopInv, tasks # <<>>, tasks' = Tail(tasks), NEW fd \in Fd, conn'[fd] = conn[fd],
         Lone(fd), TasksOwn(fd)
  PROVE  /\ Lone(fd)' /\ TasksOwn(fd)' /\ (Queued(fd)' => Queued(fd))
         /\ Head(tasks).fd = fd => Queued(fd) /\ ~Queued(fd)'
<1>1. tasks \in Seq(Tasks)
  BY DEF LoopInv, TypeOK
<1>2. /\ Len(tasks) \in Nat /\ 1 \in 1 .. Len(tasks) /\ Head(tasks) = tasks[1]
      /\ Len(tasks') = Len(tasks) - 1
      /\ \A i \in 1 .. Len(tasks') :
           i + 1 \in 1 .. Len(tasks) /\ tasks'[i] = tasks[i + 1]
  BY <1>1, TakeTask
<1>3. Lone(fd)'
  BY <1>2 DEF Lone
<1>4. TasksOwn(fd)'
  BY <1>2 DEF TasksOwn
<1>5. Queued(fd)' => Queued(fd)
  BY <1>2 DEF Queued
<1>6. ASSUME Head(tasks).fd = fd
      PROVE  Queued(fd) /\ ~Queued(fd)'
  <2>1. \A i \in 1 .. Len(tasks) : tasks[i].fd = fd => i = 1
    BY <1>2, <1>6 DEF Lone
  <2>2. \A i \in 1 .. Len(tasks') : tasks'[i].fd # fd
    BY <1>2, <2>1
  <2> QED BY <1>2, <1>6, <2>2 DEF Queued
<1> QED BY <1>3, <1>4, <1>5, <1>6

LEMMA SafeTake ==
  ASSUME LoopInv, NEW fd \in Fd, Safe(fd), NEW w \in Worker, Take(w)
  PROVE  Safe(fd)'
<1>1. w \in Thread
  BY DEF Thread
<1>2. tasks \in Seq(Tasks) /\ tasks # <<>> /\ tasks' = Tail(tasks)
  BY DEF Take, LoopInv, TypeOK
<1>3. PICK j \in Tasks : j = Head(tasks)
  BY <1>2, TakeTask
<1>4. j \in Jobs /\ (j.conn # 0 \/ j.fd # fd)
  <2>1. j \in Jobs
    BY DEF Tasks, Jobs, JobKind
  <2>2. j = tasks[1] /\ 1 \in 1 .. Len(tasks)
    BY <1>2, <1>3, TakeTask
  <2> QED BY <2>1, <2>2 DEF Safe, Owns, TasksOwn
<1>5. /\ job' = [job EXCEPT ![w] = j]
      /\ UNCHANGED <<conn, interest, is_closed, events>>
      /\ pc'[w] = j.kind
      /\ \A s \in Thread \ {w} : job'[s] = job[s] /\ pc'[s] = pc[s]
  BY <1>1, <1>3 DEF Take, LoopInv, TypeOK, batch
<1>6. /\ Lone(fd)' /\ TasksOwn(fd)' /\ (Queued(fd)' => Queued(fd))
      /\ j.fd = fd => Queued(fd) /\ ~Queued(fd)'
  BY <1>2, <1>3, <1>5, TailTasks DEF Safe, OneHolds, Owns
<1>7. CASE j.fd = fd
  <2>1. ~Reported(fd) /\ ~Handled(fd) /\ interest[fd] = "off"
    BY <1>6, <1>7 DEF Safe, OneHolds, Disarmed
  <2>2. ~Reported(fd)' /\ \A s \in Thread \ {w} : job[s].fd # fd
    BY <1>5, <2>1 DEF Reported, Handled
  <2>3. conn[fd] = j.conn
    <3>1. j = tasks[1] /\ 1 \in 1 .. Len(tasks)
      BY <1>2, <1>3, TakeTask
    <3> QED BY <1>7, <3>1 DEF Safe, Owns, TasksOwn
  <2>4. pc'[w] \notin {"flag", "count", "close"}
    BY <1>5 DEF Tasks
  <2>5. j \in Jobs /\ j.conn # 0
    BY <1>4, <1>7
  <2> QED BY <1>1, <1>5, <1>6, <1>7, <2>1, <2>2, <2>3, <2>4, <2>5, JobStarts
<1>8. CASE j.fd # fd
  <2>1. \A s \in Thread : job'[s].fd = fd => Moves(s)
    BY <1>1, <1>5, <1>8 DEF LoopInv, TypeOK, Moves
  <2> QED BY <1>5, <1>6, <2>1, Untouched DEF Reported
<1> QED BY <1>7, <1>8

LEMMA SafeWait ==
  ASSUME LoopInv, NEW fd \in Fd, Safe(fd), Wait
  PROVE  Safe(fd)'
<1>1. Main \in Thread
  BY DEF Thread
<1>2. /\ UNCHANGED <<conn, is_closed, tasks, job>>
      /\ pc[Main] = "wait" /\ job[Main] = NoJob
      /\ \A s \in Thread : Moves(s)
  BY <1>1 DEF Wait, LoopInv, TypeOK, MainJob, Moves, InTask
<1>3. /\ Reported(fd)' => Armed(fd) /\ interest'[fd] = "off"
      /\ ~Reported(fd)' => interest'[fd] = interest[fd]
  BY DEF Wait, Reports, Reported, Armed, LoopInv, TypeOK
<1>4. Lone(fd)' /\ TasksOwn(fd)' /\ (Queued(fd)' <=> Queued(fd))
  BY <1>2, SameTasks DEF Safe, OneHolds, Owns
<1>5. CASE Reported(fd)'
  <2>1. conn[fd] # 0 /\ ~Queued(fd) /\ \A t \in Thread : job[t].fd = fd => t = Main
    BY <1>3, <1>5 DEF Safe, OneShot
  <2>2. job[Main].fd # fd
    BY <1>2, ServerAssumption DEF ServerAssumption, NoJob
  <2>3. ~Queued(fd)' /\ \A t \in Thread : job'[t].fd # fd
    BY <1>2, <1>4, <2>1, <2>2
  <2>4. OneHolds(fd)' /\ Owns(fd)'
    BY <1>2, <1>4, <2>1, <2>3 DEF OneHolds, Owns, Handled
  <2>5. OneShot(fd)' /\ Disarmed(fd)'
    BY <1>3, <1>5, <2>3 DEF OneShot, Disarmed, Armed
  <2>6. RealConn(fd)' /\ FlagSet(fd)'
    BY <1>2, <2>1, <2>3 DEF RealConn, FlagSet
  <2> QED BY <2>4, <2>5, <2>6 DEF Safe
<1>6. CASE ~Reported(fd)'
  BY <1>2, <1>3, <1>4, <1>6, Untouched
<1> QED BY <1>5, <1>6

LEMMA SafeDeal ==
  ASSUME LoopInv, NEW fd \in Fd, Safe(fd), NEW f \in Fd, NEW kind \in {"read", "write"},
         NEW event \in {"in", "out"}, DealIO(f, event, kind)
  PROVE  Safe(fd)'
<1> DEFINE j == Job(kind, f)
<1>1. /\ UNCHANGED <<conn, interest, is_closed, pc, job>>
      /\ tasks' = Append(tasks, j)
      /\ j \in Tasks /\ j.fd = f /\ j.conn = conn[f]
  BY DEF DealIO, Job, Tasks, LoopInv, TypeOK
<1>2. /\ Len(tasks) \in Nat /\ Len(tasks') = Len(tasks) + 1
      /\ \A i \in 1 .. Len(tasks) : tasks'[i] = tasks[i]
      /\ tasks'[Len(tasks) + 1] = j
  BY <1>1, AppendTask DEF LoopInv, TypeOK
<1> HIDE DEF j
<1>3. Reported(f) /\ ~Reported(f)' /\ (Reported(fd)' => Reported(fd))
  BY DEF DealIO, Reported, LoopInv, TypeOK
<1>4. \A s \in Thread : Moves(s)
  BY <1>1 DEF Moves
<1>5. CASE f = fd
  <2>1. ~Queued(fd) /\ ~Handled(fd) /\ conn[fd] # 0 /\ interest[fd] = "off"
    BY <1>3, <1>5 DEF Safe, OneHolds, Owns, Disarmed
  <2>2. \A i \in 1 .. Len(tasks') : tasks'[i].fd = fd => i = Len(tasks) + 1
    BY <1>2, <2>1 DEF Queued
  <2>3. Lone(fd)' /\ TasksOwn(fd)'
    <3>1. Lone(fd)'
      BY <2>2 DEF Lone
    <3>2. TasksOwn(fd)'
      BY <1>1, <1>2, <1>5, <2>1, <2>2 DEF TasksOwn
    <3> QED BY <3>1, <3>2
  <2>4. ~Handled(fd)' /\ \A t \in Thread : job'[t].fd # fd
    BY <1>1, <2>1 DEF Handled
  <2>5. OneHolds(fd)' /\ Owns(fd)'
    BY <1>1, <1>3, <1>5, <2>1, <2>3, <2>4 DEF OneHolds, Owns
  <2>6. OneShot(fd)' /\ Disarmed(fd)'
    BY <1>1, <2>1, <2>4 DEF OneShot, Disarmed, Armed
  <2>7. RealConn(fd)' /\ FlagSet(fd)'
    BY <1>1, <2>1, <2>4 DEF RealConn, FlagSet
  <2> QED BY <2>5, <2>6, <2>7 DEF Safe
<1>6. CASE f # fd
  <2>1. Queued(fd)' => Queued(fd)
    BY <1>1, <1>2, <1>6 DEF Queued
  <2>2. Lone(fd)'
    <3>1. \A i \in 1 .. Len(tasks') : tasks'[i].fd = fd =>
            i \in 1 .. Len(tasks) /\ tasks[i].fd = fd
      BY <1>1, <1>2, <1>6
    <3> QED BY <3>1 DEF Safe, OneHolds, Lone
  <2>3. TasksOwn(fd)'
    BY <1>1, <1>2, <1>6 DEF Safe, Owns, TasksOwn
  <2> QED BY <1>1, <1>3, <1>4, <2>1, <2>2, <2>3, Untouched
<1> QED BY <1>5, <1>6
-----------------------------------------------------------------------------
LEMMA HandlerInit == Init => HandlerInv
<1> SUFFICES ASSUME Init, NEW fd \in Fd PROVE Safe(fd)
  BY DEF HandlerInv, InTime
<1>1. tasks = <<>> /\ Len(tasks) = 0
  BY DEF Init
<1>2. ~Reported(fd) /\ ~Queued(fd) /\ ~Armed(fd) /\ is_closed[fd]
  BY <1>1 DEF Init, Reported, Queued, Armed
<1>3. \A t \in Thread : job[t].fd # fd
  BY ServerAssumption DEF ServerAssumption, Init, NoJob
<1>4. OneHolds(fd) /\ Owns(fd)
  BY <1>1, <1>2, <1>3 DEF OneHolds, Owns, Lone, TasksOwn, Handled
<1>5. OneShot(fd) /\ Disarmed(fd) /\ RealConn(fd) /\ FlagSet(fd)
  BY <1>2, <1>3 DEF OneShot, Disarmed, RealConn, FlagSet
<1> QED BY <1>4, <1>5 DEF Safe

LEMMA SafeNext ==
  ASSUME LoopInv, NEW fd \in Fd, Safe(fd), Next, fd \notin outlived'
  PROVE  Safe(fd)'
<1>1. CASE \/ Arrive \/ TickDone \/ BatchDone \/ DealListen \/ AcceptFails
           \/ Refuse
  BY <1>1, SafeMove
<1>2. ASSUME NEW t \in Thread, CloseConn(t)
      PROVE  Safe(fd)'
  <2>1. CASE CountDown(t)
    BY <2>1, SafeMove
  <2> QED BY <1>2, <2>1, SafeDel, SafeCheck, SafeFlag, SafeClose DEF CloseConn
<1>3. ASSUME NEW f \in Fd,
             Expire(f) \/ DealHup(f) \/ DealRead(f) \/ DealWrite(f) \/ Accept(f)
      PROVE  Safe(fd)'
  <2>1. CASE DealRead(f) \/ DealWrite(f)
    BY <2>1, SafeDeal DEF DealRead, DealWrite
  <2> QED BY <1>3, <2>1, SafeExpire, SafeHup, SafeAccept
<1>4. CASE Wait \/ InitConn \/ Register
  BY <1>4, SafeWait, SafeClear, SafeRegister
<1>5. ASSUME NEW w \in Worker,
             \/ Take(w) \/ OnRead(w) \/ OnWrite(w) \/ Reset(w)
             \/ RearmIn(w) \/ RearmOut(w)
      PROVE  Safe(fd)'
  <2>1. CASE OnRead(w) \/ OnWrite(w)
    BY <2>1, SafeMove
  <2> QED BY <1>5, <2>1, SafeTake, SafeClear, SafeRearm
<1> QED
  BY <1>1, <1>2, <1>3, <1>4, <1>5 DEF Next, MainLoop, WorkerStep, Thread

(* Nothing that a timer did is forgotten. *)
LEMMA OutlivedGrows == ASSUME LoopInv, [Next]_vars PROVE outlived \subseteq outlived'
BY DEF Next, MainLoop, WorkerStep, CloseConn, vars, history,
       Arrive, Wait, TickDone, DealListen, BatchDone, AcceptFails, Refuse, InitConn,
       Register, Expire, DealHup, DealRead, DealWrite, DealIO, Accept, Take, OnRead,
       OnWrite, Reset, RearmIn, RearmOut, Rearm, Del, CheckClosed, SetClosed, CountDown,
       CloseFd

LEMMA HandlerNext == LoopInv /\ HandlerInv /\ [Next]_vars => HandlerInv'
<1> SUFFICES ASSUME LoopInv, HandlerInv, [Next]_vars, NEW fd \in Fd, fd \notin outlived'
             PROVE  Safe(fd)'
  BY DEF HandlerInv, InTime
<1>1. Safe(fd)
  BY OutlivedGrows DEF HandlerInv, InTime
<1>2. CASE Next
  BY <1>1, <1>2, SafeNext
<1>3. CASE UNCHANGED vars
  BY <1>1, <1>3 DEF vars, Safe, OneHolds, Lone, Owns, TasksOwn, OneShot, Disarmed,
     RealConn, FlagSet, Armed, Reported, Queued, Handled
<1> QED BY <1>2, <1>3

THEOREM HandlerInvariant == Spec => []HandlerInv
BY HandlerNext, HandlerInit, LoopInvariant, PTL DEF Spec

(* EPOLLONESHOT excludes two handlers of one connection, as long as no     *)
(* timer closes that connection under a task; what timers do to other      *)
(* connections does not matter.                                            *)
THEOREM OneAtATime == Spec => []OneHandler
<1>1. HandlerInv => OneHandler
  BY DEF HandlerInv, Safe, OneHolds, Lone, OneHandler
<1>2. QED
  BY <1>1, HandlerInvariant, PTL

(* No event, task or close meets a descriptor that has been handed out     *)
(* again in between, unless a timer closed that one under a task.          *)
THEOREM NoReuse == Spec => []OwnConnection
<1>1. HandlerInv => OwnConnection
  BY DEF HandlerInv, Safe, Owns, TasksOwn, OwnConnection
<1>2. QED
  BY <1>1, HandlerInvariant, PTL

(* close(fd_) runs once for each connection that no timer closed under a   *)
(* task, and meets it open.                                                *)
THEOREM NoDoubleClose == Spec => []ClosedOnce
<1>1. LoopInv /\ HandlerInv => ClosedOnce
  <2> SUFFICES ASSUME LoopInv, HandlerInv, NEW t \in Thread, job[t].fd \in InTime,
                      pc[t] \in {"flag", "count", "close"}
               PROVE  /\ conn[job[t].fd] # 0
                      /\ \A s \in Thread \ {t} : job[s].fd # job[t].fd
    BY DEF ClosedOnce
  <2> DEFINE fd == job[t].fd
  <2>1. fd \in Fd /\ Safe(fd)
    BY DEF HandlerInv, InTime
  <2>2. \A s \in Thread \ {t} : job[s].fd # fd
    BY <2>1, Alone DEF Safe
  <2>3. conn[fd] # 0
    BY <2>1 DEF Safe, FlagSet, RealConn, Owns
  <2> QED BY <2>2, <2>3
<1>2. QED
  BY <1>1, LoopInvariant, HandlerInvariant, PTL
-----------------------------------------------------------------------------
(* No open connection is forgotten, whatever the timers do.                *)

(* What epoll has reported is on its way to on_read_, on_write_ or close.  *)
Held(fd) ==
  Reported(fd) \/ Queued(fd)
  \/ \E t \in Thread : job[t].fd = fd /\ pc[t] \in InTask \cup {"del"}

(* A thread registers fd, or closes it after it was taken out of epoll. *)
Passing == (Closing \ {"del"}) \cup {"init", "register"}
Passes(fd) == \E t \in Thread : job[t].fd = fd /\ pc[t] \in Passing

Kept(fd) ==
  /\ interest[fd] = "off" => Held(fd)
  /\ conn[fd] # 0 /\ interest[fd] = "none" => Passes(fd)

LostInv == \A fd \in Fd : Kept(fd)

(* A thread keeps its job and stays on its way. *)
Stays(t) ==
  /\ job'[t] = job[t]
  /\ pc[t] \in InTask \cup {"del"} => pc'[t] \in InTask \cup {"del"}
  /\ pc[t] \in Passing => pc'[t] \in Passing

LEMMA KeptQuiet ==
  ASSUME NEW fd \in Fd, Kept(fd), UNCHANGED <<conn[fd], interest[fd]>>,
         Reported(fd) => Reported(fd)' \/ Queued(fd)',
         Queued(fd) => Queued(fd)',
         \A t \in Thread : job[t].fd = fd => Stays(t)
  PROVE  Kept(fd)'
<1>1. Held(fd) => Held(fd)'
  BY DEF Held, Stays
<1>2. Passes(fd) => Passes(fd)'
  BY DEF Passes, Stays
<1> QED BY <1>1, <1>2 DEF Kept

(* A step of thread t, and of it only. *)
LEMMA KeptOther ==
  ASSUME NEW fd \in Fd, Kept(fd), NEW t \in Thread, job[t].fd # fd,
         UNCHANGED <<events, tasks>>, UNCHANGED <<conn[fd], interest[fd]>>,
         \A s \in Thread \ {t} : job'[s] = job[s] /\ pc'[s] = pc[s]
  PROVE  Kept(fd)'
<1>1. \A s \in Thread : job[s].fd = fd => Stays(s)
  BY DEF Stays
<1> QED BY <1>1, KeptQuiet DEF Reported, Queued

LEMMA KeptMain ==
  ASSUME LoopInv, NEW fd \in Fd, Kept(fd),
         \/ Arrive \/ TickDone \/ BatchDone \/ DealListen \/ AcceptFails
         \/ Refuse \/ InitConn
         \/ \E f \in Fd : DealRead(f) \/ DealWrite(f)
  PROVE  Kept(fd)'
<1>1. UNCHANGED <<conn, interest, job>>
  BY DEF Arrive, TickDone, BatchDone, DealListen, AcceptFails, Refuse, InitConn,
         DealRead, DealWrite, DealIO
<1>2. \A t \in Thread : Stays(t)
  <2>1. pc' = pc \/ (\A t \in Thread \ {Main} : pc'[t] = pc[t])
    BY DEF Arrive, TickDone, BatchDone, DealListen, AcceptFails, Refuse, InitConn,
           DealRead, DealWrite, DealIO, LoopInv, TypeOK
  <2>2. pc' = pc \/ pc[Main] \notin InTask \cup Closing \cup {"init", "register"}
        \/ (pc[Main] = "init" /\ pc'[Main] = "register")
    BY DEF Arrive, TickDone, BatchDone, DealListen, AcceptFails, Refuse, InitConn,
           DealRead, DealWrite, DealIO, LoopInv, TypeOK, InTask, Closing, Thread
  <2> QED BY <1>1, <2>1, <2>2 DEF Stays, Passing, Closing, InTask
<1>3. Queued(fd) => Queued(fd)'
  <2>1. CASE tasks' = tasks
    BY <2>1 DEF Queued
  <2>2. CASE \E f \in Fd : DealRead(f) \/ DealWrite(f)
    <3>1. PICK f \in Fd, kind \in {"read", "write"} :
            tasks' = Append(tasks, Job(kind, f)) /\ Job(kind, f) \in Tasks
      BY <2>2 DEF DealRead, DealWrite, DealIO, Job, Tasks, LoopInv, TypeOK
    <3>2. /\ Len(tasks) \in Nat /\ Len(tasks') = Len(tasks) + 1
          /\ \A i \in 1 .. Len(tasks) : tasks'[i] = tasks[i]
      BY <3>1, AppendTask DEF LoopInv, TypeOK
    <3> QED BY <3>2 DEF Queued
  <2> QED
    BY <2>1, <2>2 DEF Arrive, TickDone, BatchDone, DealListen, AcceptFails, Refuse,
       InitConn
<1>4. Reported(fd) => Reported(fd)' \/ Queued(fd)'
  <2>1. CASE events' = events
    BY <2>1 DEF Reported
  <2>2. CASE \E f \in Fd : DealRead(f) \/ DealWrite(f)
    <3>1. PICK f \in Fd, kind \in {"read", "write"} :
            /\ tasks' = Append(tasks, Job(kind, f)) /\ Job(kind, f) \in Tasks
            /\ events' = [events EXCEPT ![f] = "none"]
            /\ Job(kind, f).fd = f
      BY <2>2 DEF DealRead, DealWrite, DealIO, Job, Tasks, LoopInv, TypeOK
    <3>2. /\ Len(tasks) \in Nat /\ Len(tasks') = Len(tasks) + 1
          /\ tasks'[Len(tasks) + 1] = Job(kind, f)
      BY <3>1, AppendTask DEF LoopInv, TypeOK
    <3>3. Queued(f)'
      BY <3>1, <3>2 DEF Queued
    <3>4. f # fd => (Reported(fd) => Reported(fd)')
      BY <3>1 DEF Reported, LoopInv, TypeOK
    <3> QED BY <3>3, <3>4
  <2> QED
    BY <2>1, <2>2 DEF Arrive, TickDone, BatchDone, DealListen, AcceptFails, Refuse,
       InitConn, batch
<1> QED BY <1>1, <1>2, <1>3, <1>4, KeptQuiet

(* The main thread takes a job. *)
LEMMA KeptStarts ==
  ASSUME LoopInv, NEW fd \in Fd, Kept(fd), NEW f \in Fd,
         Expire(f) \/ DealHup(f) \/ Accept(f)
  PROVE  Kept(fd)'
<1>1. Main \in Thread
  BY DEF Thread
<1>2. /\ UNCHANGED <<interest, tasks>>
      /\ pc[Main] \in {"tick", "dispatch", "accept"}
      /\ job'[Main].fd = f
      /\ \A s \in Thread \ {Main} : job'[s] = job[s] /\ pc'[s] = pc[s]
  BY <1>1 DEF Expire, DealHup, Accept, Job, LoopInv, TypeOK
<1>3. job[Main].fd # fd
  BY <1>2, ServerAssumption DEF ServerAssumption, LoopInv, MainJob, NoJob
<1>4. \A s \in Thread : job[s].fd = fd => Stays(s)
  BY <1>2, <1>3 DEF Stays
<1>5. CASE Expire(f)
  <2>1. conn' = conn /\ events' = events
    BY <1>5 DEF Expire, batch
  <2> QED BY <1>2, <1>4, <2>1, KeptQuiet DEF Reported, Queued
<1>6. CASE DealHup(f)
  <2>1. conn' = conn /\ pc'[Main] = "del"
    BY <1>1, <1>6 DEF DealHup, LoopInv, TypeOK
  <2>2. CASE f = fd
    <3>1. Held(fd)'
      BY <1>1, <1>2, <2>1, <2>2 DEF Held
    <3>2. Passes(fd) => Passes(fd)'
      BY <1>4 DEF Passes, Stays
    <3> QED BY <1>2, <2>1, <3>1, <3>2 DEF Kept
  <2>3. CASE f # fd
    <3>1. Reported(fd) => Reported(fd)'
      BY <1>6, <2>3 DEF DealHup, Reported, LoopInv, TypeOK
    <3> QED BY <1>2, <1>4, <2>1, <3>1, KeptQuiet DEF Queued
  <2> QED BY <2>2, <2>3
<1>7. CASE Accept(f)
  <2>1. /\ events' = events /\ pc'[Main] = "init"
        /\ \A g \in Fd \ {f} : conn'[g] = conn[g]
    BY <1>1, <1>7 DEF Accept, LoopInv, TypeOK, batch
  <2>2. CASE f = fd
    <3>1. Held(fd) => Held(fd)'
      BY <1>2, <1>4, <2>1 DEF Held, Reported, Queued, Stays
    <3>2. Passes(fd)'
      BY <1>1, <1>2, <2>1, <2>2 DEF Passes, Passing
    <3> QED BY <1>2, <3>1, <3>2 DEF Kept
  <2>3. CASE f # fd
    BY <1>2, <1>4, <2>1, <2>3, KeptQuiet DEF Reported, Queued
  <2> QED BY <2>2, <2>3
<1> QED BY <1>5, <1>6, <1>7

LEMMA KeptWait ==
  ASSUME LoopInv, NEW fd \in Fd, Kept(fd), Wait
  PROVE  Kept(fd)'
<1>1. UNCHANGED <<conn, tasks, job>> /\ \A t \in Thread : Stays(t)
  BY DEF Wait, Stays, Passing, InTask, Closing, LoopInv, TypeOK
<1>2. Reported(fd)' \/ interest'[fd] = interest[fd]
  BY DEF Wait, Reports, Reported, LoopInv, TypeOK
<1>3. ~Reported(fd)
  BY DEF Wait, LoopInv, BatchScope
<1>4. CASE Reported(fd)'
  <2>1. interest'[fd] = "off"
    BY <1>4 DEF Wait, Reports, Reported, LoopInv, TypeOK
  <2> QED BY <1>4, <2>1 DEF Kept, Held
<1>5. CASE ~Reported(fd)'
  BY <1>1, <1>2, <1>5, <1>3, KeptQuiet DEF Queued
<1> QED BY <1>4, <1>5

(* A connection leaves epoll, is closed, registered or watched again. *)
LEMMA KeptClose ==
  ASSUME LoopInv, NEW fd \in Fd, Kept(fd), NEW t \in Thread,
         CloseConn(t) \/ (t = Main /\ Register)
         \/ (t \in Worker /\ (RearmIn(t) \/ RearmOut(t) \/ Reset(t) \/ OnRead(t) \/ OnWrite(t)))
  PROVE  Kept(fd)'
<1>1. /\ UNCHANGED <<events, tasks>>
      /\ pc[t] \in Closing \cup InTask \cup {"register"}
      /\ \A s \in Thread \ {t} : job'[s] = job[s] /\ pc'[s] = pc[s]
  BY DEF CloseConn, Del, CheckClosed, SetClosed, CountDown, CloseFd, Return, Register,
         RearmIn, RearmOut, Rearm, Reset, OnRead, OnWrite, LoopInv, TypeOK, batch,
         Closing, InTask
<1>2. job[t].fd \in Fd
  <2>1. CASE pc[t] \in InTask
    BY <2>1, PlaceFacts, JobFacts DEF InTask
  <2>2. CASE pc[t] \in Closing \cup {"register"}
    BY <2>2, PlaceFacts, JobFacts
  <2> QED BY <1>1, <2>1, <2>2
<1>3. \A f \in Fd \ {job[t].fd} : UNCHANGED <<conn[f], interest[f]>>
  BY <1>2 DEF CloseConn, Del, CheckClosed, SetClosed, CountDown, CloseFd, Register,
         RearmIn, RearmOut, Rearm, Reset, OnRead, OnWrite, LoopInv, TypeOK
<1>4. CASE job[t].fd # fd
  BY <1>1, <1>3, <1>4, KeptOther
<1>5. CASE job[t].fd = fd /\ Del(t)
  <2>1. interest'[fd] = "none" /\ job'[t] = job[t] /\ pc'[t] = "check"
    BY <1>5 DEF Del, LoopInv, TypeOK
  <2> QED BY <1>5, <2>1 DEF Kept, Passes, Passing, Closing
<1>6. CASE job[t].fd = fd /\ CheckClosed(t) /\ is_closed[fd]
  <2>1. UNCHANGED <<conn, interest>> /\ pc[t] = "check"
    BY <1>6 DEF CheckClosed
  <2>2. Held(fd) => Held(fd)'
    BY <1>1, <2>1 DEF Held, Reported, Queued, InTask
  <2>3. conn[fd] # 0 => \E s \in Thread \ {t} : job[s].fd = fd /\ pc[s] \in Passing
    BY <1>6, <2>1 DEF LoopInv, OpenExplained, BeingClosed, Passing, Closing, Thread
  <2>4. conn[fd] # 0 => Passes(fd)'
    BY <1>1, <2>3 DEF Passes
  <2> QED BY <2>1, <2>2, <2>4 DEF Kept
<1>7. CASE job[t].fd = fd /\ CloseFd(t)
  <2>1. conn'[fd] = 0 /\ interest'[fd] = "none"
    BY <1>7 DEF CloseFd, LoopInv, TypeOK
  <2> QED BY <2>1 DEF Kept
<1>8. CASE job[t].fd = fd /\ t = Main /\ Register
  <2>1. interest'[fd] = "in"
    BY <1>8, <1>2 DEF Register, LoopInv, TypeOK, MainJob
  <2> QED BY <2>1 DEF Kept
<1>9. CASE job[t].fd = fd /\ (RearmIn(t) \/ RearmOut(t))
  <2>1. /\ conn' = conn /\ pc[t] \in {"rearm_in", "rearm_out"}
        /\ interest'[fd] # "off" /\ (interest'[fd] = "none" => interest[fd] = "none")
    BY <1>9 DEF RearmIn, RearmOut, Rearm, LoopInv, TypeOK
  <2>2. Passes(fd) => Passes(fd)'
    BY <1>1, <2>1 DEF Passes, Passing, Closing
  <2> QED BY <2>1, <2>2 DEF Kept
<1>10. CASE /\ job[t].fd = fd
            /\ \/ CheckClosed(t) /\ ~is_closed[fd]
               \/ SetClosed(t) \/ CountDown(t) \/ Reset(t) \/ OnRead(t) \/ OnWrite(t)
  <2>1. UNCHANGED <<conn, interest, job>>
    BY <1>10 DEF CheckClosed, SetClosed, CountDown, Reset, OnRead, OnWrite
  <2>2. \/ pc[t] \in Passing /\ pc'[t] \in Passing
        \/ pc[t] \in InTask /\ pc'[t] \in InTask \cup {"del"}
    BY <1>10 DEF CheckClosed, SetClosed, CountDown, Reset, OnRead, OnWrite, LoopInv,
                 TypeOK, Passing, Closing, InTask
  <2>3. \A s \in Thread : Stays(s)
    BY <1>1, <2>1, <2>2 DEF Stays, InTask, Passing, Closing
  <2> QED BY <1>1, <2>1, <2>3, KeptQuiet DEF Reported, Queued
<1> QED BY <1>4, <1>5, <1>6, <1>7, <1>8, <1>9, <1>10 DEF CloseConn

LEMMA KeptTake ==
  ASSUME LoopInv, NEW fd \in Fd, Kept(fd), NEW w \in Worker, Take(w)
  PROVE  Kept(fd)'
<1>1. w \in Thread
  BY DEF Thread
<1>2. tasks \in Seq(Tasks) /\ tasks # <<>> /\ tasks' = Tail(tasks)
  BY DEF Take, LoopInv, TypeOK
<1>3. PICK j \in Tasks : j = Head(tasks)
  BY <1>2, TakeTask
<1>4. /\ Len(tasks) \in Nat /\ j = tasks[1] /\ Len(tasks') = Len(tasks) - 1
      /\ \A i \in 1 .. Len(tasks') : tasks'[i] = tasks[i + 1]
  BY <1>2, <1>3, TakeTask
<1>5. /\ UNCHANGED <<conn, interest, events>>
      /\ pc[w] = "idle" /\ job'[w] = j /\ pc'[w] \in InTask
      /\ \A s \in Thread \ {w} : job'[s] = job[s] /\ pc'[s] = pc[s]
  <2>1. j.kind \in InTask
    BY DEF Tasks, InTask
  <2> QED BY <1>1, <1>3, <2>1 DEF Take, LoopInv, TypeOK, batch
<1>6. \A s \in Thread : pc[s] # "idle" => Stays(s)
  BY <1>5 DEF Stays
<1>7. Queued(fd) => Queued(fd)' \/ j.fd = fd
  <2>1. ASSUME NEW i \in 1 .. Len(tasks), tasks[i].fd = fd, i # 1
        PROVE  i - 1 \in 1 .. Len(tasks') /\ tasks'[i - 1].fd = fd
    <3>1. i - 1 \in 1 .. Len(tasks') /\ (i - 1) + 1 = i
      BY <1>4, <2>1
    <3> QED BY <1>4, <2>1, <3>1
  <2> QED BY <1>4, <2>1 DEF Queued
<1>8. Held(fd) => Held(fd)'
  BY <1>1, <1>5, <1>6, <1>7 DEF Held, Reported, InTask, Stays
<1>9. Passes(fd) => Passes(fd)'
  BY <1>5, <1>6 DEF Passes, Passing, Closing, Stays
<1> QED BY <1>5, <1>8, <1>9 DEF Kept

(* An open connection is watched, or something that will watch it again or *)
(* close it holds it; timers that close connections under their tasks do   *)
(* not change that.                                                        *)
THEOREM NoneLost == Spec => []NotLost
<1>1. Init => LostInv
  BY DEF Init, LostInv, Kept
<1>2. LoopInv /\ LostInv /\ [Next]_vars => LostInv'
  <2> SUFFICES ASSUME LoopInv, [Next]_vars, NEW fd \in Fd, Kept(fd)
               PROVE  Kept(fd)'
    BY DEF LostInv
  <2>1. CASE UNCHANGED vars
    BY <2>1 DEF vars, Kept, Held, Passes, Reported, Queued
  <2>2. CASE \/ Arrive \/ TickDone \/ BatchDone \/ DealListen \/ AcceptFails
             \/ Refuse \/ InitConn
             \/ \E f \in Fd : DealRead(f) \/ DealWrite(f)
    BY <2>2, KeptMain
  <2>3. CASE \E f \in Fd : Expire(f) \/ DealHup(f) \/ Accept(f)
    BY <2>3, KeptStarts
  <2>4. CASE Wait
    BY <2>4, KeptWait
  <2>5. CASE Register \/ \E t \in Thread : CloseConn(t)
    BY <2>5, KeptClose DEF Thread
  <2>6. CASE \E w \in Worker : WorkerStep(w)
    BY <2>6, KeptTake, KeptClose DEF WorkerStep, Thread
  <2> QED BY <2>1, <2>2, <2>3, <2>4, <2>5, <2>6 DEF Next, MainLoop, Thread
<1>3. LoopInv /\ LostInv => NotLost
  <2> SUFFICES ASSUME LoopInv, NEW fd \in Fd, Kept(fd), conn[fd] # 0
               PROVE  Armed(fd) \/ Reported(fd) \/ Queued(fd) \/ Handled(fd)
    BY DEF LostInv, NotLost
  <2>1. interest[fd] \in {"none", "off", "in", "out"}
    BY DEF LoopInv, TypeOK
  <2> QED BY <2>1 DEF Kept, Held, Passes, Handled, Armed
<1> QED BY <1>1, <1>2, <1>3, LoopInvariant, PTL DEF Spec
-----------------------------------------------------------------------------
(* The number of users.                                                    *)

Open == {fd \in Fd : conn[fd] # 0}
Uncounted == {t \in Thread : pc[t] \in {"init", "close"}}

LEMMA FiniteOpen == IsFiniteSet(Open) /\ IsFiniteSet(Uncounted)
<1>1. IsFiniteSet(Fd) /\ IsFiniteSet(Worker)
  BY ServerAssumption DEF ServerAssumption
<1>2. IsFiniteSet(Thread)
  BY <1>1, FS_AddElement DEF Thread
<1>3. Open \in SUBSET Fd /\ Uncounted \in SUBSET Thread
  BY DEF Open, Uncounted
<1> QED BY <1>1, <1>2, <1>3, FS_Subset

(* The connection that is being accepted was admitted below MAX_FD, and    *)
(* only the accepting thread counts up.  Every effective close(fd_) comes  *)
(* after a count-down of its own; there may be more of those.              *)
CountInv ==
  /\ Counted
  /\ pc[Main] = "init" => user_cnt < MaxUsers

(* The numbers that Counted is about. *)
LEMMA CountFacts ==
  ASSUME LoopInv, CountInv
  PROVE  /\ user_cnt \in Int /\ MaxUsers \in Nat /\ user_cnt <= MaxUsers
         /\ Cardinality(Open) \in Nat /\ Cardinality(Uncounted) \in Nat
         /\ user_cnt <= Cardinality(Open) - Cardinality(Uncounted)
         /\ outlived = {} => user_cnt = Cardinality(Open) - Cardinality(Uncounted)
BY FiniteOpen, FS_CardinalityType, ServerAssumption
   DEF LoopInv, TypeOK, CountInv, Counted, Users, Open, Uncounted, ServerAssumption

(* What the step has to keep. *)
LEMMA CountKept ==
  ASSUME user_cnt' <= MaxUsers,
         user_cnt' <= Cardinality(Open') - Cardinality(Uncounted'),
         outlived' = {} => user_cnt' = Cardinality(Open') - Cardinality(Uncounted'),
         pc'[Main] = "init" => user_cnt' < MaxUsers
  PROVE  CountInv'
BY DEF CountInv, Counted, Users, Open, Uncounted

(* A step that opens, closes and counts nothing. *)
LEMMA CountQuiet ==
  ASSUME CountInv, conn' = conn, user_cnt' = user_cnt, outlived \subseteq outlived',
         \A t \in Thread : pc'[t] \in {"init", "close"} <=> pc[t] \in {"init", "close"},
         pc'[Main] = "init" => pc[Main] = "init"
  PROVE  CountInv'
<1>1. Open' = Open /\ Uncounted' = Uncounted
  BY DEF Open, Uncounted
<1> QED BY <1>1 DEF CountInv, Counted, Users, Open, Uncounted

LEMMA CountAccept ==
  ASSUME LoopInv, CountInv, NEW fd \in Fd, Accept(fd)
  PROVE  CountInv'
<1>1. /\ pc[Main] = "accept" /\ conn[fd] = 0 /\ user_cnt < MaxUsers
      /\ user_cnt' = user_cnt /\ outlived' = outlived /\ Main \in Thread
  BY DEF Accept, FreeFd, Thread, history
<1>2. /\ pc'[Main] = "init" /\ \A s \in Thread \ {Main} : pc'[s] = pc[s]
      /\ conn'[fd] = arrived - backlog + 1 /\ arrived - backlog + 1 # 0
      /\ \A f \in Fd \ {fd} : conn'[f] = conn[f]
  BY <1>1 DEF Accept, LoopInv, TypeOK
<1>3. Open' = Open \cup {fd} /\ fd \notin Open
  BY <1>1, <1>2 DEF Open
<1>4. Uncounted' = Uncounted \cup {Main} /\ Main \notin Uncounted
  BY <1>1, <1>2 DEF Uncounted
<1>5. Cardinality(Open') = Cardinality(Open) + 1
  BY <1>3, FiniteOpen, FS_AddElement
<1>6. Cardinality(Uncounted') = Cardinality(Uncounted) + 1
  BY <1>4, FiniteOpen, FS_AddElement
<1>7. /\ pc'[Main] = "init" => user_cnt' < MaxUsers
      /\ user_cnt' <= Cardinality(Open') - Cardinality(Uncounted')
      /\ outlived' = {} => user_cnt' = Cardinality(Open') - Cardinality(Uncounted')
  BY <1>1, <1>5, <1>6, CountFacts
<1> QED BY <1>1, <1>7, CountFacts, CountKept

LEMMA CountInit ==
  ASSUME LoopInv, CountInv, InitConn
  PROVE  CountInv'
<1>1. /\ pc[Main] = "init" /\ user_cnt < MaxUsers /\ conn' = conn
      /\ user_cnt' = user_cnt + 1 /\ outlived' = outlived /\ Main \in Thread
  BY DEF InitConn, Thread, CountInv, history
<1>2. pc'[Main] = "register" /\ \A s \in Thread \ {Main} : pc'[s] = pc[s]
  BY <1>1 DEF InitConn, LoopInv, TypeOK
<1>3. Open' = Open
  BY <1>1 DEF Open
<1>4. Uncounted' = Uncounted \ {Main} /\ Main \in Uncounted
  BY <1>1, <1>2 DEF Uncounted
<1>5. Cardinality(Uncounted') = Cardinality(Uncounted) - 1
  BY <1>4, FiniteOpen, FS_RemoveElement
<1>6. /\ user_cnt' <= MaxUsers
      /\ user_cnt' <= Cardinality(Open') - Cardinality(Uncounted')
      /\ outlived' = {} => user_cnt' = Cardinality(Open') - Cardinality(Uncounted')
  BY <1>1, <1>3, <1>5, CountFacts
<1> QED BY <1>2, <1>6, CountKept

LEMMA CountCloses ==
  ASSUME LoopInv, HandlerInv, CountInv, NEW t \in Thread, CountDown(t) \/ CloseFd(t)
  PROVE  CountInv'
<1>1. pc[Main] = "init" => user_cnt < MaxUsers
  BY DEF CountInv
<1>2. /\ pc'[t] \notin {"init"} /\ \A s \in Thread \ {t} : pc'[s] = pc[s]
      /\ outlived' = outlived
  BY DEF CountDown, CloseFd, Return, LoopInv, TypeOK, history
<1>3. pc'[Main] = "init" => pc[Main] = "init"
  BY <1>2 DEF Thread
<1>4. CASE CountDown(t)
  <2>1. pc[t] = "count" /\ pc'[t] = "close" /\ user_cnt' = user_cnt - 1 /\ conn' = conn
    BY <1>4 DEF CountDown, LoopInv, TypeOK
  <2>2. Open' = Open
    BY <2>1 DEF Open
  <2>3. Uncounted' = Uncounted \cup {t} /\ t \notin Uncounted
    BY <1>2, <2>1 DEF Uncounted
  <2>4. Cardinality(Uncounted') = Cardinality(Uncounted) + 1
    BY <2>3, FiniteOpen, FS_AddElement
  <2>5. /\ user_cnt' <= MaxUsers /\ (pc'[Main] = "init" => user_cnt' < MaxUsers)
        /\ user_cnt' <= Cardinality(Open') - Cardinality(Uncounted')
        /\ outlived' = {} => user_cnt' = Cardinality(Open') - Cardinality(Uncounted')
    BY <1>1, <1>2, <1>3, <2>1, <2>2, <2>4, CountFacts
  <2> QED BY <2>5, CountKept
<1>5. CASE CloseFd(t)
  <2> DEFINE fd == job[t].fd
  <2>1. pc[t] = "close" /\ user_cnt' = user_cnt /\ fd \in Fd
    BY <1>5, PlaceFacts, JobFacts DEF CloseFd, Closing
  <2>2. conn'[fd] = 0 /\ \A f \in Fd \ {fd} : conn'[f] = conn[f]
    BY <1>5, <2>1 DEF CloseFd, LoopInv, TypeOK
  <2>3. pc'[t] \notin {"init", "close"}
    BY <1>5 DEF CloseFd, Return, LoopInv, TypeOK
  <2>4. Uncounted' = Uncounted \ {t} /\ t \in Uncounted
    BY <1>2, <2>1, <2>3 DEF Uncounted
  <2>5. Cardinality(Uncounted') = Cardinality(Uncounted) - 1
    BY <2>4, FiniteOpen, FS_RemoveElement
  <2>6. /\ Cardinality(Open') = Cardinality(Open) - 1
        \/ (conn[fd] = 0 /\ Cardinality(Open') = Cardinality(Open))
    <3>1. CASE conn[fd] # 0
      <4>1. Open' = Open \ {fd} /\ fd \in Open
        BY <2>1, <2>2, <3>1 DEF Open
      <4> QED BY <4>1, FiniteOpen, FS_RemoveElement
    <3>2. CASE conn[fd] = 0
      <4>1. Open' = Open
        BY <2>2, <3>2 DEF Open
      <4> QED BY <3>2, <4>1
    <3> QED BY <3>1, <3>2
  (* A connection that nothing has outlived is open when it is closed. *)
  <2>7. outlived = {} => conn[fd] # 0
    BY <2>1 DEF HandlerInv, InTime, Safe, RealConn, Owns
  <2>8. /\ user_cnt' <= MaxUsers /\ (pc'[Main] = "init" => user_cnt' < MaxUsers)
        /\ user_cnt' <= Cardinality(Open') - Cardinality(Uncounted')
        /\ outlived' = {} => user_cnt' = Cardinality(Open') - Cardinality(Uncounted')
    BY <1>1, <1>2, <1>3, <2>1, <2>5, <2>6, <2>7, CountFacts
  <2> QED BY <2>8, CountKept
<1> QED BY <1>4, <1>5

LEMMA CountNext ==
  ASSUME LoopInv, HandlerInv, CountInv, [Next]_vars
  PROVE  CountInv'
<1> USE DEF LoopInv
<1>a. Main \in Thread /\ Main \notin Worker
  BY ServerAssumption DEF ServerAssumption, Thread
<1>b. outlived \subseteq outlived'
  BY OutlivedGrows
<1>1. CASE \/ Arrive \/ TickDone \/ BatchDone \/ DealListen \/ AcceptFails
           \/ Refuse \/ Wait \/ Register
           \/ \E fd \in Fd :
                Expire(fd) \/ DealHup(fd) \/ DealRead(fd) \/ DealWrite(fd)
  <2>1. conn' = conn /\ user_cnt' = user_cnt
    BY <1>1 DEF Arrive, TickDone, BatchDone, DealListen, AcceptFails, Refuse,
                Wait, Register, Expire, DealHup, DealRead, DealWrite, DealIO
  <2>2. /\ \A t \in Thread : pc'[t] \in {"init", "close"} <=> pc[t] \in {"init", "close"}
        /\ pc'[Main] = "init" => pc[Main] = "init"
    BY <1>1, <1>a DEF Arrive, TickDone, BatchDone, DealListen, AcceptFails, Refuse,
                Wait, Register, Expire, DealHup, DealRead, DealWrite, DealIO, TypeOK
  <2> QED BY <1>b, <2>1, <2>2, CountQuiet
<1>2. ASSUME NEW t \in Thread, Del(t) \/ CheckClosed(t) \/ SetClosed(t)
      PROVE  CountInv'
  <2>1. conn' = conn /\ user_cnt' = user_cnt
    BY <1>2 DEF Del, CheckClosed, SetClosed
  <2>2. /\ \A s \in Thread \ {t} : pc'[s] = pc[s]
        /\ pc[t] \notin {"init", "close"} /\ pc'[t] \notin {"init", "close"}
    BY <1>2 DEF Del, CheckClosed, SetClosed, Return, TypeOK
  <2> QED BY <1>a, <1>b, <2>1, <2>2, CountQuiet
<1>3. ASSUME NEW w \in Worker,
             \/ Take(w) \/ OnRead(w) \/ OnWrite(w) \/ Reset(w)
             \/ RearmIn(w) \/ RearmOut(w)
      PROVE  CountInv'
  <2>1. conn' = conn /\ user_cnt' = user_cnt /\ w \in Thread
    BY <1>3 DEF Take, OnRead, OnWrite, Reset, RearmIn, RearmOut, Rearm, Thread
  <2>2. /\ \A s \in Thread \ {w} : pc'[s] = pc[s]
        /\ pc[w] \notin {"init", "close"} /\ pc'[w] \notin {"init", "close"}
    <3>1. CASE Take(w)
      <4>1. Head(tasks) \in Tasks
        BY <3>1, TakeTask DEF Take, TypeOK
      <4>2. Head(tasks).kind \in {"read", "write"}
        BY <4>1 DEF Tasks
      <4> QED BY <2>1, <3>1, <4>2 DEF Take, TypeOK
    <3> QED BY <1>3, <2>1, <3>1 DEF OnRead, OnWrite, Reset, RearmIn, RearmOut, Rearm, TypeOK
  <2> QED BY <1>a, <1>b, <2>1, <2>2, CountQuiet
<1>4. CASE UNCHANGED vars
  BY <1>4, CountQuiet DEF vars
<1> QED BY <1>1, <1>2, <1>3, <1>4, <1>a, CountAccept, CountInit, CountCloses
        DEF Next, MainLoop, WorkerStep, CloseConn, Thread

(* user_cnt never exceeds MAX_FD or the number of users there are, and is  *)
(* that number as long as no timer has closed a connection under a task.   *)
THEOREM UsersCounted == Spec => []Counted
<1>1. Init => CountInv
  <2> SUFFICES ASSUME Init PROVE CountInv
    OBVIOUS
  <2>1. Open = {} /\ Uncounted = {}
    BY DEF Init, Open, Uncounted
  <2>2. user_cnt = 0 /\ pc[Main] # "init" /\ MaxUsers \in Nat
    BY ServerAssumption DEF ServerAssumption, Init, Thread
  <2> QED BY <2>1, <2>2, FS_EmptySet DEF CountInv, Counted, Users, Open, Uncounted
<1>2. LoopInv /\ HandlerInv /\ CountInv /\ [Next]_vars => CountInv'
  BY CountNext
<1>3. CountInv => Counted
  BY DEF CountInv
<1> QED BY <1>1, <1>2, <1>3, LoopInvariant, HandlerInvariant, PTL DEF Spec
=============================================================================

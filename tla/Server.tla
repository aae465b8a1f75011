------------------------------- MODULE Server -------------------------------
(***************************************************************************)
(* The reactor of code/server/server.cpp: the event loop in the main       *)
(* thread, the on_read_ and on_write_ tasks it hands to the thread pool,   *)
(* the timers that close idle connections, and the kernel's side of it:    *)
(* the listen backlog, the descriptor table and the epoll registrations.   *)
(*                                                                         *)
(* An action is a stretch of code in which a thread touches shared state   *)
(* once.  close_conn_ (server.cpp:121 and http_conn.cpp:34), which both    *)
(* the main thread and the workers call, is therefore several actions.     *)
(* The timers are the set timer_ is a map of, module TimerHeap says how    *)
(* the heap keeps it; the pool is the queue that module TaskPool promises. *)
(* What a request says is not modelled: a task may end in every way the    *)
(* code has for it.                                                        *)
(***************************************************************************)
EXTENDS Integers, Sequences, FiniteSets

CONSTANTS
  Fd,           \* the descriptors the process may open for connections
  Worker,       \* the threads of the pool
  Main,         \* the thread in server::start
  None,         \* the fd of a thread that has no job
  MaxConn,      \* bound on the connections that clients open
  MaxUsers,     \* server::MAX_FD
  ListenET,     \* listen_event_ has EPOLLET
  UseTimer      \* timeout_ms_ > 0

ASSUME ServerAssumption ==
  /\ IsFiniteSet(Fd) /\ IsFiniteSet(Worker)
  /\ Main \notin Worker
  /\ None \notin Fd
  /\ MaxConn \in Nat /\ MaxUsers \in Nat
  /\ {ListenET, UseTimer} \subseteq BOOLEAN

Thread == Worker \cup {Main}

VARIABLES
  arrived,      \* number of connections clients have opened
  backlog,      \* those of them the kernel still queues for accept
  listen_edge,  \* edge mode: an arrival was not reported yet
  conn,         \* kernel: the connection behind each descriptor, 0 if closed
  interest,     \* epoll: "none" unregistered, "off" disarmed by EPOLLONESHOT
  is_closed,    \* is_closed_ of the http_conn in users_ of each descriptor
  user_cnt,     \* http_conn::user_cnt
  timer,        \* the ids in timer_
  events,       \* the part of the epoll_wait result not yet dispatched
  listen_event, \* the listening socket is in that part
  tasks,        \* the queue of thread_pool_
  pc,           \* where each thread is
  job,          \* what each thread works on
  abandoned,    \* history: deal_listen_ left its loop with a backlog
  outlived      \* history: the descriptors that a timer has closed while a
                \* task for them was queued or running

kernel == <<arrived, backlog, listen_edge>>
batch == <<events, listen_event>>
vars == <<arrived, backlog, listen_edge, conn, interest, is_closed,
          user_cnt, timer, events, listen_event, tasks, pc, job, abandoned,
          outlived>>
history == <<abandoned, outlived>>

(* A job names the connection it was made for; the code has only the fd.   *)
Job(kind, fd) == [kind |-> kind, fd |-> fd, conn |-> conn[fd]]
NoJob == [kind |-> "none", fd |-> None, conn |-> 0]

(* The threads inside server::close_conn_ or http_conn::close_conn. *)
Closing == {"del", "check", "flag", "count", "close"}

Init ==
  /\ arrived = 0 /\ backlog = 0 /\ listen_edge = FALSE
  /\ conn = [fd \in Fd |-> 0]
  /\ interest = [fd \in Fd |-> "none"]
  /\ is_closed = [fd \in Fd |-> TRUE]
  /\ user_cnt = 0
  /\ timer = {}
  /\ events = [fd \in Fd |-> "none"] /\ listen_event = FALSE
  /\ tasks = <<>>
  /\ pc = [t \in Thread |-> IF t # Main THEN "idle"
                          ELSE IF UseTimer THEN "tick" ELSE "wait"]
  /\ job = [t \in Thread |-> NoJob]
  /\ abandoned = FALSE /\ outlived = {}
-----------------------------------------------------------------------------
(* A client connects: the kernel queues the connection. *)
Arrive ==
  /\ arrived < MaxConn
  /\ arrived' = arrived + 1
  /\ backlog' = backlog + 1
  /\ listen_edge' = TRUE
  /\ UNCHANGED <<conn, interest, is_closed, user_cnt, timer, events,
                 listen_event, tasks, pc, job, history>>
-----------------------------------------------------------------------------
(* close_conn_, by any thread that calls it. *)

(* epoller_->del_fd(client->get_fd()) *)
Del(t) ==
  /\ pc[t] = "del"
  /\ interest' = [interest EXCEPT ![job[t].fd] = "none"]
  /\ pc' = [pc EXCEPT ![t] = "check"]
  /\ UNCHANGED <<kernel, conn, is_closed, user_cnt, timer, batch, tasks, job,
                 history>>

(* The end of the call: a worker is done with its task, the main thread    *)
(* goes on with the timers, after pop(), or with the next event.           *)
Return(t) ==
  /\ job' = [job EXCEPT ![t] = NoJob]
  /\ pc' = [pc EXCEPT ![t] = IF t # Main THEN "idle"
                             ELSE IF job[t].kind = "timeout" THEN "tick"
                             ELSE "dispatch"]
  /\ timer' = IF job[t].kind = "timeout" THEN timer \ {job[t].fd} ELSE timer

(* if(is_closed_ == false) *)
CheckClosed(t) ==
  /\ pc[t] = "check"
  /\ IF is_closed[job[t].fd]
       THEN Return(t)
       ELSE pc' = [pc EXCEPT ![t] = "flag"] /\ UNCHANGED <<job, timer>>
  /\ UNCHANGED <<kernel, conn, interest, is_closed, user_cnt, batch, tasks,
                 history>>

(* is_closed_ = true *)
SetClosed(t) ==
  /\ pc[t] = "flag"
  /\ is_closed' = [is_closed EXCEPT ![job[t].fd] = TRUE]
  /\ pc' = [pc EXCEPT ![t] = "count"]
  /\ UNCHANGED <<kernel, conn, interest, user_cnt, timer, batch, tasks, job,
                 history>>

(* user_cnt-- *)
CountDown(t) ==
  /\ pc[t] = "count"
  /\ user_cnt' = user_cnt - 1
  /\ pc' = [pc EXCEPT ![t] = "close"]
  /\ UNCHANGED <<kernel, conn, interest, is_closed, timer, batch, tasks, job,
                 history>>

(* close(fd_): the descriptor may be handed out again, and the kernel      *)
(* drops its epoll registration.                                           *)
CloseFd(t) ==
  /\ pc[t] = "close"
  /\ conn' = [conn EXCEPT ![job[t].fd] = 0]
  /\ interest' = [interest EXCEPT ![job[t].fd] = "none"]
  /\ Return(t)
  /\ UNCHANGED <<kernel, is_closed, user_cnt, batch, tasks, history>>

CloseConn(t) ==
  Del(t) \/ CheckClosed(t) \/ SetClosed(t) \/ CountDown(t) \/ CloseFd(t)
-----------------------------------------------------------------------------
(* The main thread, server::start. *)

Queued(fd) == \E i \in 1 .. Len(tasks) : tasks[i].fd = fd
Handled(fd) == \E t \in Thread : job[t].fd = fd

(* timer_heap::tick calls the callback of an expired timer, whatever else  *)
(* is going on.  A dispatch has moved the timer to timeout_ms_ later; a    *)
(* task that is not done by then is outlived.                              *)
Expire(fd) ==
  /\ pc[Main] = "tick"
  /\ fd \in timer
  /\ job' = [job EXCEPT ![Main] = Job("timeout", fd)]
  /\ pc' = [pc EXCEPT ![Main] = "del"]
  /\ outlived' = IF Queued(fd) \/ Handled(fd) THEN outlived \cup {fd} ELSE outlived
  /\ UNCHANGED <<kernel, conn, interest, is_closed, user_cnt, timer, batch,
                 tasks, abandoned>>

(* No expired timer is left, or there are none. *)
TickDone ==
  /\ pc[Main] = "tick"
  /\ pc' = [pc EXCEPT ![Main] = "wait"]
  /\ UNCHANGED <<kernel, conn, interest, is_closed, user_cnt, timer, batch,
                 tasks, job, history>>

ListenReady == backlog > 0 /\ (ListenET => listen_edge)

(* What epoll_wait may report of a registered descriptor. *)
Reports(fd) == IF interest[fd] \in {"in", "out"} THEN {"hup", interest[fd]} ELSE {}

(* Faulty variant: connections are registered without EPOLLONESHOT. *)
WaitNoOneShot ==
  /\ pc[Main] = "wait"
  /\ \E ready \in SUBSET {fd \in Fd : Reports(fd) # {}} :
       /\ ready # {} \/ ListenReady \/ timer # {}
       /\ events' \in {e \in [Fd -> {"none", "hup", "in", "out"}] :
            \A fd \in Fd : IF fd \in ready THEN e[fd] \in Reports(fd)
                                           ELSE e[fd] = "none"}
  /\ listen_event' = ListenReady
  /\ listen_edge' = (listen_edge /\ ~ListenReady)
  /\ pc' = [pc EXCEPT ![Main] = "dispatch"]
  /\ UNCHANGED <<arrived, backlog, conn, interest, is_closed, user_cnt, timer,
                 tasks, job, history>>

(* epoll_wait returns what is ready, and EPOLLONESHOT disarms what it      *)
(* reports.  It returns nothing only when a timer limits the wait.         *)
Wait ==
  /\ pc[Main] = "wait"
  /\ \E ready \in SUBSET {fd \in Fd : Reports(fd) # {}} :
       /\ ready # {} \/ ListenReady \/ timer # {}
       /\ events' \in {e \in [Fd -> {"none", "hup", "in", "out"}] :
            \A fd \in Fd : IF fd \in ready THEN e[fd] \in Reports(fd)
                                           ELSE e[fd] = "none"}
       /\ interest' = [fd \in Fd |-> IF fd \in ready THEN "off" ELSE interest[fd]]
  /\ listen_event' = ListenReady
  /\ listen_edge' = (listen_edge /\ ~ListenReady)
  /\ pc' = [pc EXCEPT ![Main] = "dispatch"]
  /\ UNCHANGED <<arrived, backlog, conn, is_closed, user_cnt, timer, tasks,
                 job, history>>

(* EPOLLRDHUP, EPOLLHUP, EPOLLERR: close_conn_ in the main thread. *)
DealHup(fd) ==
  /\ pc[Main] = "dispatch"
  /\ events[fd] = "hup"
  /\ events' = [events EXCEPT ![fd] = "none"]
  /\ job' = [job EXCEPT ![Main] = Job("hup", fd)]
  /\ pc' = [pc EXCEPT ![Main] = "del"]
  /\ UNCHANGED <<kernel, conn, interest, is_closed, user_cnt, timer,
                 listen_event, tasks, history>>

(* deal_read_ and deal_write_: extent_time_, then add_task. *)
DealIO(fd, event, kind) ==
  /\ pc[Main] = "dispatch"
  /\ events[fd] = event
  /\ events' = [events EXCEPT ![fd] = "none"]
  /\ tasks' = Append(tasks, Job(kind, fd))
  /\ UNCHANGED <<kernel, conn, interest, is_closed, user_cnt, timer,
                 listen_event, pc, job, history>>

DealRead(fd) == DealIO(fd, "in", "read")
DealWrite(fd) == DealIO(fd, "out", "write")

DealListen ==
  /\ pc[Main] = "dispatch"
  /\ listen_event
  /\ listen_event' = FALSE
  /\ abandoned' = FALSE
  /\ pc' = [pc EXCEPT ![Main] = "accept"]
  /\ UNCHANGED <<kernel, conn, interest, is_closed, user_cnt, timer, events,
                 tasks, job, outlived>>

(* Every event of the batch is handled: the next turn of the loop. *)
BatchDone ==
  /\ pc[Main] = "dispatch"
  /\ ~listen_event /\ \A fd \in Fd : events[fd] = "none"
  /\ pc' = [pc EXCEPT ![Main] = IF UseTimer THEN "tick" ELSE "wait"]
  /\ UNCHANGED <<kernel, conn, interest, is_closed, user_cnt, timer, batch,
                 tasks, job, history>>
-----------------------------------------------------------------------------
(* deal_listen_, the loop around accept. *)

FreeFd == {fd \in Fd : conn[fd] = 0}

(* accept fails, as the backlog is empty or no descriptor is free: break. *)
AcceptFails ==
  /\ pc[Main] = "accept"
  /\ backlog = 0 \/ FreeFd = {}
  /\ abandoned' = (backlog > 0)
  /\ pc' = [pc EXCEPT ![Main] = "dispatch"]
  /\ UNCHANGED <<kernel, conn, interest, is_closed, user_cnt, timer, batch,
                 tasks, job, outlived>>

(* Faulty variants: the users are counted before accept is known to have   *)
(* succeeded; and before accept is called at all.                          *)
RefuseUnaccepted ==
  /\ pc[Main] = "accept"
  /\ user_cnt >= MaxUsers
  /\ backlog' = backlog - 1
  /\ abandoned' = (backlog > 1)
  /\ pc' = [pc EXCEPT ![Main] = "dispatch"]
  /\ UNCHANGED <<arrived, listen_edge, conn, interest, is_closed, user_cnt,
                 timer, batch, tasks, job, outlived>>

RefuseLeaves ==
  /\ pc[Main] = "accept"
  /\ backlog > 0 /\ FreeFd # {}
  /\ user_cnt >= MaxUsers
  /\ abandoned' = TRUE
  /\ pc' = [pc EXCEPT ![Main] = "dispatch"]
  /\ UNCHANGED <<kernel, conn, interest, is_closed, user_cnt, timer, batch,
                 tasks, job, outlived>>

(* Too many users: the new descriptor gets "Server busy!", is closed, and  *)
(* deal_listen_ returns.                                                   *)
Refuse ==
  /\ pc[Main] = "accept"
  /\ backlog > 0 /\ FreeFd # {}
  /\ user_cnt >= MaxUsers
  /\ backlog' = backlog - 1
  /\ abandoned' = (backlog > 1)
  /\ pc' = [pc EXCEPT ![Main] = "dispatch"]
  /\ UNCHANGED <<arrived, listen_edge, conn, interest, is_closed, user_cnt,
                 timer, batch, tasks, job, outlived>>

(* Faulty variant: user_cnt > MAX_FD instead of >=. *)
AcceptOneMore(fd) ==
  /\ pc[Main] = "accept"
  /\ backlog > 0 /\ fd \in FreeFd
  /\ user_cnt <= MaxUsers
  /\ conn' = [conn EXCEPT ![fd] = arrived - backlog + 1]
  /\ backlog' = backlog - 1
  /\ job' = [job EXCEPT ![Main] =
              [kind |-> "accept", fd |-> fd, conn |-> arrived - backlog + 1]]
  /\ pc' = [pc EXCEPT ![Main] = "init"]
  /\ UNCHANGED <<arrived, listen_edge, interest, is_closed, user_cnt, timer,
                 batch, tasks, history>>

Accept(fd) ==
  /\ pc[Main] = "accept"
  /\ backlog > 0 /\ fd \in FreeFd
  /\ user_cnt < MaxUsers
  /\ conn' = [conn EXCEPT ![fd] = arrived - backlog + 1]
  /\ backlog' = backlog - 1
  /\ job' = [job EXCEPT ![Main] =
              [kind |-> "accept", fd |-> fd, conn |-> arrived - backlog + 1]]
  /\ pc' = [pc EXCEPT ![Main] = "init"]
  /\ UNCHANGED <<arrived, listen_edge, interest, is_closed, user_cnt, timer,
                 batch, tasks, history>>

(* users_[fd].init(fd, addr): user_cnt++, and reset() clears is_closed_.   *)
(* One action, as nobody but this thread reads user_cnt or counts it up.   *)
InitConn ==
  /\ pc[Main] = "init"
  /\ user_cnt' = user_cnt + 1
  /\ is_closed' = [is_closed EXCEPT ![job[Main].fd] = FALSE]
  /\ pc' = [pc EXCEPT ![Main] = "register"]
  /\ UNCHANGED <<kernel, conn, interest, timer, batch, tasks, job, history>>

(* Faulty variants: no add_timer; one accept for each event.               *)
RegisterUntimed ==
  /\ pc[Main] = "register"
  /\ interest' = [interest EXCEPT ![job[Main].fd] = "in"]
  /\ job' = [job EXCEPT ![Main] = NoJob]
  /\ pc' = [pc EXCEPT ![Main] = IF ListenET THEN "accept" ELSE "dispatch"]
  /\ UNCHANGED <<kernel, conn, is_closed, user_cnt, timer, batch, tasks,
                 history>>

RegisterLast ==
  /\ pc[Main] = "register"
  /\ timer' = IF UseTimer THEN timer \cup {job[Main].fd} ELSE timer
  /\ interest' = [interest EXCEPT ![job[Main].fd] = "in"]
  /\ job' = [job EXCEPT ![Main] = NoJob]
  /\ pc' = [pc EXCEPT ![Main] = "dispatch"]
  /\ UNCHANGED <<kernel, conn, is_closed, user_cnt, batch, tasks, history>>

(* add_timer, then add_fd; an edge-triggered listener accepts again.  One  *)
(* action, as only this thread works with the timers.                      *)
Register ==
  /\ pc[Main] = "register"
  /\ timer' = IF UseTimer THEN timer \cup {job[Main].fd} ELSE timer
  /\ interest' = [interest EXCEPT ![job[Main].fd] = "in"]
  /\ job' = [job EXCEPT ![Main] = NoJob]
  /\ pc' = [pc EXCEPT ![Main] = IF ListenET THEN "accept" ELSE "dispatch"]
  /\ UNCHANGED <<kernel, conn, is_closed, user_cnt, batch, tasks, history>>

MainLoop ==
  \/ TickDone \/ DealListen \/ BatchDone
  \/ AcceptFails \/ Refuse \/ InitConn \/ Register \/ CloseConn(Main)
  \/ \E fd \in Fd : Expire(fd) \/ DealHup(fd) \/ DealRead(fd) \/ DealWrite(fd)
                    \/ Accept(fd)
-----------------------------------------------------------------------------
(* The tasks, in the threads of the pool. *)

Take(w) ==
  /\ pc[w] = "idle"
  /\ tasks # <<>>
  /\ job' = [job EXCEPT ![w] = Head(tasks)]
  /\ tasks' = Tail(tasks)
  /\ pc' = [pc EXCEPT ![w] = Head(tasks).kind]
  /\ UNCHANGED <<kernel, conn, interest, is_closed, user_cnt, timer, batch,
                 history>>

(* on_read_: client->read on a closed descriptor fails; otherwise the      *)
(* connection is at its end (close), a response is ready (wait for         *)
(* EPOLLOUT) or the request is not complete (wait for EPOLLIN).            *)
OnRead(w) ==
  /\ pc[w] = "read"
  /\ \E next \in {"del", "rearm_in", "rearm_out"} :
       /\ conn[job[w].fd] = 0 => next = "del"
       /\ pc' = [pc EXCEPT ![w] = next]
  /\ UNCHANGED <<kernel, conn, interest, is_closed, user_cnt, timer, batch,
                 tasks, job, history>>

(* on_write_: everything is sent and the client keeps the connection       *)
(* (reset), the socket is full (wait for EPOLLOUT), or close.              *)
OnWrite(w) ==
  /\ pc[w] = "write"
  /\ \E next \in {"del", "reset", "rearm_out"} :
       /\ conn[job[w].fd] = 0 => next # "rearm_out"
       /\ pc' = [pc EXCEPT ![w] = next]
  /\ UNCHANGED <<kernel, conn, interest, is_closed, user_cnt, timer, batch,
                 tasks, job, history>>

(* Faulty variant: mod_fd comes before reset, another thread may be told   *)
(* of the next event before this one is done.                              *)
ResetRearmed(w) ==
  /\ pc[w] = "reset"
  /\ is_closed' = [is_closed EXCEPT ![job[w].fd] = FALSE]
  /\ interest' = [interest EXCEPT ![job[w].fd] =
                   IF interest[job[w].fd] = "none" THEN "none" ELSE "in"]
  /\ pc' = [pc EXCEPT ![w] = "rearm_in"]
  /\ UNCHANGED <<kernel, conn, user_cnt, timer, batch, tasks, job, history>>

(* client->reset() *)
Reset(w) ==
  /\ pc[w] = "reset"
  /\ is_closed' = [is_closed EXCEPT ![job[w].fd] = FALSE]
  /\ pc' = [pc EXCEPT ![w] = "rearm_in"]
  /\ UNCHANGED <<kernel, conn, interest, user_cnt, timer, batch, tasks, job,
                 history>>

(* epoller_->mod_fd, which fails for a descriptor that is not registered.  *)
(* It is the last access of the task to the connection.                    *)
Rearm(w, at, event) ==
  /\ pc[w] = at
  /\ interest' = [interest EXCEPT ![job[w].fd] =
                   IF interest[job[w].fd] = "none" THEN "none" ELSE event]
  /\ pc' = [pc EXCEPT ![w] = "idle"]
  /\ job' = [job EXCEPT ![w] = NoJob]
  /\ UNCHANGED <<kernel, conn, is_closed, user_cnt, timer, batch, tasks,
                 history>>

(* Faulty variant: an incomplete request is not waited for. *)
RearmForgotten(w) ==
  /\ pc[w] = "rearm_in"
  /\ pc' = [pc EXCEPT ![w] = "idle"]
  /\ job' = [job EXCEPT ![w] = NoJob]
  /\ UNCHANGED <<kernel, conn, interest, is_closed, user_cnt, timer, batch,
                 tasks, history>>

RearmIn(w) == Rearm(w, "rearm_in", "in")
RearmOut(w) == Rearm(w, "rearm_out", "out")

WorkerStep(w) ==
  Take(w) \/ OnRead(w) \/ OnWrite(w) \/ Reset(w) \/ RearmIn(w) \/ RearmOut(w)
  \/ CloseConn(w)
-----------------------------------------------------------------------------
Next == Arrive \/ Wait \/ MainLoop \/ \E w \in Worker : WorkerStep(w)

(* Threads run.  Nothing forces a client to connect or to send, and no     *)
(* return of epoll_wait is assumed but the one for a ready listener.       *)
Fairness ==
  /\ WF_vars(MainLoop)
  /\ WF_vars(Wait /\ ListenReady)
  /\ \A w \in Worker : WF_vars(WorkerStep(w))

Spec == Init /\ [][Next]_vars /\ Fairness
-----------------------------------------------------------------------------
JobKind == {"read", "write", "hup", "timeout", "accept"}
Jobs == [kind : JobKind, fd : Fd, conn : 0 .. MaxConn]
Tasks == [kind : {"read", "write"}, fd : Fd, conn : 0 .. MaxConn]

MainPc == {"tick", "wait", "dispatch", "accept", "init", "register"} \cup Closing
WorkerPc == {"idle", "read", "write", "reset", "rearm_in", "rearm_out"} \cup Closing

TypeOK ==
  /\ arrived \in 0 .. MaxConn /\ backlog \in 0 .. arrived
  /\ listen_edge \in BOOLEAN
  /\ conn \in [Fd -> 0 .. MaxConn]
  /\ interest \in [Fd -> {"none", "off", "in", "out"}]
  /\ is_closed \in [Fd -> BOOLEAN]
  /\ user_cnt \in Int
  /\ timer \in SUBSET Fd
  /\ events \in [Fd -> {"none", "hup", "in", "out"}]
  /\ listen_event \in BOOLEAN
  /\ tasks \in Seq(Tasks)
  /\ pc \in [Thread -> MainPc \cup WorkerPc]
  /\ pc[Main] \in MainPc /\ \A w \in Worker : pc[w] \in WorkerPc
  /\ job \in [Thread -> Jobs \cup {NoJob}]
  /\ abandoned \in BOOLEAN /\ outlived \in SUBSET Fd

Armed(fd) == interest[fd] \in {"in", "out"}
Reported(fd) == events[fd] # "none"

(* The code keeps no timer from firing while a task for its connection is  *)
(* queued or running: then two threads do work on one http_conn, and the   *)
(* second one may close what the descriptor is by then.  A descriptor this *)
(* never happened to is in time, whatever happened to the others; the next *)
(* three properties say that it is not harmed.                             *)
InTime == Fd \ outlived

(* EPOLLONESHOT gives a connection to one place at a time: an event of the *)
(* batch, a task of the queue, or one thread.  The http_conn has no lock,  *)
(* this is what keeps two threads from working on it at once.              *)
OneHandler ==
  \A fd \in InTime :
    /\ Reported(fd) => ~Queued(fd) /\ ~Handled(fd)
    /\ Queued(fd) => ~Handled(fd)
    /\ \A i, j \in 1 .. Len(tasks) : tasks[i].fd = fd /\ tasks[j].fd = fd => i = j
    /\ \A s, t \in Thread : job[s].fd = fd /\ job[t].fd = fd => s = t

(* What a task or a thread does to a descriptor, it does to the connection *)
(* it was started for: the descriptor was not closed and handed out again  *)
(* while the event, the task or the call was on its way.                   *)
OwnConnection ==
  \A fd \in InTime :
    /\ Reported(fd) => conn[fd] # 0
    /\ \A i \in 1 .. Len(tasks) :
         tasks[i].fd = fd => tasks[i].conn # 0 /\ conn[fd] = tasks[i].conn
    /\ \A t \in Thread : job[t].fd = fd => conn[fd] = job[t].conn

(* close(fd_) closes an open descriptor, and no other thread closes the    *)
(* same connection again; user_cnt goes down once for each connection.     *)
ClosedOnce ==
  \A t \in Thread : pc[t] \in {"flag", "count", "close"} /\ job[t].fd \in InTime =>
    /\ conn[job[t].fd] # 0
    /\ \A s \in Thread \ {t} : pc[s] \in {"flag", "count", "close"} =>
         job[s].fd # job[t].fd

(* What user_cnt ought to be: the open connections, less the one being     *)
(* accepted and those that are counted out and not closed yet.             *)
Users == Cardinality({fd \in Fd : conn[fd] # 0})
         - Cardinality({t \in Thread : pc[t] \in {"init", "close"}})

(* user_cnt never exceeds MAX_FD or the users there are: nobody is refused *)
(* on account of a connection that is gone, whatever the timers do.  While *)
(* no task is outlived it is exact, and deal_listen_ admits no connection  *)
(* beyond MAX_FD; two threads that close one connection both count it out. *)
Counted ==
  /\ user_cnt <= MaxUsers
  /\ user_cnt <= Users
  /\ outlived = {} => user_cnt = Users

(* An open connection can always make progress: epoll watches it, or       *)
(* something that will watch it again or close it holds it.                *)
NotLost ==
  \A fd \in Fd : conn[fd] # 0 =>
    Armed(fd) \/ Reported(fd) \/ Queued(fd) \/ Handled(fd)

(* timer_heap::adjust asserts that the id has a timer.                     *)
AdjustFindsTimer ==
  UseTimer => \A fd \in Fd : events[fd] \in {"in", "out"} => fd \in timer

(* A connection that nobody works on has a timer, so that a silent client  *)
(* cannot keep its descriptor for ever.                                    *)
TimerCovers ==
  UseTimer => \A fd \in Fd : conn[fd] # 0 => fd \in timer \/ Handled(fd)

(* With an edge-triggered listener, a connection in the backlog has an     *)
(* arrival still to be reported or deal_listen_ still looping, unless the  *)
(* loop was left early.                                                    *)
EdgeKept ==
  ListenET /\ backlog > 0 =>
    listen_edge \/ listen_event \/ job[Main].kind = "accept"
    \/ pc[Main] = "accept" \/ abandoned

(* A connection that was reported is watched again or closed.              *)
Rearmed == \A fd \in Fd : interest[fd] = "off" ~> interest[fd] # "off"

(* The connection that is first in the backlog while a descriptor is free  *)
(* is accepted, or told that the server is busy, and the others after it;  *)
(* an edge-triggered listener may abandon them.                            *)
Served ==
  \A n \in 1 .. MaxConn :
    arrived - backlog = n - 1 /\ backlog > 0 /\ FreeFd # {}
      ~> arrived - backlog >= n \/ (ListenET /\ abandoned)
=============================================================================

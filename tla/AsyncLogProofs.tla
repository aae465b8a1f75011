--------------------------- MODULE AsyncLogProofs ---------------------------
(***************************************************************************)
(* The two mutexes of the log, and where its lines are, for every number   *)
(* of threads, of lines and every capacity of the queue.                   *)
(***************************************************************************)
EXTENDS AsyncLog, SequenceTheorems, FiniteSetTheorems, TLAPS

Writing == {"full", "push", "puts"}

(* A thread between the start and the end of Log::write holds mtx_.        *)
HoldsLock == \A w \in Writer : pc[w] \in Writing => log_lock = w

(* It has a line, and so has the logger between pop_front and fputs.       *)
HasLine ==
  /\ \A w \in Writer : pc[w] \in Writing => line[w] \in Lines
  /\ logger = "puts" => str \in Lines

IInv == TypeOK /\ HoldsLock /\ HasLine /\ PushNeverWaits

LEMMA InitInv == Init => IInv
<1> SUFFICES ASSUME Init PROVE IInv
  OBVIOUS
<1>1. <<>> \in Seq(Lines) /\ 0 \in 0 .. MaxLines
  BY LogAssumption DEF LogAssumption
<1>2. TypeOK
  BY <1>1 DEF Init, TypeOK
<1>3. HoldsLock /\ HasLine /\ PushNeverWaits
  BY DEF Init, HoldsLock, HasLine, PushNeverWaits, Writing
<1>4. QED
  BY <1>2, <1>3 DEF IInv

(* What lines do to the queue and to the file. *)
LEMMA Appended ==
  ASSUME NEW s \in Seq(Lines), NEW x \in Lines
  PROVE  Append(s, x) \in Seq(Lines)
BY AppendProperties

LEMMA Taken ==
  ASSUME NEW s \in Seq(Lines), s # <<>>
  PROVE  /\ Head(s) \in Lines
         /\ Tail(s) \in Seq(Lines)
         /\ Len(Tail(s)) < Len(s)
<1>1. Len(s) \in Nat /\ Len(Tail(s)) = Len(s) - 1
  BY HeadTailProperties
<1>2. QED
  BY <1>1, HeadTailProperties

LEMMA TypeInv == IInv /\ [Next]_vars => TypeOK'
<1> SUFFICES ASSUME IInv, [Next]_vars PROVE TypeOK'
  OBVIOUS
<1> USE DEF IInv
<1>0. MaxLines \in Nat
  BY LogAssumption DEF LogAssumption
<1>1. ASSUME NEW w \in Writer, Write(w) PROVE TypeOK'
  BY <1>0, <1>1 DEF TypeOK, Write
<1>2. ASSUME NEW w \in Writer, CheckFull(w) PROVE TypeOK'
  BY <1>2 DEF TypeOK, CheckFull
<1>3. ASSUME NEW w \in Writer, Push(w) PROVE TypeOK'
  <2>1. deq' \in Seq(Lines)
    BY <1>3, Appended DEF TypeOK, HasLine, Writing, Push
  <2>2. QED
    BY <1>0, <1>3, <2>1 DEF TypeOK, Push, Unlock, Notified
<1>4. ASSUME NEW w \in Writer, Puts(w) PROVE TypeOK'
  <2>1. file' \in Seq(Lines)
    BY <1>4, Appended DEF TypeOK, HasLine, Writing, Puts
  <2>2. QED
    BY <1>0, <1>4, <2>1 DEF TypeOK, Puts, Unlock
<1>5. ASSUME NEW w \in Writer, Flush(w) \/ FlushQueue(w) PROVE TypeOK'
  BY <1>5 DEF TypeOK, Flush, FlushQueue, Notified
<1>6. CASE PopWaits \/ SpuriousWake \/ LoggerExit
  BY <1>6 DEF TypeOK, PopWaits, SpuriousWake, LoggerExit
<1>7. CASE PopFront
  <2>1. Head(deq) \in Lines /\ Tail(deq) \in Seq(Lines)
    BY <1>7, Taken DEF TypeOK, PopFront
  <2>2. QED
    BY <1>0, <1>7, <2>1 DEF TypeOK, PopFront, Lines
<1>8. CASE LoggerPuts
  <2>1. file' \in Seq(Lines)
    BY <1>8, Appended DEF TypeOK, HasLine, LoggerPuts
  <2>2. QED
    BY <1>0, <1>8, <2>1 DEF TypeOK, LoggerPuts
<1>9. CASE Destroy \/ Drain \/ NotifyAll \/ Join \/ LockFile
  BY <1>9 DEF TypeOK, Destroy, Drain, NotifyAll, Join, LockFile, Notified
<1>10. CASE Close
  <2>1. <<>> \in Seq(Lines)
    OBVIOUS
  <2>2. QED
    BY <1>10, <2>1 DEF TypeOK, Close
<1>11. CASE UNCHANGED vars
  BY <1>11 DEF vars, TypeOK
<1>12. QED
  BY <1>1, <1>2, <1>3, <1>4, <1>5, <1>6, <1>7, <1>8, <1>9, <1>10, <1>11
  DEF Next, WriterStep, LoggerStep, Destructor

LEMMA LockInv == IInv /\ [Next]_vars => HoldsLock'
<1> SUFFICES ASSUME IInv, [Next]_vars PROVE HoldsLock'
  OBVIOUS
<1> USE DEF IInv
<1>0. None \notin Writer
  BY LogAssumption DEF LogAssumption
<1>1. ASSUME NEW w \in Writer, WriterStep(w) PROVE HoldsLock'
  BY <1>0, <1>1 DEF TypeOK, HoldsLock, Writing, WriterStep, Write, CheckFull, Push,
                    Puts, Unlock, Flush, FlushQueue
<1>2. CASE LoggerStep \/ SpuriousWake
  BY <1>2 DEF HoldsLock, LoggerStep, PopWaits, PopFront, LoggerPuts, LoggerExit, SpuriousWake
<1>3. CASE Destructor
  BY <1>0, <1>3 DEF HoldsLock, Destructor, Destroy, Drain, Close, NotifyAll, Join, LockFile
<1>4. CASE UNCHANGED vars
  BY <1>4 DEF vars, HoldsLock
<1>5. QED
  BY <1>1, <1>2, <1>3, <1>4 DEF Next

LEMMA LineInv == IInv /\ [Next]_vars => HasLine'
<1> SUFFICES ASSUME IInv, [Next]_vars PROVE HasLine'
  OBVIOUS
<1> USE DEF IInv
<1>0. MaxLines \in Nat
  BY LogAssumption DEF LogAssumption
<1>1. ASSUME NEW w \in Writer, WriterStep(w) PROVE HasLine'
  BY <1>0, <1>1 DEF TypeOK, HasLine, Lines, Writing, WriterStep, Write, CheckFull, Push,
                    Puts, Unlock, Flush, FlushQueue, Notified
<1>2. CASE PopFront
  BY <1>2, Taken DEF TypeOK, HasLine, PopFront
<1>3. CASE PopWaits \/ LoggerPuts \/ LoggerExit \/ SpuriousWake
  BY <1>3 DEF HasLine, PopWaits, LoggerPuts, LoggerExit, SpuriousWake
<1>4. CASE Destructor
  BY <1>4 DEF HasLine, Destructor, Destroy, Drain, Close, NotifyAll, Join, LockFile, Notified
<1>5. CASE UNCHANGED vars
  BY <1>5 DEF vars, HasLine
<1>6. QED
  BY <1>1, <1>2, <1>3, <1>4, <1>5 DEF Next, LoggerStep

(* Between the test of full() and push_back the queue only gets shorter:   *)
(* whoever else would push needs mtx_ first.                               *)
LEMMA RoomInv == IInv /\ [Next]_vars => PushNeverWaits'
<1> SUFFICES ASSUME IInv, [Next]_vars PROVE PushNeverWaits'
  OBVIOUS
<1> USE DEF IInv
<1>0. Len(deq) \in Nat /\ Capacity \in Nat \ {0} /\ None \notin Writer
  BY LogAssumption DEF TypeOK, LogAssumption
<1>1. ASSUME NEW w \in Writer, Push(w) PROVE PushNeverWaits'
  <2>1. \A v \in Writer \ {w} : pc[v] # "push"
    BY <1>1 DEF HoldsLock, Writing, Push
  <2>2. \A v \in Writer : pc'[v] # "push"
    BY <1>1, <2>1 DEF TypeOK, Push, Unlock
  <2>3. QED
    BY <2>2 DEF PushNeverWaits
<1>2. ASSUME NEW w \in Writer, CheckFull(w) PROVE PushNeverWaits'
  BY <1>2 DEF TypeOK, PushNeverWaits, CheckFull
<1>3. ASSUME NEW w \in Writer, Write(w) \/ Puts(w) \/ Flush(w) \/ FlushQueue(w)
      PROVE  PushNeverWaits'
  BY <1>3 DEF TypeOK, PushNeverWaits, Write, Puts, Unlock, Flush, FlushQueue
<1>4. CASE PopFront
  <2>1. Len(deq') \in Nat /\ Len(deq') < Len(deq)
    BY <1>4, Taken DEF TypeOK, PopFront
  <2>2. QED
    BY <1>0, <1>4, <2>1 DEF PushNeverWaits, PopFront
<1>5. CASE PopWaits \/ LoggerPuts \/ LoggerExit \/ SpuriousWake
  BY <1>5 DEF PushNeverWaits, PopWaits, LoggerPuts, LoggerExit, SpuriousWake
<1>6. CASE Close
  BY <1>0, <1>6 DEF PushNeverWaits, Close
<1>7. CASE Destroy \/ Drain \/ NotifyAll \/ Join \/ LockFile
  BY <1>7 DEF PushNeverWaits, Destroy, Drain, NotifyAll, Join, LockFile
<1>8. CASE UNCHANGED vars
  BY <1>8 DEF vars, PushNeverWaits
<1>9. QED
  BY <1>1, <1>2, <1>3, <1>4, <1>5, <1>6, <1>7, <1>8
  DEF Next, WriterStep, LoggerStep, Destructor

LEMMA Invariance == Spec => []IInv
<1>1. IInv /\ [Next]_vars => IInv'
  BY TypeInv, LockInv, LineInv, RoomInv DEF IInv
<1>2. QED
  BY InitInv, <1>1, PTL DEF Spec

-----------------------------------------------------------------------------
(* One place for each line.                                                *)

(* Who is not at a line has none.                                          *)
HandFree ==
  /\ \A w \in Writer : pc[w] \notin Writing => line[w] = 0
  /\ logger # "puts" => str = 0

(* No line is ahead of the count. *)
Known ==
  /\ \A k \in 1 .. Len(file) : file[k] <= written
  /\ \A k \in 1 .. Len(deq) : deq[k] <= written
  /\ \A w \in Writer : line[w] <= written
  /\ str <= written

(* ~Log runs alone, and has emptied the queue when it closes it. *)
Alone ==
  /\ dtor # "alive" => \A w \in Writer : pc[w] = "idle"
  /\ dtor = "close" => deq = <<>>

HasOne(x) == \E p : Places(x) = {p}
OnePlace == \A x \in 1 .. written : HasOne(x)

PlaceInv == IInv /\ HandFree /\ Known /\ Alone /\ OnePlace

LEMMA PlaceInit == Init => PlaceInv
<1> SUFFICES ASSUME Init PROVE PlaceInv
  OBVIOUS
<1>1. Len(file) = 0 /\ Len(deq) = 0 /\ written = 0 /\ str = 0
  BY DEF Init
<1>2. HandFree /\ Known /\ Alone /\ OnePlace
  BY <1>1 DEF Init, HandFree, Known, Alone, OnePlace
<1>3. QED
  BY <1>2, InitInv DEF PlaceInv

(* What is at a place, without the set. *)
Holds(f, d, l, s, x, p) ==
  \/ \E k \in 1 .. Len(f) : f[k] = x /\ p = <<"file", k>>
  \/ \E k \in 1 .. Len(d) : d[k] = x /\ p = <<"deq", k>>
  \/ \E w \in Writer : l[w] = x /\ p = <<"line", w>>
  \/ s = x /\ p = <<"str", Logger>>
OnlyHolds(f, d, l, s, x, q) == \A p : Holds(f, d, l, s, x, p) <=> p = q

LEMMA PlaceIs == ASSUME NEW x PROVE \A p : p \in Places(x) <=> Holds(file, deq, line, str, x, p)
BY DEF Places, Holds

LEMMA PlaceIsNext ==
  ASSUME NEW CONSTANT x
  PROVE  \A p : p \in Places(x)' <=> Holds(file', deq', line', str', x, p)
BY DEF Places, Holds

(* It is enough to follow the place of each line: it stays, or becomes q.  *)
LEMMA OneNow ==
  ASSUME OnePlace, NEW x \in 1 .. written
  PROVE  \E q : OnlyHolds(file, deq, line, str, x, q)
<1>1. PICK q : Places(x) = {q}
  BY DEF OnePlace, HasOne
<1>2. OnlyHolds(file, deq, line, str, x, q)
  BY <1>1, PlaceIs DEF OnlyHolds
<1>3. QED
  BY <1>2

GoesTo(x, q) == OnlyHolds(file', deq', line', str', x, q)

LEMMA Goes == ASSUME NEW CONSTANT x, NEW q, GoesTo(x, q) PROVE HasOne(x)'
<1>1. \A p : p \in Places(x)' <=> p = q
  BY PlaceIsNext DEF GoesTo, OnlyHolds
<1>2. Places(x)' = {q}
  BY <1>1
<1>3. QED
  BY <1>2 DEF HasOne

LEMMA Stays ==
  ASSUME OnePlace, NEW CONSTANT x \in 1 .. written,
         \A p : Holds(file', deq', line', str', x, p) <=> Holds(file, deq, line, str, x, p)
  PROVE  HasOne(x)'
<1>1. PICK q : OnlyHolds(file, deq, line, str, x, q)
  BY OneNow
<1>2. GoesTo(x, q)
  BY <1>1 DEF GoesTo, OnlyHolds
<1>3. QED
  BY <1>2, Goes

(* The file or the queue gets a line at its end. *)
LEMMA AtEnd ==
  ASSUME NEW s \in Seq(Lines), NEW x \in Lines
  PROVE  /\ Len(s) \in Nat /\ Len(Append(s, x)) = Len(s) + 1
         /\ Append(s, x)[Len(s) + 1] = x
         /\ \A k \in 1 .. Len(s) : Append(s, x)[k] = s[k]
BY AppendProperties

LEMMA WritePlaces == ASSUME PlaceInv, NEW w \in Writer, Write(w) PROVE OnePlace'
<1> USE DEF PlaceInv, IInv
<1>1. /\ written \in Nat /\ written' = written + 1 /\ line[w] = 0
      /\ line' = [line EXCEPT ![w] = written + 1] /\ line \in [Writer -> 0 .. MaxLines]
      /\ UNCHANGED <<file, deq, str>>
  BY LogAssumption DEF LogAssumption, TypeOK, HandFree, Writing, Write
<1>2. ASSUME NEW x \in 1 .. written
      PROVE  HasOne(x)'
  <2>1. \A v \in Writer : line'[v] = x <=> line[v] = x
    BY <1>1
  <2>2. \A p : Holds(file', deq', line', str', x, p) <=> Holds(file, deq, line, str, x, p)
    BY <1>1, <2>1 DEF Holds
  <2>3. QED
    BY <2>2, Stays
<1>3. ASSUME NEW x, x = written + 1
      PROVE  HasOne(x)'
  <2>1. /\ \A k \in 1 .. Len(file) : file[k] # x
        /\ \A k \in 1 .. Len(deq) : deq[k] # x
        /\ str # x
    BY <1>1, <1>3 DEF Known, TypeOK, Lines
  <2>2. \A v \in Writer : line'[v] = x <=> v = w
    BY <1>1, <1>3 DEF Known
  <2>3. GoesTo(x, <<"line", w>>)
    BY <1>1, <2>1, <2>2 DEF GoesTo, OnlyHolds, Holds
  <2>4. QED
    BY <2>3, Goes
<1>4. ASSUME NEW x \in 1 .. written'
      PROVE  HasOne(x)'
  <2>1. x \in 1 .. written \/ x = written + 1
    BY <1>1
  <2>2. QED
    BY <1>2, <1>3, <2>1
<1>5. QED
  BY <1>4 DEF OnePlace

(* A line at one place is at no other. *)
LEMMA Only ==
  ASSUME NEW f, NEW d, NEW l, NEW s, NEW x, NEW q, OnlyHolds(f, d, l, s, x, q)
  PROVE  /\ \A k \in 1 .. Len(f) : f[k] = x => q = <<"file", k>>
         /\ \A k \in 1 .. Len(d) : d[k] = x => q = <<"deq", k>>
         /\ \A w \in Writer : l[w] = x => q = <<"line", w>>
         /\ s = x => q = <<"str", Logger>>
<1>1. ASSUME NEW k \in 1 .. Len(f), f[k] = x PROVE q = <<"file", k>>
  <2>1. Holds(f, d, l, s, x, <<"file", k>>)
    BY <1>1 DEF Holds
  <2>2. QED
    BY <2>1 DEF OnlyHolds
<1>2. ASSUME NEW k \in 1 .. Len(d), d[k] = x PROVE q = <<"deq", k>>
  <2>1. Holds(f, d, l, s, x, <<"deq", k>>)
    BY <1>2 DEF Holds
  <2>2. QED
    BY <2>1 DEF OnlyHolds
<1>3. ASSUME NEW w \in Writer, l[w] = x PROVE q = <<"line", w>>
  <2>1. Holds(f, d, l, s, x, <<"line", w>>)
    BY <1>3 DEF Holds
  <2>2. QED
    BY <2>1 DEF OnlyHolds
<1>4. ASSUME s = x PROVE q = <<"str", Logger>>
  <2>1. Holds(f, d, l, s, x, <<"str", Logger>>)
    BY <1>4 DEF Holds
  <2>2. QED
    BY <2>1 DEF OnlyHolds
<1>5. QED
  BY <1>1, <1>2, <1>3, <1>4

(* A line somebody holds is nowhere else. *)
LEMMA LineOnly ==
  ASSUME PlaceInv, NEW w \in Writer, pc[w] \in Writing
  PROVE  /\ line[w] \in 1 .. written
         /\ \A k \in 1 .. Len(file) : file[k] # line[w]
         /\ \A k \in 1 .. Len(deq) : deq[k] # line[w]
         /\ \A v \in Writer : line[v] = line[w] => v = w
         /\ str # line[w]
<1>1. line[w] \in 1 .. written
  BY DEF PlaceInv, IInv, TypeOK, HasLine, Known, Lines
<1>2. PICK q : OnlyHolds(file, deq, line, str, line[w], q)
  BY <1>1, OneNow DEF PlaceInv
<1>3. /\ \A k \in 1 .. Len(file) : file[k] = line[w] => q = <<"file", k>>
      /\ \A k \in 1 .. Len(deq) : deq[k] = line[w] => q = <<"deq", k>>
      /\ \A v \in Writer : line[v] = line[w] => q = <<"line", v>>
      /\ str = line[w] => q = <<"str", Logger>>
  BY <1>2, Only
<1>4. q = <<"line", w>>
  BY <1>3
<1>5. QED
  BY <1>1, <1>3, <1>4

LEMMA StrOnly ==
  ASSUME PlaceInv, logger = "puts"
  PROVE  /\ str \in 1 .. written
         /\ \A k \in 1 .. Len(file) : file[k] # str
         /\ \A k \in 1 .. Len(deq) : deq[k] # str
         /\ \A v \in Writer : line[v] # str
<1>1. str \in 1 .. written
  BY DEF PlaceInv, IInv, TypeOK, HasLine, Known, Lines
<1>2. PICK q : OnlyHolds(file, deq, line, str, str, q)
  BY <1>1, OneNow DEF PlaceInv
<1>3. /\ \A k \in 1 .. Len(file) : file[k] = str => q = <<"file", k>>
      /\ \A k \in 1 .. Len(deq) : deq[k] = str => q = <<"deq", k>>
      /\ \A v \in Writer : line[v] = str => q = <<"line", v>>
      /\ str = str => q = <<"str", Logger>>
  BY <1>2, Only
<1>4. q = <<"str", Logger>>
  BY <1>3
<1>5. QED
  BY <1>1, <1>3, <1>4

LEMMA QueueOnly ==
  ASSUME PlaceInv, NEW j \in 1 .. Len(deq)
  PROVE  /\ deq[j] \in 1 .. written
         /\ \A k \in 1 .. Len(file) : file[k] # deq[j]
         /\ \A k \in 1 .. Len(deq) : deq[k] = deq[j] => k = j
         /\ \A v \in Writer : line[v] # deq[j]
         /\ str # deq[j]
<1>1. deq[j] \in 1 .. written
  <2>1. deq[j] \in Lines /\ deq[j] <= written /\ written \in Nat
    BY LogAssumption DEF LogAssumption, PlaceInv, IInv, TypeOK, Known
  <2>2. QED
    BY <2>1 DEF Lines
<1>2. PICK q : OnlyHolds(file, deq, line, str, deq[j], q)
  BY <1>1, OneNow DEF PlaceInv
<1>3. /\ \A k \in 1 .. Len(file) : file[k] = deq[j] => q = <<"file", k>>
      /\ \A k \in 1 .. Len(deq) : deq[k] = deq[j] => q = <<"deq", k>>
      /\ \A v \in Writer : line[v] = deq[j] => q = <<"line", v>>
      /\ str = deq[j] => q = <<"str", Logger>>
  BY <1>2, Only
<1>4. q = <<"deq", j>>
  BY <1>3
<1>5. QED
  BY <1>1, <1>3, <1>4

LEMMA PushPlaces == ASSUME PlaceInv, NEW w \in Writer, Push(w) PROVE OnePlace'
<1>1. pc[w] \in Writing /\ line[w] \in Lines /\ deq \in Seq(Lines) /\ line \in [Writer -> 0 .. MaxLines]
  BY DEF PlaceInv, IInv, TypeOK, HasLine, Writing, Push
<1>2. /\ deq' = Append(deq, line[w]) /\ line' = [line EXCEPT ![w] = 0]
      /\ UNCHANGED <<written, file, str>>
  BY DEF Push, Unlock
<1>3. /\ Len(deq) \in Nat /\ Len(deq') = Len(deq) + 1 /\ deq'[Len(deq) + 1] = line[w]
      /\ \A k \in 1 .. Len(deq) : deq'[k] = deq[k]
  BY <1>1, <1>2, AtEnd
<1>4. ASSUME NEW x \in 1 .. written, x # line[w]
      PROVE  HasOne(x)'
  <2>1. \A v \in Writer : line'[v] = x <=> line[v] = x
    BY <1>1, <1>2, <1>4
  <2>2. \A k : k \in 1 .. Len(deq') /\ deq'[k] = x <=> k \in 1 .. Len(deq) /\ deq[k] = x
    BY <1>3, <1>4
  <2>3. \A p : Holds(file', deq', line', str', x, p) <=> Holds(file, deq, line, str, x, p)
    BY <1>2, <2>1, <2>2 DEF Holds
  <2>4. QED
    BY <2>3, Stays DEF PlaceInv
<1>5. ASSUME NEW x \in 1 .. written, x = line[w]
      PROVE  HasOne(x)'
  <2>1. /\ \A k \in 1 .. Len(file') : file'[k] # x
        /\ \A v \in Writer : line'[v] # x
        /\ str' # x
    BY <1>1, <1>2, <1>5, LineOnly
  <2>2. \A k : k \in 1 .. Len(deq') /\ deq'[k] = x <=> k = Len(deq) + 1
    BY <1>1, <1>3, <1>5, LineOnly
  <2>3. GoesTo(x, <<"deq", Len(deq) + 1>>)
    BY <2>1, <2>2 DEF GoesTo, OnlyHolds, Holds
  <2>4. QED
    BY <2>3, Goes
<1>6. ASSUME NEW x \in 1 .. written' PROVE HasOne(x)'
  BY <1>2, <1>4, <1>5
<1>7. QED
  BY <1>6 DEF OnePlace

LEMMA PutsPlaces == ASSUME PlaceInv, NEW w \in Writer, Puts(w) PROVE OnePlace'
<1>1. pc[w] \in Writing /\ line[w] \in Lines /\ file \in Seq(Lines) /\ line \in [Writer -> 0 .. MaxLines]
  BY DEF PlaceInv, IInv, TypeOK, HasLine, Writing, Puts
<1>2. /\ file' = Append(file, line[w]) /\ line' = [line EXCEPT ![w] = 0]
      /\ UNCHANGED <<written, deq, str>>
  BY DEF Puts, Unlock
<1>3. /\ Len(file) \in Nat /\ Len(file') = Len(file) + 1 /\ file'[Len(file) + 1] = line[w]
      /\ \A k \in 1 .. Len(file) : file'[k] = file[k]
  BY <1>1, <1>2, AtEnd
<1>4. ASSUME NEW x \in 1 .. written, x # line[w]
      PROVE  HasOne(x)'
  <2>1. \A v \in Writer : line'[v] = x <=> line[v] = x
    BY <1>1, <1>2, <1>4
  <2>2. \A k : k \in 1 .. Len(file') /\ file'[k] = x <=> k \in 1 .. Len(file) /\ file[k] = x
    BY <1>3, <1>4
  <2>3. \A p : Holds(file', deq', line', str', x, p) <=> Holds(file, deq, line, str, x, p)
    BY <1>2, <2>1, <2>2 DEF Holds
  <2>4. QED
    BY <2>3, Stays DEF PlaceInv
<1>5. ASSUME NEW x \in 1 .. written, x = line[w]
      PROVE  HasOne(x)'
  <2>1. /\ \A k \in 1 .. Len(deq') : deq'[k] # x
        /\ \A v \in Writer : line'[v] # x
        /\ str' # x
    BY <1>1, <1>2, <1>5, LineOnly
  <2>2. \A k : k \in 1 .. Len(file') /\ file'[k] = x <=> k = Len(file) + 1
    BY <1>1, <1>3, <1>5, LineOnly
  <2>3. GoesTo(x, <<"file", Len(file) + 1>>)
    BY <2>1, <2>2 DEF GoesTo, OnlyHolds, Holds
  <2>4. QED
    BY <2>3, Goes
<1>6. ASSUME NEW x \in 1 .. written' PROVE HasOne(x)'
  BY <1>2, <1>4, <1>5
<1>7. QED
  BY <1>6 DEF OnePlace

LEMMA LoggerPutsPlaces == ASSUME PlaceInv, LoggerPuts PROVE OnePlace'
<1>1. logger = "puts" /\ str \in Lines /\ file \in Seq(Lines)
  BY DEF PlaceInv, IInv, TypeOK, HasLine, LoggerPuts
<1>2. file' = Append(file, str) /\ str' = 0 /\ UNCHANGED <<written, deq, line>>
  BY DEF LoggerPuts
<1>3. /\ Len(file) \in Nat /\ Len(file') = Len(file) + 1 /\ file'[Len(file) + 1] = str
      /\ \A k \in 1 .. Len(file) : file'[k] = file[k]
  BY <1>1, <1>2, AtEnd
<1>4. ASSUME NEW x \in 1 .. written, x # str
      PROVE  HasOne(x)'
  <2>1. \A k : k \in 1 .. Len(file') /\ file'[k] = x <=> k \in 1 .. Len(file) /\ file[k] = x
    BY <1>3, <1>4
  <2>2. str' # x
    BY <1>2
  <2>3. \A p : Holds(file', deq', line', str', x, p) <=> Holds(file, deq, line, str, x, p)
    BY <1>2, <1>4, <2>1, <2>2 DEF Holds
  <2>4. QED
    BY <2>3, Stays DEF PlaceInv
<1>5. ASSUME NEW x \in 1 .. written, x = str
      PROVE  HasOne(x)'
  <2>1. /\ \A k \in 1 .. Len(deq') : deq'[k] # x
        /\ \A v \in Writer : line'[v] # x
        /\ str' # x
    BY <1>1, <1>2, <1>5, StrOnly
  <2>2. \A k : k \in 1 .. Len(file') /\ file'[k] = x <=> k = Len(file) + 1
    BY <1>1, <1>3, <1>5, StrOnly
  <2>3. GoesTo(x, <<"file", Len(file) + 1>>)
    BY <2>1, <2>2 DEF GoesTo, OnlyHolds, Holds
  <2>4. QED
    BY <2>3, Goes
<1>6. ASSUME NEW x \in 1 .. written' PROVE HasOne(x)'
  BY <1>2, <1>4, <1>5
<1>7. QED
  BY <1>6 DEF OnePlace

(* The front goes to the logger, and the others move up. *)
LEMMA PopPlaces == ASSUME PlaceInv, PopFront PROVE OnePlace'
<1>1. deq \in Seq(Lines) /\ deq # <<>> /\ str = 0
  BY DEF PlaceInv, IInv, TypeOK, HandFree, PopFront
<1>2. str' = Head(deq) /\ deq' = Tail(deq) /\ UNCHANGED <<written, file, line>>
  BY DEF PopFront
<1>3. /\ Len(deq) \in Nat \ {0} /\ Len(deq') = Len(deq) - 1 /\ str' = deq[1]
      /\ \A k \in 1 .. Len(deq') : deq'[k] = deq[k + 1]
  BY <1>1, <1>2, HeadTailProperties
<1>4. ASSUME NEW x \in 1 .. written, x # deq[1], \A k \in 1 .. Len(deq) : deq[k] # x
      PROVE  HasOne(x)'
  <2>1. \A k \in 1 .. Len(deq') : deq'[k] # x
    BY <1>3, <1>4
  <2>2. str # x /\ str' # x
    BY <1>1, <1>3, <1>4
  <2>3. \A p : Holds(file', deq', line', str', x, p) <=> Holds(file, deq, line, str, x, p)
    BY <1>2, <1>4, <2>1, <2>2 DEF Holds
  <2>4. QED
    BY <2>3, Stays DEF PlaceInv
<1>5. ASSUME NEW x \in 1 .. written, x # deq[1], NEW j \in 1 .. Len(deq), deq[j] = x
      PROVE  HasOne(x)'
  <2>1. /\ \A k \in 1 .. Len(file') : file'[k] # x
        /\ \A v \in Writer : line'[v] # x
        /\ str' # x
    BY <1>2, <1>3, <1>5, QueueOnly
  <2>2. \A k : k \in 1 .. Len(deq') /\ deq'[k] = x <=> k = j - 1
    <3>1. \A k \in 1 .. Len(deq) : deq[k] = x <=> k = j
      BY <1>5, QueueOnly
    <3>2. j # 1
      BY <1>5
    <3>3. QED
      BY SMTT(30), <1>3, <3>1, <3>2
  <2>3. GoesTo(x, <<"deq", j - 1>>)
    BY <2>1, <2>2 DEF GoesTo, OnlyHolds, Holds
  <2>4. QED
    BY <2>3, Goes
<1>6. ASSUME NEW x \in 1 .. written, x = deq[1]
      PROVE  HasOne(x)'
  <2>1. 1 \in 1 .. Len(deq)
    BY <1>3
  <2>2. /\ \A k \in 1 .. Len(file') : file'[k] # x
        /\ \A v \in Writer : line'[v] # x
        /\ \A k \in 1 .. Len(deq) : deq[k] = x => k = 1
    BY <1>2, <1>6, <2>1, QueueOnly
  <2>3. \A k \in 1 .. Len(deq') : deq'[k] # x
    BY <1>3, <2>2
  <2>4. GoesTo(x, <<"str", Logger>>)
    BY <1>3, <1>6, <2>2, <2>3 DEF GoesTo, OnlyHolds, Holds
  <2>5. QED
    BY <2>4, Goes
<1>7. ASSUME NEW x \in 1 .. written' PROVE HasOne(x)'
  BY <1>2, <1>4, <1>5, <1>6
<1>8. QED
  BY <1>7 DEF OnePlace

LEMMA OnePlaceInv == PlaceInv /\ [Next]_vars => OnePlace'
<1> SUFFICES ASSUME PlaceInv, [Next]_vars PROVE OnePlace'
  OBVIOUS
<1>kept. ASSUME UNCHANGED <<written, file, deq, line, str>> PROVE OnePlace'
  <2>1. ASSUME NEW x \in 1 .. written PROVE HasOne(x)'
    BY <1>kept, Stays DEF PlaceInv
  <2>2. QED
    BY <1>kept, <2>1 DEF OnePlace
<1>1. ASSUME NEW w \in Writer, WriterStep(w) PROVE OnePlace'
  <2>1. CASE CheckFull(w) \/ Flush(w) \/ FlushQueue(w)
    BY <1>kept, <2>1 DEF CheckFull, Flush, FlushQueue
  <2>2. QED
    BY <1>1, <2>1, WritePlaces, PushPlaces, PutsPlaces DEF WriterStep
<1>2. CASE LoggerStep
  <2>1. CASE PopWaits \/ LoggerExit
    BY <1>kept, <2>1 DEF PopWaits, LoggerExit
  <2>2. QED
    BY <1>2, <2>1, PopPlaces, LoggerPutsPlaces DEF LoggerStep
<1>3. CASE Destroy \/ Drain \/ NotifyAll \/ Join \/ LockFile \/ SpuriousWake \/ UNCHANGED vars
  BY <1>kept, <1>3 DEF Destroy, Drain, NotifyAll, Join, LockFile, SpuriousWake, vars
<1>4. CASE Close
  <2>1. deq = <<>>
    BY <1>4 DEF PlaceInv, Alone, Close
  <2>2. QED
    BY <1>kept, <1>4, <2>1 DEF Close
<1>5. QED
  BY <1>1, <1>2, <1>3, <1>4 DEF Next, Destructor

LEMMA HandInv == PlaceInv /\ [Next]_vars => HandFree'
<1> SUFFICES ASSUME PlaceInv, [Next]_vars PROVE HandFree'
  OBVIOUS
<1> USE DEF PlaceInv, IInv
<1>1. ASSUME NEW w \in Writer, WriterStep(w) PROVE HandFree'
  BY <1>1 DEF TypeOK, HandFree, Writing, WriterStep, Write, CheckFull, Push, Puts, Unlock,
              Flush, FlushQueue, Notified
<1>2. CASE LoggerStep \/ SpuriousWake
  BY <1>2 DEF HandFree, LoggerStep, PopWaits, PopFront, LoggerPuts, LoggerExit, SpuriousWake
<1>3. CASE Destructor
  BY <1>3 DEF HandFree, Destructor, Destroy, Drain, Close, NotifyAll, Join, LockFile, Notified
<1>4. CASE UNCHANGED vars
  BY <1>4 DEF vars, HandFree
<1>5. QED
  BY <1>1, <1>2, <1>3, <1>4 DEF Next

LEMMA KnownInv == PlaceInv /\ [Next]_vars => Known'
<1> SUFFICES ASSUME PlaceInv, [Next]_vars PROVE Known'
  OBVIOUS
<1> USE DEF PlaceInv, IInv
<1>0. /\ written \in Nat /\ deq \in Seq(Lines) /\ file \in Seq(Lines)
      /\ line \in [Writer -> 0 .. MaxLines] /\ str \in Nat
  BY LogAssumption DEF LogAssumption, TypeOK
<1>1. ASSUME NEW w \in Writer, Write(w) PROVE Known'
  <2>1. /\ \A k \in 1 .. Len(file) : file[k] \in Nat
        /\ \A k \in 1 .. Len(deq) : deq[k] \in Nat
        /\ \A v \in Writer : line[v] \in Nat
    <3>1. Lines \subseteq Nat /\ 0 .. MaxLines \subseteq Nat
      BY DEF Lines
    <3>2. /\ \A k \in 1 .. Len(file) : file[k] \in Lines
          /\ \A k \in 1 .. Len(deq) : deq[k] \in Lines
          /\ \A v \in Writer : line[v] \in 0 .. MaxLines
      BY <1>0
    <3>3. QED
      BY <3>1, <3>2
  <2>2. QED
    BY <1>0, <1>1, <2>1 DEF Known, Write
<1>2. ASSUME NEW w \in Writer, Push(w) PROVE Known'
  <2>1. /\ Len(deq') = Len(deq) + 1 /\ deq'[Len(deq) + 1] = line[w] /\ Len(deq) \in Nat
        /\ \A k \in 1 .. Len(deq) : deq'[k] = deq[k]
    BY <1>0, <1>2, AtEnd DEF HasLine, Writing, Push
  <2>2. \A k \in 1 .. Len(deq') : k \in 1 .. Len(deq) \/ k = Len(deq) + 1
    BY <2>1
  <2>3. QED
    BY <1>0, <1>2, <2>1, <2>2 DEF Known, Push, Unlock
<1>3. ASSUME NEW w \in Writer, Puts(w) PROVE Known'
  <2>1. /\ Len(file') = Len(file) + 1 /\ file'[Len(file) + 1] = line[w] /\ Len(file) \in Nat
        /\ \A k \in 1 .. Len(file) : file'[k] = file[k]
    BY <1>0, <1>3, AtEnd DEF HasLine, Writing, Puts
  <2>2. \A k \in 1 .. Len(file') : k \in 1 .. Len(file) \/ k = Len(file) + 1
    BY <2>1
  <2>3. QED
    BY <1>0, <1>3, <2>1, <2>2 DEF Known, Puts, Unlock
<1>4. CASE LoggerPuts
  <2>1. /\ Len(file') = Len(file) + 1 /\ file'[Len(file) + 1] = str /\ Len(file) \in Nat
        /\ \A k \in 1 .. Len(file) : file'[k] = file[k]
    BY <1>0, <1>4, AtEnd DEF HasLine, LoggerPuts
  <2>2. \A k \in 1 .. Len(file') : k \in 1 .. Len(file) \/ k = Len(file) + 1
    BY <2>1
  <2>3. QED
    BY <1>0, <1>4, <2>1, <2>2 DEF Known, LoggerPuts
<1>5. CASE PopFront
  <2>1. /\ Len(deq) \in Nat \ {0} /\ Len(deq') = Len(deq) - 1 /\ str' = deq[1]
        /\ \A k \in 1 .. Len(deq') : deq'[k] = deq[k + 1]
    BY <1>0, <1>5, HeadTailProperties DEF PopFront
  <2>2. QED
    BY <1>0, <1>5, <2>1 DEF Known, PopFront
<1>6. CASE Close
  BY <1>6 DEF Known, Close
<1>7. ASSUME UNCHANGED <<written, file, deq, line, str>> PROVE Known'
  BY <1>7 DEF Known
<1>8. QED
  BY <1>1, <1>2, <1>3, <1>4, <1>5, <1>6, <1>7
  DEF Next, WriterStep, LoggerStep, Destructor, CheckFull, Flush, FlushQueue, PopWaits, LoggerExit,
      SpuriousWake, Destroy, Drain, NotifyAll, Join, LockFile, vars

LEMMA AloneInv == PlaceInv /\ [Next]_vars => Alone'
<1> SUFFICES ASSUME PlaceInv, [Next]_vars PROVE Alone'
  OBVIOUS
<1> USE DEF PlaceInv, IInv
<1>1. ASSUME NEW w \in Writer, WriterStep(w) PROVE Alone'
  <2>1. dtor = "alive" /\ dtor' = "alive"
    BY <1>1 DEF Alone, WriterStep, Write, CheckFull, Push, Puts, Unlock, Flush, FlushQueue
  <2>2. QED
    BY <2>1 DEF Alone
<1>2. CASE PopFront
  BY <1>2 DEF Alone, PopFront
<1>3. CASE PopWaits \/ LoggerPuts \/ LoggerExit \/ SpuriousWake
  BY <1>3 DEF Alone, PopWaits, LoggerPuts, LoggerExit, SpuriousWake
<1>4. CASE Destructor
  BY <1>4 DEF Alone, Destructor, Destroy, Drain, Close, NotifyAll, Join, LockFile
<1>5. CASE UNCHANGED vars
  BY <1>5 DEF vars, Alone
<1>6. QED
  BY <1>1, <1>2, <1>3, <1>4, <1>5 DEF Next, LoggerStep

LEMMA PlaceInvariance == Spec => []PlaceInv
<1>1. IInv /\ [Next]_vars => IInv'
  BY TypeInv, LockInv, LineInv, RoomInv DEF IInv
<1>2. PlaceInv /\ [Next]_vars => PlaceInv'
  BY <1>1, OnePlaceInv, HandInv, KnownInv, AloneInv DEF PlaceInv
<1>3. QED
  BY PlaceInit, <1>2, PTL DEF Spec

(* Each line is in the queue, in the file or in the hand of one thread,    *)
(* once: nothing is lost between the full queue, the logger and the        *)
(* closing of the queue, and nothing is written twice.                     *)
THEOREM LinesOnce == Spec => []EachLineOnce
<1>1. ASSUME PlaceInv PROVE EachLineOnce
  <2> SUFFICES ASSUME NEW x \in 1 .. written PROVE Cardinality(Places(x)) = 1
    BY DEF EachLineOnce
  <2>1. PICK p : Places(x) = {p}
    BY <1>1 DEF PlaceInv, OnePlace, HasOne
  <2>2. QED
    BY <2>1, FS_Singleton
<1>2. PlaceInv => EachLineOnce
  BY <1>1
<1>3. QED
  BY <1>2, PlaceInvariance, PTL
-----------------------------------------------------------------------------
(* Type correctness; in particular the file gets lines only.               *)
THEOREM TypeCorrect == Spec => []TypeOK
<1>1. IInv => TypeOK
  BY DEF IInv
<1>2. QED
  BY <1>1, Invariance, PTL

(* push_back never waits for space with mtx_ held, so that the logger and  *)
(* a writer cannot wait for each other.                                    *)
THEOREM NoWaitWithLock == Spec => []PushNeverWaits
<1>1. IInv => PushNeverWaits
  BY DEF IInv
<1>2. QED
  BY <1>1, Invariance, PTL
-----------------------------------------------------------------------------
(* How far a line can be overtaken.                                        *)

(* The queue is in the order of the lines and the logger is behind all of  *)
(* it, the line being written is the newest one, and the queue is bounded. *)
Ordered ==
  /\ \A i, k \in 1 .. Len(deq) : i < k => deq[i] < deq[k]
  /\ \A k \in 1 .. Len(deq) : str < deq[k]
  /\ \A w \in Writer : pc[w] \in Writing => line[w] = written
  /\ Len(deq) <= Capacity

(* The lines that overtook the k-th line of the file f or still can: those *)
(* older than it that are after it, in the queue d or the logger's hand s. *)
Behind(f, d, s, k) ==
  {n \in Lines : /\ n < f[k]
                 /\ \/ n = s
                    \/ \E i \in 1 .. Len(d) : d[i] = n
                    \/ \E i \in k + 1 .. Len(f) : f[i] = n}
FewBehind(f, d, s) == \A k \in 1 .. Len(f) : Cardinality(Behind(f, d, s, k)) <= Capacity + 1

OvertakeInv == PlaceInv /\ Ordered /\ FewBehind(file, deq, str)

LEMMA OvertakeInit == Init => OvertakeInv
<1> SUFFICES ASSUME Init PROVE OvertakeInv
  OBVIOUS
<1>1. Len(file) = 0 /\ Len(deq) = 0 /\ Capacity \in Nat
  BY LogAssumption DEF LogAssumption, Init
<1>2. Ordered /\ FewBehind(file, deq, str)
  BY <1>1 DEF Init, Ordered, FewBehind, Writing
<1>3. QED
  BY <1>2, PlaceInit DEF OvertakeInv

(* A position of the queue or of the file holds a line, as a number. *)
LEMMA Numbers ==
  ASSUME PlaceInv
  PROVE  /\ written \in Nat /\ Capacity \in Nat \ {0} /\ str \in Nat
         /\ Len(deq) \in Nat /\ Len(file) \in Nat
         /\ \A k \in 1 .. Len(deq) : deq[k] \in Nat \ {0} /\ deq[k] \in Lines
         /\ \A k \in 1 .. Len(file) : file[k] \in Nat \ {0} /\ file[k] \in Lines
         /\ \A w \in Writer : line[w] \in Nat
<1>1. /\ written \in Nat /\ Capacity \in Nat \ {0} /\ str \in Nat
      /\ deq \in Seq(Lines) /\ file \in Seq(Lines) /\ line \in [Writer -> 0 .. MaxLines]
  BY LogAssumption DEF LogAssumption, PlaceInv, IInv, TypeOK
<1>2. Lines \subseteq Nat \ {0} /\ 0 .. MaxLines \subseteq Nat
  BY DEF Lines
<1>3. /\ \A k \in 1 .. Len(deq) : deq[k] \in Lines
      /\ \A k \in 1 .. Len(file) : file[k] \in Lines
      /\ \A w \in Writer : line[w] \in 0 .. MaxLines
  BY <1>1
<1>4. Len(deq) \in Nat /\ Len(file) \in Nat
  BY <1>1
<1>5. /\ \A k \in 1 .. Len(deq) : deq[k] \in Nat \ {0}
      /\ \A k \in 1 .. Len(file) : file[k] \in Nat \ {0}
      /\ \A w \in Writer : line[w] \in Nat
  BY <1>2, <1>3
<1>6. QED
  BY <1>1, <1>3, <1>4, <1>5

LEMMA OrderedInv == PlaceInv /\ Ordered /\ [Next]_vars => Ordered'
<1> SUFFICES ASSUME PlaceInv, Ordered, [Next]_vars PROVE Ordered'
  OBVIOUS
<1>1. ASSUME NEW w \in Writer, Write(w) PROVE Ordered'
  <2>1. \A v \in Writer : pc[v] \notin Writing
    BY <1>1, LogAssumption DEF LogAssumption, PlaceInv, IInv, HoldsLock, Write
  <2>2. \A v \in Writer : pc'[v] \in Writing => line'[v] = written'
    BY <1>1, <2>1 DEF PlaceInv, IInv, TypeOK, Write
  <2>3. QED
    BY <1>1, <2>2 DEF Ordered, Write
<1>2. ASSUME NEW w \in Writer, Push(w) PROVE Ordered'
  <2>1. /\ Len(deq') = Len(deq) + 1 /\ deq'[Len(deq) + 1] = line[w]
        /\ \A k \in 1 .. Len(deq) : deq'[k] = deq[k]
    BY <1>2, AtEnd DEF PlaceInv, IInv, TypeOK, HasLine, Writing, Push
  <2>2. line[w] = written /\ pc[w] \in Writing
    BY <1>2 DEF Ordered, Writing, Push
  <2>3. /\ str < line[w]
        /\ \A k \in 1 .. Len(deq) : deq[k] < line[w]
    BY <2>2, Numbers, LineOnly DEF PlaceInv, Known
  <2>4. \A k \in 1 .. Len(deq') : k \in 1 .. Len(deq) \/ k = Len(deq) + 1
    BY <2>1, Numbers
  <2>5. \A i, k \in 1 .. Len(deq') : i < k => deq'[i] < deq'[k]
    BY SMTT(30), <2>1, <2>3, <2>4, Numbers DEF Ordered
  <2>6. \A k \in 1 .. Len(deq') : str' < deq'[k]
    BY <1>2, <2>1, <2>3, <2>4 DEF Ordered, Push
  <2>7. \A v \in Writer : pc'[v] \in Writing => line'[v] = written'
    BY <1>2 DEF Ordered, PlaceInv, IInv, TypeOK, Writing, Push, Unlock
  <2>8. Len(deq') <= Capacity
    BY <1>2, <2>1, Numbers DEF Push
  <2>9. QED
    BY <2>5, <2>6, <2>7, <2>8 DEF Ordered
<1>3. CASE PopFront
  <2>1. /\ Len(deq) \in Nat \ {0} /\ Len(deq') = Len(deq) - 1 /\ str' = deq[1]
        /\ \A k \in 1 .. Len(deq') : deq'[k] = deq[k + 1]
    BY <1>3, HeadTailProperties DEF PlaceInv, IInv, TypeOK, PopFront
  <2>2. \A i, k \in 1 .. Len(deq') : i < k => deq'[i] < deq'[k]
    BY <2>1, Numbers DEF Ordered
  <2>3. \A k \in 1 .. Len(deq') : str' < deq'[k]
    BY SMTT(30), <2>1, Numbers DEF Ordered
  <2>4. QED
    BY <1>3, <2>1, <2>2, <2>3, Numbers DEF Ordered, PopFront
<1>4. CASE Close
  BY <1>4, Numbers DEF Ordered, Close
<1>5. CASE LoggerPuts
  BY <1>5, Numbers DEF Ordered, LoggerPuts
<1>6. ASSUME NEW w \in Writer, CheckFull(w) \/ Puts(w) \/ Flush(w) \/ FlushQueue(w)
      PROVE  Ordered'
  <2>1. \A v \in Writer : pc'[v] \in Writing => line'[v] = written'
    BY <1>6 DEF Ordered, PlaceInv, IInv, TypeOK, Writing, CheckFull, Puts, Unlock, Flush, FlushQueue
  <2>2. QED
    BY <1>6, <2>1 DEF Ordered, CheckFull, Puts, Flush, FlushQueue
<1>7. ASSUME UNCHANGED <<written, deq, line, pc, str>> PROVE Ordered'
  BY <1>7 DEF Ordered
<1>8. QED
  BY <1>1, <1>2, <1>3, <1>4, <1>5, <1>6, <1>7
  DEF Next, WriterStep, LoggerStep, Destructor, PopWaits, LoggerExit, SpuriousWake, Destroy, Drain,
      NotifyAll, Join, LockFile, vars
LEMMA FiniteBehind ==
  ASSUME NEW f, NEW d, NEW s, NEW k
  PROVE  IsFiniteSet(Behind(f, d, s, k))
<1>1. IsFiniteSet(Lines)
  BY LogAssumption, FS_Interval DEF LogAssumption, Lines
<1>2. Behind(f, d, s, k) \in SUBSET Lines
  BY DEF Behind
<1>3. QED
  BY <1>1, <1>2, FS_Subset

(* A step that puts no further line behind the k-th one keeps the bound. *)
LEMMA StillFew ==
  ASSUME PlaceInv, FewBehind(file, deq, str), NEW k \in 1 .. Len(file),
         NEW f, NEW d, NEW s, Behind(f, d, s, k) \subseteq Behind(file, deq, str, k)
  PROVE  Cardinality(Behind(f, d, s, k)) <= Capacity + 1
<1> DEFINE B == Behind(file, deq, str, k)
           N == Behind(f, d, s, k)
<1>1. IsFiniteSet(B) /\ IsFiniteSet(N)
  BY FiniteBehind
<1>2. N \in SUBSET B
  OBVIOUS
<1> HIDE DEF B, N
<1>3. Cardinality(N) <= Cardinality(B)
  BY <1>1, <1>2, FS_Subset
<1>4. Cardinality(B) \in Nat /\ Cardinality(N) \in Nat
  BY <1>1, FS_CardinalityType
<1>5. Cardinality(B) <= Capacity + 1
  BY DEF FewBehind, B
<1>6. Cardinality(N) <= Capacity + 1
  BY <1>3, <1>4, <1>5, Numbers
<1>7. QED
  BY <1>6 DEF N

(* The lines a new line overtakes are in the queue or the logger's hand. *)
LEMMA NewLineOvertakes ==
  ASSUME PlaceInv, Ordered, NEW f, NEW k, \A i \in k + 1 .. Len(f) : FALSE
  PROVE  Cardinality(Behind(f, deq, str, k)) <= Capacity + 1
<1> DEFINE Q == {deq[i] : i \in 1 .. Len(deq)}
           N == Behind(f, deq, str, k)
<1>1. deq \in Surjection(1 .. Len(deq), Q)
  <2>1. deq \in [1 .. Len(deq) -> Q]
    BY DEF PlaceInv, IInv, TypeOK
  <2>2. QED
    BY <2>1 DEF Surjection
<1>2. IsFiniteSet(1 .. Len(deq)) /\ Cardinality(1 .. Len(deq)) = Len(deq)
  <2>1. Len(deq) \in Nat
    BY Numbers
  <2>2. 1 \in Int /\ Len(deq) \in Int /\ (1 > Len(deq) => Len(deq) = 0)
    BY <2>1
  <2> HIDE <2>1
  <2>3. /\ IsFiniteSet(1 .. Len(deq))
        /\ Cardinality(1 .. Len(deq)) = IF 1 > Len(deq) THEN 0 ELSE Len(deq) - 1 + 1
    BY <2>2, FS_Interval
  <2>4. QED
    BY <2>2, <2>3
<1>3. N \in SUBSET (Q \cup {str})
  BY DEF Behind
<1>4. IsFiniteSet(N)
  BY FiniteBehind
<1> HIDE DEF Q, N
<1>5. IsFiniteSet(Q) /\ Cardinality(Q) <= Len(deq)
  BY <1>1, <1>2, FS_Surjection
<1>6. Cardinality(Q) \in Nat /\ Cardinality(N) \in Nat
  BY <1>4, <1>5, FS_CardinalityType
<1>7. /\ IsFiniteSet(Q \cup {str})
      /\ Cardinality(Q \cup {str}) = IF str \in Q THEN Cardinality(Q) ELSE Cardinality(Q) + 1
  BY <1>5, FS_AddElement
<1>8. Cardinality(N) <= Cardinality(Q \cup {str})
  BY <1>3, <1>7, FS_Subset
<1>9. Cardinality(N) <= Capacity + 1
  BY <1>5, <1>6, <1>7, <1>8, Numbers DEF Ordered
<1>10. QED
  BY <1>9 DEF N
LEMMA Longer ==
  ASSUME NEW n \in Nat, NEW k \in Nat
  PROVE  \A i \in k + 1 .. n + 1 : i \in k + 1 .. n \/ i = n + 1
OBVIOUS

LEMMA FewInv == PlaceInv /\ Ordered /\ FewBehind(file, deq, str) /\ [Next]_vars
                  => FewBehind(file', deq', str')
<1> SUFFICES ASSUME PlaceInv, Ordered, FewBehind(file, deq, str), [Next]_vars
             PROVE  FewBehind(file', deq', str')
  OBVIOUS
<1>1. ASSUME NEW w \in Writer, Push(w) PROVE FewBehind(file', deq', str')
  <2>1. /\ Len(deq') = Len(deq) + 1 /\ deq'[Len(deq) + 1] = line[w]
        /\ \A k \in 1 .. Len(deq) : deq'[k] = deq[k]
    BY <1>1, AtEnd DEF PlaceInv, IInv, TypeOK, HasLine, Writing, Push
  <2>2. \A k \in 1 .. Len(deq') : k \in 1 .. Len(deq) \/ k = Len(deq) + 1
    BY <2>1, Numbers
  <2>3. line[w] = written
    BY <1>1 DEF Ordered, Writing, Push
  <2>4. ASSUME NEW k \in 1 .. Len(file)
        PROVE  Behind(file', deq', str', k) \subseteq Behind(file, deq, str, k)
    <3>1. file[k] <= written /\ file[k] \in Nat
      BY Numbers DEF PlaceInv, Known
    <3>2. \A n \in Lines : n < file[k] => n # line[w]
      BY <2>3, <3>1, Numbers DEF Lines
    <3>3. QED
      BY <1>1, <2>1, <2>2, <3>2 DEF Behind, Push
  <2>5. QED
    BY <1>1, <2>4, StillFew DEF FewBehind, Push
<1>2. ASSUME NEW w \in Writer, Puts(w) PROVE FewBehind(file', deq', str')
  <2>1. /\ Len(file') = Len(file) + 1 /\ file'[Len(file) + 1] = line[w]
        /\ \A k \in 1 .. Len(file) : file'[k] = file[k]
    BY <1>2, AtEnd DEF PlaceInv, IInv, TypeOK, HasLine, Writing, Puts
  <2>2. \A k \in 1 .. Len(file') : k \in 1 .. Len(file) \/ k = Len(file) + 1
    BY <2>1, Numbers
  <2>3. line[w] = written /\ UNCHANGED <<deq, str>>
    BY <1>2 DEF Ordered, Writing, Puts
  <2>4. ASSUME NEW k \in 1 .. Len(file)
        PROVE  Cardinality(Behind(file', deq', str', k)) <= Capacity + 1
    <3>1. file[k] <= written /\ file[k] \in Nat
      BY Numbers DEF PlaceInv, Known
    <3>2. \A n \in Lines : n < file[k] => n # line[w]
      BY <2>3, <3>1, Numbers DEF Lines
    <3>3. \A i \in k + 1 .. Len(file') : i \in k + 1 .. Len(file) \/ i = Len(file) + 1
      <4>1. Len(file') = Len(file) + 1 /\ Len(file) \in Nat /\ k \in Nat
        BY <2>1, Numbers
      <4>2. QED
        BY <4>1, Longer
    <3>4. \A i \in k + 1 .. Len(file) : file'[i] = file[i]
      BY <2>1, Numbers
    <3>5. Behind(file', deq', str', k) \subseteq Behind(file, deq, str, k)
      BY <2>1, <2>3, <3>2, <3>3, <3>4 DEF Behind
    <3>6. QED
      BY <3>5, StillFew
  <2>5. \A i \in Len(file) + 1 + 1 .. Len(file') : FALSE
    BY <2>1, Numbers
  <2>6. Cardinality(Behind(file', deq', str', Len(file) + 1)) <= Capacity + 1
    BY <2>3, <2>5, NewLineOvertakes
  <2>7. QED
    BY <2>2, <2>4, <2>6 DEF FewBehind
<1>3. CASE PopFront
  <2>1. /\ Len(deq) \in Nat \ {0} /\ Len(deq') = Len(deq) - 1 /\ str' = deq[1]
        /\ \A k \in 1 .. Len(deq') : deq'[k] = deq[k + 1]
    BY <1>3, HeadTailProperties DEF PlaceInv, IInv, TypeOK, PopFront
  <2>2. /\ 1 \in 1 .. Len(deq)
        /\ \A k \in 1 .. Len(deq') : k + 1 \in 1 .. Len(deq)
    BY <2>1
  <2>3. ASSUME NEW k \in 1 .. Len(file)
        PROVE  Behind(file', deq', str', k) \subseteq Behind(file, deq, str, k)
    BY <1>3, <2>1, <2>2 DEF Behind, PopFront
  <2>4. QED
    BY <1>3, <2>3, StillFew DEF FewBehind, PopFront
<1>4. CASE LoggerPuts
  <2>1. /\ Len(file') = Len(file) + 1 /\ file'[Len(file) + 1] = str
        /\ \A k \in 1 .. Len(file) : file'[k] = file[k]
        /\ str' = 0 /\ deq' = deq
    BY <1>4, AtEnd DEF PlaceInv, IInv, TypeOK, HasLine, LoggerPuts
  <2>2. \A k \in 1 .. Len(file') : k \in 1 .. Len(file) \/ k = Len(file) + 1
    BY <2>1, Numbers
  <2>3. \A n \in Lines : n # 0
    BY DEF Lines
  <2>4. ASSUME NEW k \in 1 .. Len(file)
        PROVE  Cardinality(Behind(file', deq', str', k)) <= Capacity + 1
    <3>1. \A i \in k + 1 .. Len(file') : i \in k + 1 .. Len(file) \/ i = Len(file) + 1
      <4>1. Len(file') = Len(file) + 1 /\ Len(file) \in Nat /\ k \in Nat
        BY <2>1, Numbers
      <4>2. QED
        BY <4>1, Longer
    <3>2. \A i \in k + 1 .. Len(file) : file'[i] = file[i]
      BY <2>1, Numbers
    <3>3. Behind(file', deq', str', k) \subseteq Behind(file, deq, str, k)
      BY <2>1, <2>3, <3>1, <3>2 DEF Behind
    <3>4. QED
      BY <3>3, StillFew
  <2>5. Behind(file', deq', str', Len(file) + 1) = {}
    <3>1. \A i \in Len(file) + 1 + 1 .. Len(file') : FALSE
      BY <2>1, Numbers
    <3>2. \A i \in 1 .. Len(deq) : ~(deq[i] < str)
      BY Numbers DEF Ordered
    <3>3. QED
      BY <2>1, <2>3, <3>1, <3>2 DEF Behind
  <2>6. Cardinality(Behind(file', deq', str', Len(file) + 1)) <= Capacity + 1
    <3>1. Cardinality(Behind(file', deq', str', Len(file) + 1)) = 0
      BY <2>5, FS_EmptySet
    <3>2. QED
      BY <3>1, Numbers
  <2>7. QED
    BY <2>2, <2>4, <2>6 DEF FewBehind
<1>5. CASE Close
  <2>1. Len(deq') = 0
    BY <1>5 DEF Close
  <2>2. ASSUME NEW k \in 1 .. Len(file)
        PROVE  Behind(file', deq', str', k) \subseteq Behind(file, deq, str, k)
    BY <1>5, <2>1 DEF Behind, Close
  <2>3. QED
    BY <1>5, <2>2, StillFew DEF FewBehind, Close
<1>6. ASSUME UNCHANGED <<file, deq, str>> PROVE FewBehind(file', deq', str')
  BY <1>6
<1>7. QED
  BY <1>1, <1>2, <1>3, <1>4, <1>5, <1>6
  DEF Next, WriterStep, LoggerStep, Destructor, Write, CheckFull, Flush, FlushQueue, PopWaits,
      LoggerExit, SpuriousWake, Destroy, Drain, NotifyAll, Join, LockFile, vars

(* No line is in the file twice. *)
LEMMA FileOnce ==
  ASSUME PlaceInv, NEW i \in 1 .. Len(file), NEW k \in 1 .. Len(file), file[i] = file[k]
  PROVE  i = k
<1>1. file[k] \in 1 .. written
  BY Numbers DEF PlaceInv, Known
<1>2. PICK q : OnlyHolds(file, deq, line, str, file[k], q)
  BY <1>1, OneNow DEF PlaceInv
<1>3. q = <<"file", i>> /\ q = <<"file", k>>
  BY <1>2, Only
<1>4. QED
  BY <1>3

(* A line that finds the queue full is written at once: at most the whole  *)
(* queue and the line in the logger's hand come after it although they are *)
(* older, whatever the number of threads and the capacity of the queue.    *)
THEOREM FewOvertaken == Spec => []BoundedOvertaking
<1>1. ASSUME PlaceInv, FewBehind(file, deq, str), NEW k \in 1 .. Len(file)
      PROVE  Cardinality(Overtaken(k)) <= Capacity + 1
  <2> DEFINE O == Overtaken(k)
             B == Behind(file, deq, str, k)
             f == [j \in O |-> file[j]]
  <2>1. \A j \in O : j \in 1 .. Len(file)
    BY <1>1, Numbers DEF Overtaken
  <2>2. \A j \in O : file[j] \in B
    BY <1>1, <2>1, Numbers DEF Overtaken, Behind
  <2>3. f \in Injection(O, B)
    <3>1. \A i, j \in O : f[i] = f[j] => i = j
      BY <1>1, <2>1, FileOnce
    <3>2. f \in [O -> B]
      BY <2>2
    <3>3. DOMAIN f = O
      OBVIOUS
    <3> HIDE DEF O, B, f
    <3>4. QED
      BY <3>1, <3>2, <3>3 DEF Injection, IsInjective
  <2>4. IsFiniteSet(B)
    BY FiniteBehind
  <2>5. Cardinality(B) <= Capacity + 1
    BY <1>1 DEF FewBehind
  <2> HIDE DEF O, B, f
  <2>6. IsFiniteSet(O) /\ Cardinality(O) <= Cardinality(B)
    BY <2>3, <2>4, FS_Injection
  <2>7. Cardinality(O) \in Nat /\ Cardinality(B) \in Nat
    BY <2>4, <2>6, FS_CardinalityType
  <2>8. Cardinality(O) <= Capacity + 1
    BY <1>1, <2>5, <2>6, <2>7, Numbers
  <2>9. QED
    BY <2>8 DEF O
<1>2. OvertakeInv => BoundedOvertaking
  BY <1>1 DEF OvertakeInv, BoundedOvertaking
<1>3. OvertakeInv /\ PlaceInv' /\ [Next]_vars => OvertakeInv'
  BY OrderedInv, FewInv DEF OvertakeInv, FewBehind, Behind
<1>4. QED
  BY OvertakeInit, <1>2, <1>3, PlaceInvariance, PTL DEF Spec
=============================================================================

------------------------ MODULE ProcessDriver_proofs ------------------------
(***************************************************************************)
(* Theorems about ProcessDriver, for every set of versions, any currents   *)
(* and any number of jobs, starts and faults.                              *)
(***************************************************************************)
EXTENDS ProcessDriver, SequenceTheorems, TLAPS

-----------------------------------------------------------------------------
(* Type correctness. *)

\* A worker with a job to run has it at the head of its queue.
HasItsJob ==
    worker.pc \in {"mark", "run"} => jobs # <<>> /\ Head(jobs).kind = "job"

TypeInv == TypeOK /\ HasItsJob

LEMMA FileType == SharedInit => SharedTypeOK /\ file.text \in Versions
<1>1. SharedInit => /\ file \in [text : Texts, at : Nat, ino : Nat]
                    /\ file.text \in Versions
  BY DEF SharedInit, Texts
<1> QED
  BY <1>1, TextsDiffer DEF SharedInit, SharedTypeOK, Texts, Stamp

\* What the writers do to the file keeps its shape.
LEMMA FileStep == SharedTypeOK /\ SharedNext => SharedTypeOK'
<1> SUFFICES ASSUME SharedTypeOK, SharedNext PROVE SharedTypeOK'
  OBVIOUS
<1>1. CASE Write
  <2>1. file' \in [text : Texts \ {Gone}, at : Nat, ino : Nat]
    BY <1>1, TimesAndInodesAreNat DEF Write
  <2> QED
    BY <1>1, <2>1 DEF Write, Noted, Stamp, SharedTypeOK, Texts
<1>2. CASE PutBack
  BY <1>2, TimesAndInodesAreNat DEF PutBack, SharedTypeOK
<1>3. CASE Vanish
  BY <1>3 DEF Vanish, SharedTypeOK, Texts
<1> QED
  BY <1>1, <1>2, <1>3 DEF SharedNext

LEMMA SignatureType == SharedTypeOK => Signature(file) \in Signatures
  BY DEF SharedTypeOK, Signature, Signatures, Unread

\* A worker that starts, or that has ended, holds some version of the device.
LEMMA IdleType ==
  ASSUME NEW v \in Versions, NEW pc \in {"off", "boot", "exited"}
  PROVE  Idle(pc) \in Workers /\ Idle(pc).pc = pc
<1>1. (CHOOSE w \in Versions : TRUE) \in Versions
  OBVIOUS
<1>2. Unread \in Signatures
  BY DEF Unread, Signatures
<1> QED
  BY <1>1, <1>2 DEF Idle, Workers

LEMMA TypeInit == Init => TypeInv
<1> SUFFICES ASSUME Init PROVE TypeInv
  OBVIOUS
<1>1. worker \in Workers /\ worker.pc = "off"
  BY FileType, IdleType DEF Init
<1>2. spent \in Counts
  BY DEF Init, Counts
<1> QED
  BY <1>1, <1>2, FileType DEF Init, TypeInv, TypeOK, HasItsJob

\* A use is counted.
LEMMA Used ==
  ASSUME spent \in Counts, NEW what \in {"jobs", "starts", "faults"}, NEW max, Use(what, max)
  PROVE  spent' \in Counts
  BY DEF Counts, Use

\* The two ends of a queue.
LEMMA Appended ==
  ASSUME NEW S, NEW q \in Seq(S), NEW x \in S
  PROVE  /\ Append(q, x) \in Seq(S) /\ Append(q, x) # <<>>
         /\ Len(Append(q, x)) = Len(q) + 1 /\ Len(q) \in Nat
         /\ \A i \in 1 .. Len(q) : Append(q, x)[i] = q[i]
         /\ Append(q, x)[Len(q) + 1] = x
         /\ q # <<>> => Head(Append(q, x)) = Head(q)
<1>1. /\ Append(q, x) \in Seq(S) /\ Append(q, x) # <<>>
      /\ Len(Append(q, x)) = Len(q) + 1 /\ Len(q) \in Nat
      /\ \A i \in 1 .. Len(q) : Append(q, x)[i] = q[i]
      /\ Append(q, x)[Len(q) + 1] = x
  BY AppendProperties, LenProperties
<1>2. q # <<>> => Head(Append(q, x)) = Head(q)
  <2>1. ASSUME q # <<>> PROVE 1 \in 1 .. Len(q)
    BY <2>1, EmptySeq, LenProperties
  <2> QED
    BY <1>1, <2>1, HeadTailProperties
<1> QED
  BY <1>1, <1>2

LEMMA ItemType ==
  /\ Stop \in Items
  /\ Item("init", InitError) \in Items
  /\ \A job \in Numbers : Item("job", job) \in Items
  BY DriverBoundsAreNat DEF Stop, Item, Items, Numbers, InitError, Pill

\* The worker goes on, with what it holds, has read or has seen.
LEMMA WorkerGoesOn ==
  ASSUME NEW w \in Workers,
         NEW pc \in {"off", "boot", "load", "park", "idle", "mark", "run", "exited"}
  PROVE  [w EXCEPT !.pc = pc] \in Workers /\ [w EXCEPT !.pc = pc].pc = pc
  BY DEF Workers

\* A step of the worker has its type when what it changes does.
LEMMA WorkerType ==
  ASSUME TypeInv, UNCHANGED <<sharedVars, main, pump, taken, answered>>,
         worker' \in Workers, rack' \in Nat, spent' \in Counts,
         jobs' \in Seq(Items), results' \in Seq(Items), HasItsJob'
  PROVE  TypeInv'
  BY DEF TypeInv, TypeOK, SharedTypeOK, sharedVars

\* A reading leaves the worker with a version and the file's signature.
LEMMA WorkerReads ==
  ASSUME worker \in Workers, Signature(file) \in Signatures,
         NEW pc \in {"park", "mark"}, NEW versions, versions \subseteq Versions,
         ReadInto(pc, versions)
  PROVE  /\ worker' \in Workers /\ worker'.pc = pc
         /\ worker'.mem \in versions /\ worker'.read = Signature(file)
<1>1. PICK v \in versions :
          worker' = [worker EXCEPT !.pc = pc, !.mem = v, !.read = Signature(file)]
  BY DEF ReadInto
<1> QED
  BY <1>1 DEF Workers

LEMMA ReadingsAreVersions == \A text : Readings(text) \subseteq Versions
  BY DEF Readings, Loads

LEMMA TypeWorker == TypeInv /\ WorkerNext => TypeInv'
<1> SUFFICES ASSUME TypeInv, WorkerNext PROVE TypeInv'
  OBVIOUS
<1>0. /\ worker \in Workers /\ rack \in Nat /\ spent \in Counts /\ HasItsJob
      /\ jobs \in Seq(Items) /\ results \in Seq(Items)
      /\ worker.mem \in Versions /\ file \in [text : Texts, at : Nat, ino : Nat]
      /\ Signature(file) \in Signatures
  BY SignatureType DEF TypeInv, TypeOK, Workers, SharedTypeOK
<1>a. \A v \in Versions : \A source : Parked(v, source) \in Nat
  BY <1>0, AmpsAreNat DEF Parked
<1>b. Smooth \/ Fault => spent' \in Counts
  BY <1>0, Used DEF Smooth, Fault
<1>1. CASE WorkerWatches
  <2>1. worker' \in Workers /\ worker'.pc = "load"
    BY <1>0, <1>1 DEF WorkerWatches, Workers
  <2> QED
    BY <1>0, <1>1, <1>b, <2>1, WorkerType DEF WorkerWatches, WorkerStep, HasItsJob
<1>2. CASE WorkerLoads
  <2>1. worker' \in Workers /\ worker'.pc = "park"
    BY <1>0, <1>2, WorkerReads, ReadingsAreVersions DEF WorkerLoads
  <2> QED
    BY <1>0, <1>2, <1>b, <2>1, WorkerType DEF WorkerLoads, WorkerStep, HasItsJob
<1>3. CASE ExecutorFails
  <2>1. worker' \in Workers /\ worker'.pc = "exited"
    BY <1>0, <1>3, IdleType DEF ExecutorFails
  <2>2. results' \in Seq(Items)
    BY <1>0, <1>3, ItemType, Appended DEF ExecutorFails
  <2>3. spent' \in Counts
    BY <1>3, <1>b DEF ExecutorFails
  <2> QED
    BY <1>0, <1>3, <2>1, <2>2, <2>3, WorkerType DEF ExecutorFails, WorkerStep, HasItsJob
<1>4. CASE ParkCouplers
  <2>1. worker' \in Workers /\ worker'.pc = "idle"
    BY <1>0, <1>4 DEF ParkCouplers, Source, Workers
  <2>2. rack' \in Nat
    BY <1>0, <1>4, <1>a DEF ParkCouplers, WorkerStep
  <2> QED
    BY <1>0, <1>4, <1>b, <2>1, <2>2, WorkerType DEF ParkCouplers, WorkerStep, HasItsJob
<1>5. CASE ParkingFails
  <2>1. worker' \in Workers /\ worker'.pc = "idle"
    BY <1>0, <1>5, WorkerGoesOn DEF ParkingFails
  <2> QED
    BY <1>0, <1>5, <1>b, <2>1, WorkerType DEF ParkingFails, WorkerStep, HasItsJob
<1>6. CASE TakeJob
  <2>1. worker' \in Workers /\ HasItsJob'
    BY <1>0, <1>6, WorkerGoesOn DEF TakeJob, HasJob, HasItsJob
  <2> QED
    BY <1>0, <1>6, <1>b, <2>1, WorkerType DEF TakeJob, WorkerStep
<1>7. CASE Reload
  <2>0. worker' \in Workers /\ worker'.pc = "mark"
    BY <1>0, <1>7, WorkerReads, ReadingsAreVersions DEF Reload
  <2>1. HasItsJob'
    BY <1>7, <2>0 DEF Reload, HasJob, HasItsJob
  <2>2. rack' \in Nat /\ spent' \in Counts
    <3>1. worker'.mem \in Versions
      BY <2>0 DEF Workers
    <3> QED
      BY <1>0, <1>7, <1>a, <1>b, <3>1 DEF Reload, WorkerStep
  <2> QED
    BY <1>0, <1>7, <2>0, <2>1, <2>2, WorkerType DEF Reload, WorkerStep
<1>8. CASE ReloadFails
  <2>1. worker' \in Workers /\ worker'.pc = "mark"
    BY <1>0, <1>8, WorkerReads, ReadingsAreVersions DEF ReloadFails
  <2>2. HasItsJob'
    BY <1>8, <2>1 DEF ReloadFails, HasJob, HasItsJob
  <2> QED
    BY <1>0, <1>8, <1>b, <2>1, <2>2, WorkerType DEF ReloadFails, WorkerStep
<1>9. CASE MarkRead
  <2>1. worker' \in Workers /\ HasItsJob'
    BY <1>0, <1>9 DEF MarkRead, Workers, HasItsJob
  <2> QED
    BY <1>0, <1>9, <1>b, <2>1, WorkerType DEF MarkRead, WorkerStep
<1>10. CASE RunJob
  <2>1. worker' \in Workers /\ worker'.pc = "idle"
    BY <1>0, <1>10, WorkerGoesOn DEF RunJob, Answer
  <2>2. jobs # <<>> /\ Head(jobs) \in Items /\ Tail(jobs) \in Seq(Items)
    BY <1>0, <1>10, HeadTailProperties DEF RunJob, HasItsJob
  <2>3. Result \in Items
    BY <2>2, ItemType DEF Result, Items
  <2>4. results' \in Seq(Items)
    BY <1>0, <1>10, <2>3, AppendIsConcat, AppendProperties DEF RunJob, Answer
  <2> QED
    BY <1>0, <1>10, <1>b, <2>1, <2>2, <2>4, WorkerType DEF RunJob, Answer, WorkerStep, HasItsJob
<1>11. CASE TakePill
  <2>1. worker' \in Workers /\ worker'.pc = "exited"
    BY <1>0, <1>11, IdleType DEF TakePill
  <2>2. Tail(jobs) \in Seq(Items)
    BY <1>0, <1>11, HeadTailProperties DEF TakePill
  <2> QED
    BY <1>0, <1>11, <1>b, <2>1, <2>2, WorkerType DEF TakePill, WorkerStep, HasItsJob
<1> QED
  BY <1>1, <1>2, <1>3, <1>4, <1>5, <1>6, <1>7, <1>8, <1>9, <1>10, <1>11 DEF WorkerNext

LEMMA TypeRest == TypeInv /\ (MainNext \/ PumpNext) => TypeInv'
<1> SUFFICES ASSUME TypeInv, MainNext \/ PumpNext PROVE TypeInv'
  OBVIOUS
<1> USE DEF TypeInv, TypeOK, sharedVars
<1>0. /\ worker \in Workers /\ spent \in Counts /\ jobs \in Seq(Items)
      /\ results \in Seq(Items) /\ worker.mem \in Versions /\ SharedTypeOK
      /\ taken \in Seq(Numbers) /\ answered \in Seq(Numbers)
      /\ HasItsJob
  BY DEF Workers
<1>a. UNCHANGED <<file, past>> => SharedTypeOK'
  BY DEF SharedTypeOK
<1>1. CASE StartDriver
  <2>1. worker' \in Workers /\ worker'.pc = "boot"
    BY <1>0, <1>1, IdleType DEF StartDriver
  <2>2. spent' \in Counts
    BY <1>0, <1>1, Used DEF StartDriver
  <2> QED
    BY <1>a, <1>1, <2>1, <2>2 DEF StartDriver, HasItsJob
<1>2. CASE Receive
  <2>1. spent' \in Counts
    BY <1>0, <1>2, Used DEF Receive
  <2>2. spent.jobs + 1 \in Numbers
    BY <1>0, <1>2, DriverBoundsAreNat DEF Receive, Use, Counts, Numbers
  <2>3. /\ jobs' \in Seq(Items) /\ jobs' # <<>>
        /\ jobs # <<>> => Head(jobs') = Head(jobs)
    BY <1>0, <1>2, <2>2, ItemType, Appended DEF Receive
  <2>4. taken' \in Seq(Numbers)
    BY <1>0, <1>2, <2>2, AppendProperties DEF Receive
  <2> QED
    BY <1>a, <1>0, <1>2, <2>1, <2>3, <2>4 DEF Receive, HasItsJob
<1>3. CASE PutPills
  <2>1. /\ jobs' \in Seq(Items) /\ jobs' # <<>>
        /\ jobs # <<>> => Head(jobs') = Head(jobs)
        /\ results' \in Seq(Items)
    BY <1>0, <1>3, ItemType, Appended DEF PutPills
  <2> QED
    BY <1>a, <1>0, <1>3, <2>1 DEF PutPills, HasItsJob
<1>4. CASE JoinWorker
  <2>1. worker' \in Workers /\ worker'.pc = "exited"
    BY <1>0, <1>4, IdleType DEF JoinWorker
  <2> QED
    BY <1>a, <1>4, <2>1 DEF JoinWorker, HasItsJob
<1>5. CASE CloseSocket
  <2>1. worker' \in Workers /\ worker'.pc = "off"
    BY <1>0, <1>5, IdleType DEF CloseSocket
  <2> QED
    BY <1>a, <1>5, <2>1 DEF CloseSocket, HasItsJob
<1>6. CASE PumpResult
  <2>1. Head(results) \in Items /\ Tail(results) \in Seq(Items)
    BY <1>0, <1>6, HeadTailProperties DEF PumpResult
  <2>2. answered' \in Seq(Numbers)
    BY <1>0, <1>6, <2>1, AppendProperties DEF PumpResult, Items
  <2> QED
    BY <1>a, <1>6, <2>1, <2>2 DEF PumpResult, HasItsJob
<1>7. CASE EmitRaises
  <2>1. Tail(results) \in Seq(Items)
    BY <1>0, <1>7, HeadTailProperties DEF EmitRaises
  <2>2. spent' \in Counts
    BY <1>0, <1>7, Used DEF EmitRaises, Fault
  <2> QED
    BY <1>a, <1>7, <2>1, <2>2 DEF EmitRaises, HasItsJob
<1> QED
  BY <1>1, <1>2, <1>3, <1>4, <1>5, <1>6, <1>7 DEF MainNext, PumpNext

LEMMA TypeStep == TypeInv /\ [Next]_vars => TypeInv'
<1>1. TypeInv /\ SharedNext /\ UNCHANGED driverVars => TypeInv'
  BY FileStep DEF TypeInv, TypeOK, HasItsJob, driverVars
<1>2. TypeInv /\ UNCHANGED vars => TypeInv'
  BY DEF TypeInv, TypeOK, SharedTypeOK, HasItsJob, vars, sharedVars, driverVars
<1> QED
  BY <1>1, <1>2, TypeWorker, TypeRest DEF Next, DriverNext

\* The queues, the worker, the rack and the file have their types, for any number of
\* jobs, starts and faults.
THEOREM TypeCorrect == Spec => []TypeOK
<1>1. TypeInv => TypeOK
  BY DEF TypeInv
<1> QED
  BY <1>1, TypeInit, TypeStep, PTL DEF Spec

-----------------------------------------------------------------------------
(* A signature vouches for one content. *)

\* Whatever the file says it has said at its time, and nothing else at that time.
OneTextPerTime ==
    /\ file.text # Gone => Stamp(file) \in past
    /\ \A a, b \in past : a.at = b.at => a.text = b.text

\* What the worker read is of the past, with the time it read it at: what it holds,
\* or a text that did not say what it holds.
ReadIsOfThePast ==
    worker.pc \in {"park", "idle", "mark", "run"}
      => \E text \in {worker.mem, Torn} :
            [text |-> text, at |-> worker.read.at] \in past

VouchInv == TypeInv /\ OneTextPerTime /\ ReadIsOfThePast

LEMMA FilePast == SharedInit => OneTextPerTime
  BY DEF SharedInit, OneTextPerTime, Stamp

LEMMA FilePastStep ==
  ASSUME SharedTypeOK, OneTextPerTime, SharedNext
  PROVE  OneTextPerTime' /\ past \subseteq past'
<1>1. CASE Write
  <2>1. past' = past \cup {Stamp(file)'} /\ \A old \in past : old.at # file'.at
    BY <1>1 DEF Write, Noted
  <2>2. Stamp(file)'.at = file'.at
    BY DEF Stamp
  <2> QED
    BY <2>1, <2>2 DEF OneTextPerTime
<1>2. CASE PutBack
  <2>1. PICK old \in past : file' \in [text : {old.text}, at : {old.at}, ino : Inodes]
    BY <1>2 DEF PutBack
  <2>2. Stamp(file)' = [text |-> old.text, at |-> old.at] /\ UNCHANGED past
    BY <1>2, <2>1 DEF PutBack, Stamp
  <2>3. old = [text |-> old.text, at |-> old.at]
    BY <2>1 DEF SharedTypeOK
  <2> QED
    BY <2>2, <2>3 DEF OneTextPerTime
<1>3. CASE Vanish
  <2>1. file'.text = Gone /\ UNCHANGED past
    BY <1>3 DEF Vanish, SharedTypeOK
  <2> QED
    BY <2>1 DEF OneTextPerTime
<1> QED
  BY <1>1, <1>2, <1>3 DEF SharedNext

LEMMA VouchInit == Init => VouchInv
<1>1. Init => worker.pc = "off"
  BY DEF Init, Idle
<1> QED
  BY <1>1, TypeInit, FilePast DEF Init, VouchInv, ReadIsOfThePast

\* What a file that is there says, it says at its time.
LEMMA ReadOfThePast ==
  ASSUME OneTextPerTime, file.text # Gone
  PROVE  [text |-> file.text, at |-> Signature(file).at] \in past
  BY DEF OneTextPerTime, Signature, Stamp

\* A reading gives what the file says, or the file is part-written.
LEMMA ReadingIsOfTheText ==
  ASSUME SharedTypeOK, NEW v \in Readings(file.text)
  PROVE  file.text # Gone /\ (v = file.text \/ file.text = Torn)
  BY TextsDiffer DEF Readings, Loads

LEMMA VouchStep == VouchInv /\ [Next]_vars => VouchInv'
<1> SUFFICES ASSUME VouchInv, [Next]_vars PROVE OneTextPerTime' /\ ReadIsOfThePast'
  BY TypeStep DEF VouchInv
<1>0. /\ worker \in Workers /\ SharedTypeOK /\ OneTextPerTime /\ ReadIsOfThePast
  BY DEF VouchInv, TypeInv, TypeOK
<1>a. UNCHANGED <<file, past>> => OneTextPerTime'
  BY <1>0 DEF OneTextPerTime, Stamp
<1>b. ASSUME UNCHANGED <<past, worker>> PROVE ReadIsOfThePast'
  BY <1>0, <1>b DEF ReadIsOfThePast
<1>c. \A pc \in {"off", "boot", "exited"} : Idle(pc).pc = pc
  BY DEF Idle
<1>1. CASE SharedNext /\ UNCHANGED driverVars
  <2>1. OneTextPerTime' /\ past \subseteq past' /\ worker' = worker
    BY <1>0, <1>1, FilePastStep DEF driverVars
  <2> QED
    BY <1>0, <2>1 DEF ReadIsOfThePast
<1>2. CASE StartDriver \/ JoinWorker \/ CloseSocket
  <2>1. worker'.pc \in {"off", "boot", "exited"} /\ UNCHANGED <<file, past>>
    BY <1>2, <1>c DEF StartDriver, JoinWorker, CloseSocket, sharedVars
  <2> QED
    BY <1>a, <2>1 DEF ReadIsOfThePast
<1>3. CASE Receive \/ PutPills \/ PumpNext
  BY <1>a, <1>b, <1>3 DEF Receive, PutPills, PumpNext, PumpResult, EmitRaises, sharedVars
<1>4. CASE WorkerNext
  <2>1. UNCHANGED <<file, past>>
    BY <1>4 DEF WorkerNext, WorkerWatches, WorkerLoads, ExecutorFails, ParkCouplers,
                ParkingFails, TakeJob, Reload, ReloadFails, MarkRead, RunJob, TakePill,
                Answer, WorkerStep, sharedVars
  <2>2. CASE WorkerWatches \/ ExecutorFails \/ TakePill
    <3>1. worker'.pc \in {"load", "exited"}
      BY <1>0, <1>c, <2>2 DEF WorkerWatches, ExecutorFails, TakePill, Workers
    <3> QED
      BY <1>a, <2>1, <3>1 DEF ReadIsOfThePast
  <2>3. CASE WorkerLoads \/ Reload \/ ReloadFails
    <3>1. /\ worker'.read = Signature(file) /\ file.text # Gone
          /\ worker'.mem = file.text \/ file.text = Torn
      <4>0. Signature(file) \in Signatures /\ worker.mem \in Versions
        BY <1>0, SignatureType DEF SharedTypeOK, Workers
      <4>1. CASE WorkerLoads \/ Reload
        BY <1>0, <4>0, <4>1, WorkerReads, ReadingsAreVersions, ReadingIsOfTheText
           DEF WorkerLoads, Reload
      <4>2. CASE ReloadFails
        <5>1. file.text = Torn
          BY <1>0, <4>2 DEF ReloadFails, Changed, Loads, SharedTypeOK, Texts
        <5>2. worker'.read = Signature(file)
          BY <1>0, <4>0, <4>2, WorkerReads, ReadingsAreVersions DEF ReloadFails
        <5> QED
          BY <5>1, <5>2, TextsDiffer
      <4> QED
        BY <2>3, <4>1, <4>2
    <3>2. [text |-> file.text, at |-> worker'.read.at] \in past'
      BY <1>0, <2>1, <3>1, ReadOfThePast
    <3>3. file.text \in {worker'.mem, Torn}
      BY <3>1
    <3> QED
      BY <1>a, <2>1, <3>2, <3>3 DEF ReadIsOfThePast
  <2>4. CASE ParkCouplers \/ ParkingFails \/ TakeJob \/ MarkRead \/ RunJob
    <3>1. /\ worker'.mem = worker.mem /\ worker'.read = worker.read
          /\ worker.pc \in {"park", "idle", "mark", "run"}
      BY <1>0, <2>4 DEF ParkCouplers, ParkingFails, TakeJob, MarkRead, RunJob,
                        Answer, HasJob, Workers
    <3> QED
      BY <1>0, <1>a, <2>1, <3>1 DEF ReadIsOfThePast
  <2> QED
    BY <1>4, <2>2, <2>3, <2>4 DEF WorkerNext
<1>5. CASE UNCHANGED vars
  BY <1>a, <1>b, <1>5 DEF vars, sharedVars, driverVars
<1> QED
  BY <1>1, <1>2, <1>3, <1>4, <1>5 DEF Next, DriverNext, MainNext

\* While the file bears the signature the worker read, the worker's device is the
\* file's: the watcher misses nothing by comparing times and inodes alone, whatever
\* is written, restored or removed, for any number of versions (ConfigFile).
THEOREM SignatureIsEnough == Spec => []SignatureVouches
<1>1. VouchInv => SignatureVouches
  <2> SUFFICES ASSUME VouchInv, worker.pc \in {"park", "idle", "mark", "run"},
                      worker.read = Signature(file), Loads(file.text)
               PROVE  worker.mem = file.text
    BY DEF SignatureVouches
  <2>1. [text |-> file.text, at |-> worker.read.at] \in past
    BY ReadOfThePast, TextsDiffer DEF VouchInv, Loads
  <2>2. PICK text \in {worker.mem, Torn} : [text |-> text, at |-> worker.read.at] \in past
    BY DEF VouchInv, ReadIsOfThePast
  <2>3. text = file.text
    BY <2>1, <2>2 DEF VouchInv, OneTextPerTime
  <2> QED
    BY <2>2, <2>3, TextsDiffer DEF Loads
<1> QED
  BY <1>1, VouchInit, VouchStep, PTL DEF Spec

-----------------------------------------------------------------------------
(* Results leave in the order the jobs came. *)

\* While the driver serves, what it took is what it has answered, then what it has
\* results for, then what it has still to run.
QueuesInOrder ==
    main = "serving" /\ pump = "on" /\ worker.pc # "exited" =>
        /\ Len(answered) + Len(results) + Len(jobs) = Len(taken)
        /\ \A k \in 1 .. Len(results) : results[k] = Item("job", taken[Len(answered) + k])
        /\ \A k \in 1 .. Len(jobs) :
              jobs[k] = Item("job", taken[Len(answered) + Len(results) + k])

\* The results before the pill are the next answers, whoever still runs.
ResultsInOrder ==
    pump = "on" =>
        \A k \in 1 .. Len(results) :
            results[k].kind = "job" /\ (\A j \in 1 .. k - 1 : results[j].kind # Pill) =>
                /\ Len(answered) + k <= Len(taken)
                /\ results[k].job = taken[Len(answered) + k]

\* A driver that stops has sent the pill behind its results.
PillIsSent ==
    /\ main \in {"joining", "closing"} /\ pump = "on" =>
         \E j \in 1 .. Len(results) : results[j].kind = Pill
    /\ main = "off" => pump = "off"

\* A worker that did not come up leaves no results of jobs.
NothingFromNobody ==
    /\ \A k \in 1 .. Len(results) : results[k].kind = "init" => worker.pc = "exited"
    /\ worker.pc \in {"boot", "load"} \/ (\E k \in 1 .. Len(results) : results[k].kind = "init") =>
         \A k \in 1 .. Len(results) : results[k].kind # "job"

OrderParts ==
    QueuesInOrder /\ ResultsInOrder /\ PillIsSent /\ NothingFromNobody /\ AnswersComeInOrder

OrderInv == TypeInv /\ OrderParts

LEMMA OrderInit == Init => OrderParts
<1>1. Init => worker.pc = "off"
  BY DEF Init, Idle
<1> QED
  BY <1>1 DEF Init, OrderParts, QueuesInOrder, ResultsInOrder, PillIsSent,
              NothingFromNobody, AnswersComeInOrder

\* A step that leaves the queues, the main thread and the pump where they are.
LEMMA OrderFrame ==
  ASSUME OrderParts, UNCHANGED <<main, jobs, results, pump, taken, answered>>,
         worker'.pc = "exited" <=> worker.pc = "exited",
         worker'.pc \in {"boot", "load"} => worker.pc \in {"boot", "load"}
  PROVE  OrderParts'
  BY DEF OrderParts, QueuesInOrder, ResultsInOrder, PillIsSent, NothingFromNobody,
         AnswersComeInOrder

\* What the sequences hold.
LEMMA QueueTypes ==
  ASSUME TypeInv
  PROVE  /\ jobs \in Seq(Items) /\ results \in Seq(Items)
         /\ taken \in Seq(Numbers) /\ answered \in Seq(Numbers)
         /\ Len(jobs) \in Nat /\ Len(results) \in Nat
         /\ Len(taken) \in Nat /\ Len(answered) \in Nat
         /\ \A k \in 1 .. Len(results) : results[k] \in Items
  BY LenProperties, ElementOfSeq DEF TypeInv, TypeOK

LEMMA FirstOf ==
  ASSUME NEW S, NEW q \in Seq(S), q # <<>>
  PROVE  /\ Head(q) = q[1] /\ 1 \in 1 .. Len(q) /\ Len(q) \in Nat
         /\ Tail(q) \in Seq(S) /\ Len(Tail(q)) = Len(q) - 1
         /\ \A i \in 1 .. Len(q) - 1 : Tail(q)[i] = q[i + 1]
  BY HeadTailProperties, EmptySeq, LenProperties

LEMMA ReceiveOrder == OrderInv /\ Receive => OrderParts'
<1> SUFFICES ASSUME OrderInv, Receive PROVE OrderParts'
  OBVIOUS
<1> DEFINE job == spent.jobs + 1
<1>1. job \in Numbers /\ Item("job", job) \in Items
  <2>1. spent \in Counts
    BY DEF OrderInv, TypeInv, TypeOK
  <2>2. job \in Numbers
    BY <2>1, DriverBoundsAreNat DEF Receive, Use, Counts, Numbers
  <2> QED
    BY <2>2, ItemType
<1>2. /\ jobs' = Append(jobs, Item("job", job)) /\ taken' = Append(taken, job)
      /\ UNCHANGED <<main, results, worker, pump, answered>>
  BY DEF Receive
<1> HIDE DEF job
<1>3. /\ Len(jobs') = Len(jobs) + 1 /\ Len(taken') = Len(taken) + 1
      /\ \A k \in 1 .. Len(jobs) : jobs'[k] = jobs[k]
      /\ \A k \in 1 .. Len(taken) : taken'[k] = taken[k]
      /\ jobs'[Len(jobs) + 1] = Item("job", job) /\ taken'[Len(taken) + 1] = job
  BY <1>1, <1>2, QueueTypes, AppendProperties DEF OrderInv
<1>4. /\ Len(jobs) \in Nat /\ Len(results) \in Nat
      /\ Len(taken) \in Nat /\ Len(answered) \in Nat
  BY QueueTypes DEF OrderInv
<1>5. QueuesInOrder'
  <2> SUFFICES ASSUME main = "serving", pump = "on", worker.pc # "exited"
               PROVE  /\ Len(answered) + Len(results) + Len(jobs') = Len(taken')
                      /\ \A k \in 1 .. Len(results) :
                            results[k] = Item("job", taken'[Len(answered) + k])
                      /\ \A k \in 1 .. Len(jobs') :
                            jobs'[k] = Item("job", taken'[Len(answered) + Len(results) + k])
    BY <1>2 DEF QueuesInOrder
  <2>1. /\ Len(answered) + Len(results) + Len(jobs) = Len(taken)
        /\ \A k \in 1 .. Len(results) : results[k] = Item("job", taken[Len(answered) + k])
        /\ \A k \in 1 .. Len(jobs) :
              jobs[k] = Item("job", taken[Len(answered) + Len(results) + k])
    BY DEF OrderInv, OrderParts, QueuesInOrder
  <2>2. \A k \in 1 .. Len(results) : Len(answered) + k \in 1 .. Len(taken)
    BY <1>4, <2>1
  <2>3. ASSUME NEW k \in 1 .. Len(jobs')
        PROVE  jobs'[k] = Item("job", taken'[Len(answered) + Len(results) + k])
    <3>1. CASE k \in 1 .. Len(jobs)
      <4>1. Len(answered) + Len(results) + k \in 1 .. Len(taken)
        BY <1>4, <2>1, <3>1
      <4> QED
        BY <1>3, <2>1, <3>1, <4>1
    <3>2. CASE k = Len(jobs) + 1
      <4>1. taken'[Len(answered) + Len(results) + k] = job
        <5>1. Len(answered) + Len(results) + k = Len(taken) + 1
          <6>1. Len(answered) + Len(results) + Len(jobs) = Len(taken)
            BY <2>1
          <6>2. \A a, r, j, t \in Nat : a + r + j = t => a + r + (j + 1) = t + 1
            OBVIOUS
          <6> QED
            BY <1>4, <3>2, <6>1, <6>2
        <5>2. taken'[Len(taken) + 1] = job
          BY <1>3
        <5> QED
          BY <5>1, <5>2, Zenon
      <4>2. jobs'[k] = Item("job", job)
        BY <1>3, <3>2
      <4> QED
        BY <4>1, <4>2
    <3> QED
      BY <1>3, <1>4, <3>1, <3>2
  <2>4. Len(answered) + Len(results) + Len(jobs') = Len(taken')
    BY <1>3, <1>4, <2>1
  <2>5. ASSUME NEW k \in 1 .. Len(results)
        PROVE  results[k] = Item("job", taken'[Len(answered) + k])
    <3>1. taken'[Len(answered) + k] = taken[Len(answered) + k]
      BY <1>3, <2>2
    <3> QED
      BY <2>1, <3>1
  <2> QED
    BY <2>3, <2>4, <2>5
<1>6. ResultsInOrder'
  <2>1. ASSUME NEW k \in 1 .. Len(results), Len(answered) + k <= Len(taken)
        PROVE  /\ Len(answered) + k <= Len(taken')
               /\ taken'[Len(answered) + k] = taken[Len(answered) + k]
    BY <1>3, <1>4, <2>1
  <2> QED
    BY <1>2, <2>1 DEF OrderInv, OrderParts, ResultsInOrder
<1>7. PillIsSent' /\ NothingFromNobody'
  BY <1>2 DEF OrderInv, OrderParts, PillIsSent, NothingFromNobody
<1>8. AnswersComeInOrder'
  BY <1>2, <1>3, <1>4 DEF OrderInv, OrderParts, AnswersComeInOrder
<1> QED
  BY <1>5, <1>6, <1>7, <1>8 DEF OrderParts

LEMMA PutPillsOrder == OrderInv /\ PutPills => OrderParts'
<1> SUFFICES ASSUME OrderInv, PutPills PROVE OrderParts'
  OBVIOUS
<1>1. /\ main' = "joining" /\ results' = Append(results, Stop)
      /\ UNCHANGED <<worker, pump, taken, answered>>
  BY DEF PutPills
<1>2. /\ Len(results') = Len(results) + 1 /\ Len(results) \in Nat
      /\ \A k \in 1 .. Len(results) : results'[k] = results[k]
      /\ results'[Len(results) + 1] = Stop
  BY <1>1, QueueTypes, ItemType, AppendProperties DEF OrderInv
<1>3. Stop.kind = Pill /\ Pill # "job" /\ Pill # "init"
  BY DEF Stop, Item, Pill
<1>4. QueuesInOrder' /\ AnswersComeInOrder'
  BY <1>1 DEF OrderInv, OrderParts, QueuesInOrder, AnswersComeInOrder
<1>5. ResultsInOrder'
  BY <1>1, <1>2, <1>3 DEF OrderInv, OrderParts, ResultsInOrder
<1>6. PillIsSent'
  BY <1>1, <1>2, <1>3 DEF PillIsSent
<1>7. NothingFromNobody'
  BY <1>1, <1>2, <1>3 DEF OrderInv, OrderParts, NothingFromNobody
<1> QED
  BY <1>4, <1>5, <1>6, <1>7 DEF OrderParts

LEMMA PumpOrder == OrderInv /\ PumpNext => OrderParts'
<1> SUFFICES ASSUME OrderInv, PumpNext PROVE OrderParts'
  OBVIOUS
<1>1. /\ results # <<>> /\ results' = Tail(results) /\ pump = "on"
      /\ UNCHANGED <<main, jobs, worker, taken>>
  BY DEF PumpNext, PumpResult, EmitRaises
<1>2. /\ Head(results) = results[1] /\ 1 \in 1 .. Len(results) /\ Len(results) \in Nat
      /\ Len(results') = Len(results) - 1
      /\ \A i \in 1 .. Len(results) - 1 : results'[i] = results[i + 1]
  BY <1>1, QueueTypes, FirstOf DEF OrderInv
<1>3. /\ Len(jobs) \in Nat /\ Len(taken) \in Nat /\ Len(answered) \in Nat
      /\ results[1] \in Items /\ answered \in Seq(Numbers)
  BY <1>2, QueueTypes DEF OrderInv
<1>4. NothingFromNobody'
  BY <1>1, <1>2 DEF OrderInv, OrderParts, NothingFromNobody
<1>5. CASE pump' = "ended" /\ UNCHANGED answered
  BY <1>1, <1>4, <1>5
  DEF OrderInv, OrderParts, QueuesInOrder, ResultsInOrder, PillIsSent, AnswersComeInOrder
<1>6. CASE PumpResult /\ results[1].kind = "init"
  <2>1. /\ UNCHANGED <<pump, answered>> /\ worker.pc = "exited"
        /\ \A k \in 1 .. Len(results) : results[k].kind # "job"
    BY <1>1, <1>2, <1>6
    DEF PumpResult, Pill, OrderInv, OrderParts, NothingFromNobody
  <2>2. QueuesInOrder' /\ AnswersComeInOrder'
    BY <1>1, <2>1 DEF OrderInv, OrderParts, QueuesInOrder, AnswersComeInOrder
  <2>3. ResultsInOrder'
    BY <1>1, <1>2, <2>1 DEF ResultsInOrder
  <2>4. PillIsSent'
    BY <1>1, <1>2, <1>6, <2>1 DEF OrderInv, OrderParts, PillIsSent, Pill
  <2> QED
    BY <1>4, <2>2, <2>3, <2>4 DEF OrderParts
<1>7. CASE PumpResult /\ results[1].kind = "job"
  <2>1. /\ UNCHANGED pump /\ answered' = Append(answered, results[1].job)
    BY <1>2, <1>7 DEF PumpResult, Pill
  <2>2. results[1].job \in Numbers
    BY <1>3 DEF Items
  <2>3. /\ Len(answered') = Len(answered) + 1
        /\ \A k \in 1 .. Len(answered) : answered'[k] = answered[k]
        /\ answered'[Len(answered) + 1] = results[1].job
        /\ answered' \in Seq(Numbers)
    BY <1>3, <2>1, <2>2, AppendProperties
  <2>4. /\ Len(answered) + 1 <= Len(taken)
        /\ results[1].job = taken[Len(answered) + 1]
    BY <1>1, <1>2, <1>7 DEF OrderInv, OrderParts, ResultsInOrder
  <2>5. AnswersComeInOrder'
    <3>1. DOMAIN answered' = 1 .. Len(answered')
      BY <2>3, LenProperties
    <3>2. DOMAIN answered = 1 .. Len(answered)
      BY <1>3, LenProperties
    <3> QED
      BY <1>1, <1>3, <2>3, <2>4, <3>1, <3>2 DEF OrderInv, OrderParts, AnswersComeInOrder
  <2>6. QueuesInOrder'
    BY <1>1, <1>2, <1>3, <2>1, <2>3 DEF OrderInv, OrderParts, QueuesInOrder
  <2>7. ResultsInOrder'
    <3> SUFFICES ASSUME NEW k \in 1 .. Len(results'), results'[k].kind = "job",
                        \A j \in 1 .. k - 1 : results'[j].kind # Pill
                 PROVE  /\ Len(answered') + k <= Len(taken')
                        /\ results'[k].job = taken'[Len(answered') + k]
      BY DEF ResultsInOrder
    <3>1. k + 1 \in 1 .. Len(results) /\ results'[k] = results[k + 1]
      BY <1>2
    <3>2. \A j \in 1 .. (k + 1) - 1 : results[j].kind # Pill
      <4> SUFFICES ASSUME NEW j \in 1 .. (k + 1) - 1 PROVE results[j].kind # Pill
        OBVIOUS
      <4>1. CASE j = 1
        BY <1>7, <4>1 DEF Pill
      <4>2. CASE j # 1
        <5>1. /\ j - 1 \in 1 .. k - 1 /\ j - 1 \in 1 .. Len(results) - 1
              /\ (j - 1) + 1 = j
          BY <1>2, <4>2
        <5>2. results'[j - 1] = results[j]
          BY <1>2, <5>1
        <5> QED
          BY <5>1, <5>2
      <4> QED
        BY <4>1, <4>2
    <3>3. /\ Len(answered) + (k + 1) <= Len(taken)
          /\ results[k + 1].job = taken[Len(answered) + (k + 1)]
      BY <1>1, <3>1, <3>2 DEF OrderInv, OrderParts, ResultsInOrder
    <3>4. Len(answered) + (k + 1) = Len(answered') + k
      BY <1>3, <2>3
    <3> QED
      BY <1>1, <3>1, <3>3, <3>4
  <2>8. PillIsSent'
    <3>1. ASSUME NEW j \in 1 .. Len(results), results[j].kind = Pill
          PROVE  \E i \in 1 .. Len(results') : results'[i].kind = Pill
      <4>1. j # 1
        BY <1>7, <3>1 DEF Pill
      <4>2. j - 1 \in 1 .. Len(results') /\ results'[j - 1] = results[j]
        BY <1>2, <4>1
      <4> QED
        BY <3>1, <4>2
    <3> QED
      BY <1>1, <2>1, <3>1 DEF OrderInv, OrderParts, PillIsSent
  <2> QED
    BY <1>4, <2>5, <2>6, <2>7, <2>8 DEF OrderParts
<1>8. EmitRaises => pump' = "ended" /\ UNCHANGED answered
  BY DEF EmitRaises
<1>9. PumpResult /\ results[1].kind = Pill => pump' = "ended" /\ UNCHANGED answered
  BY <1>2 DEF PumpResult, Pill
<1>10. results[1].kind \in {"job", "init", Pill}
  BY <1>3 DEF Items
<1> QED
  BY <1>5, <1>6, <1>7, <1>8, <1>9, <1>10 DEF PumpNext

\* A worker that goes on without touching a queue.
LEMMA QuietWorkerOrder ==
  ASSUME OrderInv,
         \/ WorkerWatches \/ WorkerLoads \/ ParkCouplers \/ ParkingFails
         \/ TakeJob \/ Reload \/ ReloadFails \/ MarkRead
  PROVE  OrderParts'
<1>0. worker \in Workers /\ OrderParts
  BY DEF OrderInv, TypeInv, TypeOK
<1>1. /\ worker.pc # "exited" /\ worker'.pc # "exited"
      /\ worker'.pc \in {"boot", "load"} => worker.pc \in {"boot", "load"}
  <2>1. CASE WorkerLoads \/ Reload \/ ReloadFails
    <3>1. \A pc, versions : ReadInto(pc, versions) => worker'.pc = pc
      BY <1>0 DEF ReadInto, Workers
    <3> QED
      BY <2>1, <3>1 DEF WorkerLoads, Reload, ReloadFails, HasJob
  <2>2. CASE WorkerWatches \/ ParkCouplers \/ ParkingFails \/ TakeJob \/ MarkRead
    BY <1>0, <2>2 DEF WorkerWatches, ParkCouplers, ParkingFails, TakeJob, MarkRead, HasJob,
                      Workers
  <2> QED
    BY <2>1, <2>2
<1>2. UNCHANGED <<main, jobs, results, pump, taken, answered>>
  BY DEF WorkerWatches, WorkerLoads, ParkCouplers, ParkingFails, TakeJob, Reload,
         ReloadFails, MarkRead, WorkerStep
<1> QED
  BY <1>0, <1>1, <1>2, OrderFrame

LEMMA ExecutorFailsOrder == OrderInv /\ ExecutorFails => OrderParts'
<1> SUFFICES ASSUME OrderInv, ExecutorFails PROVE OrderParts'
  OBVIOUS
<1>1. /\ results' = Append(results, Item("init", InitError)) /\ worker.pc = "load"
      /\ worker'.pc = "exited"
      /\ UNCHANGED <<main, pump, taken, answered, jobs>>
  BY DEF ExecutorFails, WorkerStep, Idle
<1>2. /\ Len(results') = Len(results) + 1 /\ Len(results) \in Nat
      /\ \A k \in 1 .. Len(results) : results'[k] = results[k]
      /\ results'[Len(results) + 1] = Item("init", InitError)
  BY <1>1, QueueTypes, ItemType, AppendProperties DEF OrderInv
<1>3. Item("init", InitError).kind = "init"
  BY DEF Item
<1>4. \A k \in 1 .. Len(results) : results[k].kind # "job"
  BY <1>1 DEF OrderInv, OrderParts, NothingFromNobody
<1>5. \A k \in 1 .. Len(results') : results'[k].kind # "job"
  BY <1>2, <1>3, <1>4
<1>6. PillIsSent'
  BY <1>1, <1>2 DEF OrderInv, OrderParts, PillIsSent
<1> QED
  BY <1>1, <1>5, <1>6
  DEF OrderInv, OrderParts, QueuesInOrder, ResultsInOrder, NothingFromNobody,
      AnswersComeInOrder

LEMMA RunJobOrder == OrderInv /\ RunJob => OrderParts'
<1> SUFFICES ASSUME OrderInv, RunJob PROVE OrderParts'
  OBVIOUS
<1>0. /\ worker \in Workers /\ OrderParts /\ jobs # <<>> /\ Head(jobs).kind = "job"
      /\ jobs \in Seq(Items) /\ results \in Seq(Items)
      /\ Len(taken) \in Nat /\ Len(answered) \in Nat
  BY QueueTypes DEF OrderInv, TypeInv, TypeOK, HasItsJob, RunJob
<1>1. /\ Head(jobs) = jobs[1] /\ 1 \in 1 .. Len(jobs) /\ Len(jobs) \in Nat
      /\ Head(jobs) \in Items
      /\ Len(Tail(jobs)) = Len(jobs) - 1
      /\ \A i \in 1 .. Len(jobs) - 1 : Tail(jobs)[i] = jobs[i + 1]
  BY <1>0, FirstOf, HeadTailProperties
<1>2. Result \in Items /\ Result.kind = "job" /\ Result.job = jobs[1].job
  BY <1>1, ItemType DEF Result, Item, Items
<1>3. /\ jobs' = Tail(jobs) /\ results' = Append(results, Result)
      /\ worker.pc = "run" /\ worker'.pc = "idle"
      /\ UNCHANGED <<main, pump, taken, answered>>
  <2>1. /\ jobs' = Tail(jobs) /\ results' = results \o <<Result>>
        /\ worker.pc = "run" /\ worker' = [worker EXCEPT !.pc = "idle"]
        /\ UNCHANGED <<main, pump, taken, answered>>
    BY DEF RunJob, Answer, WorkerStep
  <2>2. results \o <<Result>> = Append(results, Result)
    BY <1>0, <1>2, AppendIsConcat
  <2>3. worker'.pc = "idle"
    BY <1>0, <2>1 DEF Workers
  <2> QED
    BY <2>1, <2>2, <2>3
<1>4. /\ Len(results') = Len(results) + 1 /\ Len(results) \in Nat
      /\ \A k \in 1 .. Len(results) : results'[k] = results[k]
      /\ results'[Len(results) + 1] = Result
  BY <1>0, <1>2, <1>3, AppendProperties, LenProperties
<1>5. NothingFromNobody'
  <2>1. \A k \in 1 .. Len(results') : results'[k].kind # "init"
    BY <1>0, <1>2, <1>3, <1>4 DEF OrderParts, NothingFromNobody
  <2> QED
    BY <1>3, <2>1 DEF NothingFromNobody
<1>6. PillIsSent'
  BY <1>0, <1>3, <1>4 DEF OrderParts, PillIsSent
<1>7. AnswersComeInOrder'
  BY <1>0, <1>3 DEF OrderParts, AnswersComeInOrder
<1>8. CASE main = "serving" /\ pump = "on"
  <2> DEFINE done == Len(answered) + Len(results)
  <2>1. /\ Len(answered) + Len(results) + Len(jobs) = Len(taken)
        /\ \A k \in 1 .. Len(results) : results[k] = Item("job", taken[Len(answered) + k])
        /\ \A k \in 1 .. Len(jobs) : jobs[k] = Item("job", taken[done + k])
    BY <1>0, <1>3, <1>8 DEF OrderParts, QueuesInOrder
  <2>2. Result = Item("job", taken[done + 1])
    <3>1. jobs[1] = Item("job", taken[done + 1])
      BY <1>1, <2>1
    <3>2. jobs[1].job = taken[done + 1]
      BY <3>1 DEF Item
    <3> QED
      BY <1>1, <3>2 DEF Result
  <2>3. Len(answered') + Len(results') + Len(jobs') = Len(taken')
    BY <1>0, <1>1, <1>3, <1>4, <2>1
  <2>4. ASSUME NEW k \in 1 .. Len(results')
        PROVE  results'[k] = Item("job", taken'[Len(answered') + k])
    <3>1. CASE k \in 1 .. Len(results)
      BY <1>3, <1>4, <2>1, <3>1
    <3>2. CASE k = Len(results) + 1
      <4>1. Len(answered) + k = done + 1
        BY <1>0, <1>4, <3>2
      <4> QED
        BY <1>3, <1>4, <2>2, <3>2, <4>1
    <3> QED
      BY <1>4, <3>1, <3>2
  <2>5. ASSUME NEW k \in 1 .. Len(jobs')
        PROVE  jobs'[k] = Item("job", taken'[Len(answered') + Len(results') + k])
    <3>1. k + 1 \in 1 .. Len(jobs) /\ jobs'[k] = jobs[k + 1]
      BY <1>1, <1>3
    <3>2. done + (k + 1) = Len(answered') + Len(results') + k
      BY <1>0, <1>3, <1>4
    <3>3. jobs[k + 1] = Item("job", taken[done + (k + 1)])
      BY <2>1, <3>1
    <3> QED
      BY <1>3, <3>1, <3>2, <3>3
  <2>6. QueuesInOrder'
    BY <2>3, <2>4, <2>5 DEF QueuesInOrder
  <2>7. ASSUME NEW k \in 1 .. Len(results')
        PROVE  /\ Len(answered') + k <= Len(taken')
               /\ results'[k].job = taken'[Len(answered') + k]
    <3>1. Len(answered') + k <= Len(taken')
      BY <1>0, <1>1, <1>3, <1>4, <2>1
    <3>2. results'[k] = Item("job", taken'[Len(answered') + k])
      BY <2>4
    <3> QED
      BY <3>1, <3>2 DEF Item
  <2>8. ResultsInOrder'
    BY <2>7 DEF ResultsInOrder
  <2> QED
    BY <1>5, <1>6, <1>7, <2>6, <2>8 DEF OrderParts
<1>9. CASE pump # "on"
  BY <1>3, <1>5, <1>6, <1>7, <1>9 DEF OrderParts, QueuesInOrder, ResultsInOrder
<1>10. CASE main # "serving" /\ pump = "on"
  <2>1. QueuesInOrder'
    BY <1>3, <1>10 DEF QueuesInOrder
  <2>2. PICK j \in 1 .. Len(results) : results[j].kind = Pill
    BY <1>0, <1>10 DEF OrderInv, OrderParts, PillIsSent, TypeInv, TypeOK
  <2>3. ResultsInOrder'
    <3> SUFFICES ASSUME NEW k \in 1 .. Len(results'), results'[k].kind = "job",
                        \A i \in 1 .. k - 1 : results'[i].kind # Pill
                 PROVE  /\ Len(answered) + k <= Len(taken)
                        /\ results'[k].job = taken[Len(answered) + k]
      BY <1>3 DEF ResultsInOrder
    <3>1. k # Len(results) + 1
      BY <1>4, <2>2
    <3>2. k \in 1 .. Len(results) /\ results'[k] = results[k]
      BY <1>4, <3>1
    <3>3. \A i \in 1 .. k - 1 : results[i].kind # Pill
      BY <1>4, <3>2
    <3> QED
      BY <1>0, <1>10, <3>2, <3>3 DEF OrderParts, ResultsInOrder
  <2> QED
    BY <1>5, <1>6, <1>7, <2>1, <2>3 DEF OrderParts
<1> QED
  BY <1>8, <1>9, <1>10

LEMMA TakePillOrder == OrderInv /\ TakePill => OrderParts'
<1> SUFFICES ASSUME OrderInv, TakePill PROVE OrderParts'
  OBVIOUS
<1>1. /\ worker'.pc = "exited" /\ worker.pc = "idle"
      /\ UNCHANGED <<main, pump, results, taken, answered>>
  BY DEF TakePill, WorkerStep, Idle
<1> QED
  BY <1>1 DEF OrderInv, OrderParts, QueuesInOrder, ResultsInOrder, PillIsSent,
              NothingFromNobody, AnswersComeInOrder

LEMMA StopOrder == OrderInv /\ (StartDriver \/ JoinWorker \/ CloseSocket) => OrderParts'
<1> SUFFICES ASSUME OrderInv PROVE StartDriver \/ JoinWorker \/ CloseSocket => OrderParts'
  OBVIOUS
<1> USE DEF OrderParts, QueuesInOrder, ResultsInOrder, PillIsSent, NothingFromNobody,
            AnswersComeInOrder
<1>1. CASE StartDriver
  <2>1. /\ jobs' = <<>> /\ results' = <<>> /\ taken' = <<>> /\ answered' = <<>>
        /\ main' = "serving"
    BY <1>1 DEF StartDriver
  <2> QED
    BY <2>1
<1>2. CASE JoinWorker
  <2>1. /\ worker'.pc = "exited" /\ main' = "closing" /\ main = "joining"
        /\ UNCHANGED <<jobs, results, pump, taken, answered>>
    BY <1>2 DEF JoinWorker, Idle
  <2> QED
    BY <2>1 DEF OrderInv
<1>3. CASE CloseSocket
  <2>1. /\ worker'.pc = "off" /\ main' = "off" /\ pump' = "off" /\ results' = <<>>
        /\ UNCHANGED <<taken, answered>>
    BY <1>3 DEF CloseSocket, Idle
  <2> QED
    BY <2>1 DEF OrderInv
<1> QED
  BY <1>1, <1>2, <1>3

LEMMA OrderStep == OrderInv /\ [Next]_vars => OrderInv'
<1> SUFFICES ASSUME OrderInv, [Next]_vars PROVE OrderParts'
  BY TypeStep DEF OrderInv
<1>1. CASE UNCHANGED driverVars
  BY <1>1, OrderFrame DEF OrderInv, driverVars
<1>2. MainNext => OrderParts'
  BY ReceiveOrder, PutPillsOrder, StopOrder DEF MainNext
<1>3. WorkerNext => OrderParts'
  BY QuietWorkerOrder, ExecutorFailsOrder, RunJobOrder, TakePillOrder DEF WorkerNext
<1> QED
  BY <1>1, <1>2, <1>3, PumpOrder DEF Next, DriverNext, vars

\* Results leave in the order the jobs came, one for each job and none left out, for
\* any number of jobs, starts and faults (job_worker, _pump_results).
THEOREM AnswersAreInOrder == Spec => []AnswersComeInOrder
<1>1. Init => OrderInv
  BY TypeInit, OrderInit DEF OrderInv
<1>2. OrderInv => AnswersComeInOrder
  BY DEF OrderInv, OrderParts
<1> QED
  BY <1>1, <1>2, OrderStep, PTL DEF Spec

=============================================================================

------------------------- MODULE DeviceFile_proofs -------------------------
(***************************************************************************)
(* Theorems about DeviceFile, for every set of versions and any number of  *)
(* saves, edits, restores and deaths of the tuner.                         *)
(***************************************************************************)
EXTENDS DeviceFile, TLAPS

-----------------------------------------------------------------------------
(* Type correctness. *)

\* What is moved over the file was read back first, and what is put back was there.
TextsAreThere ==
    /\ tuner.pc \in {"backup", "copying", "replace"} => Loads(candidate)
    /\ hand.doing = "restore" => hand.text # Gone

TypeInv == TypeOK /\ TextsAreThere

Places == {"down", "watch", "exited", "idle", "mark", "walk", "dump",
           "verify", "backup", "copying", "replace"}

LEMMA TypeInit == Init => TypeInv
<1> SUFFICES ASSUME Init PROVE TypeInv
  OBVIOUS
<1>1. file \in [text : Texts, at : Nat, ino : Nat] /\ file.text \in Versions
  BY DEF Init, SharedInit, Texts
<1>2. past \subseteq [text : Texts \ {Gone}, at : Nat]
  BY <1>1, TextsDiffer DEF Init, SharedInit, Texts, Stamp
<1>3. prev \in Copies /\ candidate \in Texts
  BY DEF Init, Copies, Texts
<1>4. tuner \in Tuners
  BY <1>1 DEF Init, Tuners, Unread, Signatures
<1>5. hand \in Hands
  BY DEF Init, Hands, Texts
<1>6. clock \in Nat /\ left \in Counts
  BY BoundsAreNat DEF Init, Counts
<1>7. TextsAreThere
  BY DEF Init, TextsAreThere
<1> QED
  BY <1>1, <1>2, <1>3, <1>4, <1>5, <1>6, <1>7 DEF TypeInv, TypeOK, SharedTypeOK

\* A write that is noted is of the shape of the file.
LEMMA NotedType ==
  ASSUME SharedTypeOK, file' \in [text : Texts \ {Gone}, at : Nat, ino : Nat], Noted
  PROVE  SharedTypeOK'
  BY DEF SharedTypeOK, Noted, Stamp, Texts

LEMMA SignatureType == SharedTypeOK => Signature(file) \in Signatures
  BY DEF SharedTypeOK, Signature, Signatures, Unread

\* A save or a mishap is counted.
LEMMA Spent ==
  ASSUME left \in Counts, NEW what \in {"saves", "mishaps"}, Spend(what)
  PROVE  left' \in Counts
  BY DEF Counts, Spend

\* The worker goes on with what it has, with a config, or with a signature.
LEMMA Moved ==
  ASSUME NEW t \in Tuners, NEW pc \in Places
  PROVE  [t EXCEPT !.pc = pc] \in Tuners /\ [t EXCEPT !.pc = pc].pc = pc
  BY DEF Tuners, Places

LEMMA MovedSeeing ==
  ASSUME NEW t \in Tuners, NEW pc \in Places, NEW s \in Signatures
  PROVE  /\ [t EXCEPT !.pc = pc, !.seen = s] \in Tuners
         /\ [t EXCEPT !.pc = pc, !.seen = s].pc = pc
  BY DEF Tuners, Places

LEMMA MovedAlone ==
  ASSUME NEW t \in Tuners, NEW pc \in Places, NEW b \in BOOLEAN
  PROVE  [t EXCEPT !.pc = pc, !.alone = b] \in Tuners
  BY DEF Tuners, Places

LEMMA Seen ==
  ASSUME NEW t \in Tuners
  PROVE  [t EXCEPT !.alone = FALSE] \in Tuners /\ [t EXCEPT !.alone = FALSE].pc = t.pc
  BY DEF Tuners

\* A step of the worker that leaves the file alone.
LEMMA WorkerType ==
  ASSUME TypeInv, UNCHANGED <<file, past, hand>>, clock' \in Nat, tuner' \in Tuners,
         prev' \in Copies, left' \in Counts, candidate' \in Texts,
         tuner'.pc \in {"backup", "copying", "replace"} => Loads(candidate')
  PROVE  TypeInv'
  BY DEF TypeInv, TypeOK, SharedTypeOK, TextsAreThere

LEMMA TypeTuner == TypeInv /\ TunerNext => TypeInv'
<1> SUFFICES ASSUME TypeInv, TunerNext PROVE TypeInv'
  OBVIOUS
<1> USE DEF At, Goto
<1>0. /\ tuner \in Tuners /\ hand \in Hands /\ prev \in Copies /\ candidate \in Texts
      /\ clock \in Nat /\ left \in Counts /\ SharedTypeOK
      /\ tuner.mem \in Versions
      /\ Signature(file) \in Signatures
  BY SignatureType DEF TypeInv, TypeOK, Tuners
<1>a. /\ "watch" \in Places /\ "exited" \in Places /\ "idle" \in Places /\ "walk" \in Places
      /\ "mark" \in Places /\ "dump" \in Places /\ "verify" \in Places
      /\ "backup" \in Places /\ "copying" \in Places /\ "replace" \in Places
      /\ "down" \in Places
  BY DEF Places
<1>b. Readings(file.text) \subseteq Versions
  BY DEF Readings, Loads
<1>1. CASE TunerLoads
  <2>1. tuner' \in Tuners /\ tuner'.pc \in {"watch", "exited"}
    <3>1. CASE \E v \in Readings(file.text) : tuner' = [tuner EXCEPT !.pc = "watch", !.mem = v]
      <4>1. PICK v \in Versions : tuner' = [tuner EXCEPT !.pc = "watch", !.mem = v]
        BY <1>b, <3>1
      <4> QED
        BY <1>0, <4>1 DEF Tuners
    <3>2. CASE Goto("exited")
      BY <1>0, <1>a, <3>2, Moved
    <3> QED
      BY <1>1, <3>1, <3>2 DEF TunerLoads
  <2> QED
    BY <1>0, <1>1, <2>1, WorkerType DEF TunerLoads
<1>2. CASE TunerWatches
  <2>1. tuner' \in Tuners /\ tuner'.pc = "idle"
    BY <1>0, <1>a, <1>2, MovedSeeing DEF TunerWatches
  <2> QED
    BY <1>0, <1>2, <2>1, WorkerType DEF TunerWatches
<1>3. CASE TunerMarks
  <2>1. tuner' \in Tuners /\ tuner'.pc = "walk"
    BY <1>0, <1>a, <1>3, MovedSeeing DEF TunerMarks
  <2> QED
    BY <1>0, <1>3, <2>1, WorkerType DEF TunerMarks
<1>4. CASE RefreshAtStart
  <2>1. tuner' \in Tuners /\ tuner'.pc \in {"walk", "mark"}
    <3>1. CASE Goto("walk")
      BY <1>0, <1>a, <3>1, Moved
    <3>2. CASE \E v \in Readings(file.text) : tuner' = [tuner EXCEPT !.pc = "mark", !.mem = v]
      <4>1. PICK v \in Versions : tuner' = [tuner EXCEPT !.pc = "mark", !.mem = v]
        BY <1>b, <3>2
      <4> QED
        BY <1>0, <4>1 DEF Tuners
    <3>3. CASE \E v \in {tuner.mem} \cup Readings(file.text) :
                  tuner' = [tuner EXCEPT !.pc = "walk", !.mem = v]
      <4>1. PICK v \in Versions : tuner' = [tuner EXCEPT !.pc = "walk", !.mem = v]
        BY <1>0, <1>b, <3>3
      <4> QED
        BY <1>0, <4>1 DEF Tuners
    <3> QED
      BY <1>4, <3>1, <3>2, <3>3 DEF RefreshAtStart
  <2> QED
    BY <1>0, <1>4, <2>1, WorkerType DEF RefreshAtStart
<1>5. CASE WalkEnds
  <2>1. PICK v \in Versions, next \in {"idle", "dump"} :
               tuner' = [tuner EXCEPT !.mem = v, !.pc = next]
    BY <1>5 DEF WalkEnds
  <2>2. tuner' \in Tuners /\ tuner'.pc \in {"idle", "dump"}
    BY <1>0, <2>1 DEF Tuners
  <2> QED
    BY <1>0, <1>5, <2>2, WorkerType DEF WalkEnds
<1>6. CASE OpenCandidate
  <2>1. tuner' \in Tuners /\ tuner'.pc = "verify"
    BY <1>0, <1>a, <1>6, Moved DEF OpenCandidate
  <2>2. left' \in Counts
    BY <1>0, <1>6, Spent DEF OpenCandidate
  <2> QED
    BY <1>0, <1>6, <2>1, <2>2, WorkerType DEF OpenCandidate, Texts
<1>7. CASE VerifyCandidate
  <2>1. tuner' \in Tuners
    <3> DEFINE nobody == hand.doing = "nothing"
    <3>1. tuner' = [tuner EXCEPT !.pc = "backup", !.alone = nobody]
      BY <1>7 DEF VerifyCandidate
    <3>2. nobody \in BOOLEAN
      OBVIOUS
    <3> HIDE DEF nobody
    <3> QED
      BY <1>0, <1>a, <3>1, <3>2, MovedAlone
  <2> QED
    BY <1>0, <1>7, <2>1, WorkerType DEF VerifyCandidate, Texts, Loads
<1>8. CASE BackupBegins
  <2>1. tuner' \in Tuners /\ Loads(candidate)
    BY <1>0, <1>a, <1>8, Moved DEF BackupBegins, TypeInv, TextsAreThere
  <2>2. prev' \in Copies /\ clock' \in Nat
    BY <1>0, <1>8 DEF BackupBegins, Copies, Texts
  <2> QED
    BY <1>0, <1>8, <2>1, <2>2, WorkerType DEF BackupBegins
<1>9. CASE BackupEnds
  <2>1. tuner' \in Tuners /\ Loads(candidate)
    BY <1>0, <1>a, <1>9, Moved DEF BackupEnds, TypeInv, TextsAreThere
  <2>2. prev' \in Copies
    BY <1>0, <1>9 DEF BackupEnds, Copies, SharedTypeOK
  <2> QED
    BY <1>0, <1>9, <2>1, <2>2, WorkerType DEF BackupEnds
<1>10. CASE Replace
  <2>1. candidate \in Versions
    BY <1>10 DEF Replace, TypeInv, TextsAreThere, Loads
  <2>2. SharedTypeOK'
    BY <1>0, <1>10, <2>1, NotedType, TextsDiffer DEF Replace, Texts
  <2>3. tuner' \in Tuners /\ tuner'.pc = "idle"
    BY <1>0, <1>a, <1>10, Moved DEF Replace
  <2> QED
    BY <1>0, <1>10, <2>2, <2>3 DEF Replace, TypeInv, TypeOK, TextsAreThere, Texts
<1>11. CASE SaveFails
  <2>1. tuner' \in Tuners /\ tuner'.pc = "idle"
    BY <1>0, <1>a, <1>11, Moved DEF SaveFails
  <2> QED
    BY <1>0, <1>11, <2>1, WorkerType DEF SaveFails, Texts
<1>12. CASE TunerDies
  <2>1. tuner' \in Tuners /\ tuner'.pc = "down"
    BY <1>0, <1>a, <1>12, Moved DEF TunerDies
  <2>2. left' \in Counts
    BY <1>0, <1>12, Spent DEF TunerDies
  <2> QED
    BY <1>0, <1>12, <2>1, <2>2, WorkerType DEF TunerDies, Texts
<1> QED
  BY <1>1, <1>2, <1>3, <1>4, <1>5, <1>6, <1>7, <1>8, <1>9, <1>10, <1>11, <1>12
  DEF TunerNext

\* A step of the operator leaves the worker where it is.
LEMMA HandType ==
  ASSUME TypeInv, SharedTypeOK', hand' \in Hands, clock' \in Nat, left' \in Counts,
         Watched, UNCHANGED <<prev, candidate>>,
         hand'.doing = "restore" => hand'.text # Gone
  PROVE  TypeInv'
<1>1. tuner' \in Tuners /\ tuner'.pc = tuner.pc
  BY Seen DEF TypeInv, TypeOK, Watched
<1> QED
  BY <1>1 DEF TypeInv, TypeOK, TextsAreThere

LEMMA TypeHand == TypeInv /\ HandNext => TypeInv'
<1> SUFFICES ASSUME TypeInv, HandNext PROVE TypeInv'
  OBVIOUS
<1>0. /\ hand \in Hands /\ prev \in Copies /\ clock \in Nat /\ left \in Counts /\ SharedTypeOK
      /\ file \in [text : Texts, at : Nat, ino : Nat]
      /\ hand.doing = "restore" => hand.text # Gone
  BY DEF TypeInv, TypeOK, SharedTypeOK, TextsAreThere
<1>1. CASE EditBegins
  <2>1. left' \in Counts
    BY <1>0, <1>1, Spent DEF EditBegins
  <2>2. SharedTypeOK'
    <3>1. CASE file' = [file EXCEPT !.text = Torn, !.at = clock] /\ Noted
      BY <1>0, <3>1, NotedType, TextsDiffer DEF Texts
    <3>2. CASE file' = [file EXCEPT !.text = Gone] /\ UNCHANGED past
      BY <1>0, <3>2 DEF SharedTypeOK, Texts
    <3> QED
      BY <1>1, <3>1, <3>2 DEF EditBegins
  <2>3. hand' \in Hands /\ hand'.doing # "restore"
    BY <1>0, <1>1 DEF EditBegins, Hands
  <2> QED
    BY <1>0, <1>1, <2>1, <2>2, <2>3, HandType DEF EditBegins
<1>2. CASE RestoreBegins
  <2>1. left' \in Counts
    BY <1>0, <1>2, Spent DEF RestoreBegins
  <2>2. SharedTypeOK'
    BY <1>0, <1>2, NotedType, TextsDiffer DEF RestoreBegins, Texts
  <2>3. hand' \in Hands /\ hand'.text # Gone
    BY <1>0, <1>2 DEF RestoreBegins, Hands, Copies
  <2> QED
    BY <1>0, <1>2, <2>1, <2>2, <2>3, HandType DEF RestoreBegins
<1>3. ASSUME NEW text \in Texts \ {Gone}, NEW at \in Nat, NEW ino \in Nat, Put(text, at, ino)
      PROVE  TypeInv'
  <2>1. SharedTypeOK'
    BY <1>0, <1>3, NotedType DEF Put
  <2>2. hand' \in Hands /\ hand'.doing = "nothing"
    BY <1>0, <1>3 DEF Put, Hands
  <2> QED
    BY <1>0, <1>3, <2>1, <2>2, HandType DEF Put
<1>4. CASE CreateEnds
  BY <1>0, <1>3, <1>4, TextsDiffer DEF CreateEnds, Texts
<1>5. CASE EditEnds
  BY <1>0, <1>3, <1>5, TextsDiffer DEF EditEnds, Texts
<1>6. CASE RestoreEnds
  BY <1>0, <1>3, <1>6 DEF RestoreEnds, Hands
<1>7. CASE EditIsLost
  <2>1. hand' \in Hands /\ hand'.doing = "nothing"
    BY <1>0, <1>7 DEF EditIsLost, Hands
  <2> QED
    BY <1>0, <1>7, <2>1, HandType DEF EditIsLost, SharedTypeOK
<1> QED
  BY <1>1, <1>2, <1>4, <1>5, <1>6, <1>7 DEF HandNext

LEMMA TypeStep == TypeInv /\ [Next]_vars => TypeInv'
<1>1. TypeInv /\ UNCHANGED vars => TypeInv'
  BY DEF vars, TypeInv, TypeOK, SharedTypeOK, TextsAreThere, Loads
<1> QED
  BY <1>1, TypeTuner, TypeHand DEF Next

\* The state of the file, its backup, its candidate, the tuner and the operator has
\* its type, for any number of saves and mishaps.
THEOREM TypeCorrect == Spec => []TypeOK
<1>1. TypeInv => TypeOK
  BY DEF TypeInv
<1> QED
  BY <1>1, TypeInit, TypeStep, PTL DEF Spec

-----------------------------------------------------------------------------
(* The clock is ahead of every time that was given out. *)

ClockAhead ==
    /\ 1 < clock
    /\ 0 < file.at /\ file.at < clock
    /\ 0 < file.ino /\ file.ino < clock
    /\ prev.at < clock /\ (prev.text # Gone => 0 < prev.at)
    /\ hand.at < clock /\ (hand.doing = "restore" => 0 < hand.at)
    /\ hand.ino < clock
    /\ \A old \in past : old.at < clock

\* The fields the arithmetic is about are numbers.
LEMMA TimesAreNat ==
  ASSUME TypeInv
  PROVE  /\ file.at \in Nat /\ file.ino \in Nat /\ prev.at \in Nat
         /\ hand.at \in Nat /\ hand.ino \in Nat /\ clock \in Nat
         /\ \A old \in past : old.at \in Nat
  BY DEF TypeInv, TypeOK, SharedTypeOK, Copies, Hands

LEMMA ClockInit == Init => ClockAhead
  BY DEF Init, SharedInit, ClockAhead, Stamp

\* A noted write at a time that was given out leaves the clock ahead of the past.
LEMMA NotedTime ==
  ASSUME TypeInv, ClockAhead, Noted, file'.at \in Nat, clock' \in Nat,
         file'.at < clock', clock <= clock'
  PROVE  \A old \in past' : old.at < clock'
<1>1. \A old \in past : old.at < clock'
  BY TimesAreNat DEF ClockAhead
<1> QED
  BY <1>1 DEF Noted, Stamp

LEMMA ClockStep == TypeInv /\ ClockAhead /\ [Next]_vars => ClockAhead'
<1> SUFFICES ASSUME TypeInv, ClockAhead, [Next]_vars PROVE ClockAhead'
  OBVIOUS
<1>0. /\ file.at \in Nat /\ file.ino \in Nat /\ prev.at \in Nat
      /\ hand.at \in Nat /\ hand.ino \in Nat /\ clock \in Nat
      /\ \A old \in past : old.at \in Nat
      /\ prev \in Copies /\ hand \in Hands
      /\ file \in [text : Texts, at : Nat, ino : Nat]
  BY TimesAreNat DEF TypeInv, TypeOK, SharedTypeOK
<1>1. ASSUME UNCHANGED <<file, past, prev, hand, clock>> PROVE ClockAhead'
  BY <1>1 DEF ClockAhead
<1>2. CASE TunerLoads \/ TunerWatches \/ RefreshAtStart \/ TunerMarks \/ WalkEnds
  BY <1>1, <1>2 DEF TunerLoads, TunerWatches, RefreshAtStart, TunerMarks, WalkEnds
<1>3. CASE OpenCandidate \/ VerifyCandidate \/ SaveFails \/ TunerDies
  BY <1>1, <1>3 DEF OpenCandidate, VerifyCandidate, SaveFails, TunerDies
<1>4. CASE BackupBegins
  BY <1>0, <1>4 DEF BackupBegins, ClockAhead
<1>5. CASE BackupEnds
  BY <1>0, <1>5 DEF BackupEnds, ClockAhead
<1>6. CASE Replace
  <2>1. \A old \in past' : old.at < clock'
    BY <1>0, <1>6, NotedTime DEF Replace
  <2> QED
    BY <1>0, <1>6, <2>1 DEF Replace, ClockAhead
<1>7. CASE EditBegins
  <2>1. CASE file' = [file EXCEPT !.text = Torn, !.at = clock] /\ Noted
                /\ hand' = [hand EXCEPT !.doing = "edit", !.ino = file.ino]
    <3>1. \A old \in past' : old.at < clock'
      BY <1>0, <1>7, <2>1, NotedTime DEF EditBegins
    <3> QED
      BY <1>0, <1>7, <2>1, <3>1 DEF EditBegins, ClockAhead, Hands
  <2>2. CASE /\ file' = [file EXCEPT !.text = Gone] /\ UNCHANGED past
             /\ hand' = [hand EXCEPT !.doing = "create"]
    BY <1>0, <1>7, <2>2 DEF EditBegins, ClockAhead, Hands
  <2> QED
    BY <1>7, <2>1, <2>2 DEF EditBegins
<1>8. CASE RestoreBegins
  <2>1. \A old \in past' : old.at < clock'
    BY <1>0, <1>8, NotedTime DEF RestoreBegins
  <2> QED
    BY <1>0, <1>8, <2>1 DEF RestoreBegins, ClockAhead
<1>9. ASSUME NEW text, NEW at \in Nat, NEW ino \in Nat,
             0 < at, at <= clock, 0 < ino, ino <= clock, Put(text, at, ino)
      PROVE  ClockAhead'
  <2>1. \A old \in past' : old.at < clock'
    BY <1>0, <1>9, NotedTime DEF Put
  <2> QED
    BY <1>0, <1>9, <2>1 DEF Put, ClockAhead, Hands
<1>10. CASE CreateEnds \/ EditEnds
  BY <1>0, <1>9, <1>10 DEF CreateEnds, EditEnds, ClockAhead
<1>11. CASE RestoreEnds
  BY <1>0, <1>9, <1>11 DEF RestoreEnds, ClockAhead
<1>12. CASE EditIsLost
  BY <1>0, <1>12 DEF EditIsLost, ClockAhead, Hands
<1>13. CASE UNCHANGED vars
  BY <1>1, <1>13 DEF vars
<1> QED
  BY <1>2, <1>3, <1>4, <1>5, <1>6, <1>7, <1>8, <1>10, <1>11, <1>12, <1>13
  DEF Next, TunerNext, HandNext

-----------------------------------------------------------------------------
(* A time the file bore is the time of one text, in the backup as well.  A *)
(* backup that is torn bears a time the file did not have.                 *)

Recorded(text, at) ==
    [text |-> text, at |-> at] \in past \/ \A old \in past : old.at # at

OneTextPerTime ==
    /\ file.text # Gone => Stamp(file) \in past
    /\ \A a, b \in past : a.at = b.at => a.text = b.text
    /\ prev.text # Gone => Recorded(prev.text, prev.at)
    /\ hand.doing = "restore" => Recorded(hand.text, hand.at)
    /\ hand.doing = "restore" /\ prev.text # Gone /\ prev.at = hand.at
         => prev.text = hand.text

PastInv == TypeInv /\ ClockAhead /\ OneTextPerTime

LEMMA PastInit == Init => OneTextPerTime
  BY DEF Init, SharedInit, OneTextPerTime, Stamp

\* What a write at the clock's time leaves of the past's rule.
LEMMA FreshWrite ==
  ASSUME PastInv, Noted, file'.at = clock
  PROVE  /\ Stamp(file)' \in past'
         /\ \A a, b \in past' : a.at = b.at => a.text = b.text
         /\ \A text : \A at \in Nat : at < clock /\ Recorded(text, at) => Recorded(text, at)'
<1>1. past' = past \cup {Stamp(file)'}
  BY DEF Noted
<1>2. \A old \in past : old.at # clock /\ old.at \in Nat
  BY TimesAreNat DEF PastInv, ClockAhead
<1>3. Stamp(file)'.at = clock /\ clock \in Nat
  BY TimesAreNat DEF Stamp, PastInv
<1>4. \A a, b \in past' : a.at = b.at => a.text = b.text
  BY <1>1, <1>2, <1>3 DEF PastInv, OneTextPerTime
<1>5. \A text : \A at \in Nat : at < clock /\ Recorded(text, at) => Recorded(text, at)'
  BY <1>1, <1>2, <1>3 DEF Recorded
<1> QED
  BY <1>1, <1>4, <1>5

\* A step that leaves the file, the backup and the operator alone.
LEMMA PastFrame ==
  ASSUME OneTextPerTime, UNCHANGED <<file, past, prev, hand>>
  PROVE  OneTextPerTime'
  BY DEF OneTextPerTime, Recorded, Stamp

LEMMA PastStep == PastInv /\ [Next]_vars => OneTextPerTime'
<1> SUFFICES ASSUME PastInv, [Next]_vars PROVE OneTextPerTime'
  OBVIOUS
<1>0. /\ file.at \in Nat /\ prev.at \in Nat /\ hand.at \in Nat /\ clock \in Nat
      /\ prev.at < clock /\ hand.at < clock
      /\ \A old \in past : old.at \in Nat /\ old.at < clock
      /\ prev \in Copies /\ hand \in Hands
      /\ file \in [text : Texts, at : Nat, ino : Nat]
      /\ past \subseteq [text : Texts \ {Gone}, at : Nat]
  BY TimesAreNat DEF PastInv, ClockAhead, TypeInv, TypeOK, SharedTypeOK
<1>a. OneTextPerTime
  BY DEF PastInv
<1>1. CASE TunerLoads \/ TunerWatches \/ RefreshAtStart \/ TunerMarks \/ WalkEnds
  BY <1>a, <1>1, PastFrame
  DEF TunerLoads, TunerWatches, RefreshAtStart, TunerMarks, WalkEnds
<1>2. CASE OpenCandidate \/ VerifyCandidate \/ SaveFails \/ TunerDies
  BY <1>a, <1>2, PastFrame DEF OpenCandidate, VerifyCandidate, SaveFails, TunerDies
<1>3. CASE BackupBegins
  <2>1. CASE file.text = Gone
    BY <1>a, <1>3, <2>1, PastFrame DEF BackupBegins
  <2>2. CASE file.text # Gone
    <3>1. prev'.at = clock /\ UNCHANGED <<file, past, hand>>
      BY <1>3, <2>2 DEF BackupBegins
    <3>2. Recorded(prev.text, prev.at)'
      BY <1>0, <3>1 DEF Recorded
    <3> QED
      BY <1>0, <1>a, <3>1, <3>2 DEF OneTextPerTime, Recorded, Stamp
  <2> QED
    BY <2>1, <2>2
<1>4. CASE BackupEnds
  <2>1. prev' = Stamp(file) /\ Stamp(file) \in past /\ UNCHANGED <<file, past, hand>>
    BY <1>4, <1>a DEF BackupEnds, Stamp, OneTextPerTime
  <2>2. hand.doing = "restore" /\ prev'.at = hand.at => prev'.text = hand.text
    BY <1>a, <2>1 DEF OneTextPerTime, Recorded, Stamp
  <2> QED
    BY <1>a, <2>1, <2>2 DEF OneTextPerTime, Recorded, Stamp
<1>5. ASSUME Noted, file'.at = clock, prev' = prev,
             hand'.doing = "restore" => UNCHANGED hand
      PROVE  OneTextPerTime'
  <2>1. prev.text # Gone => Recorded(prev.text, prev.at)'
    BY <1>0, <1>5, <1>a, FreshWrite DEF OneTextPerTime
  <2>2. ASSUME hand'.doing = "restore" PROVE Recorded(hand.text, hand.at)'
    <3>1. hand' = hand /\ Recorded(hand.text, hand.at)
      BY <1>5, <1>a, <2>2 DEF OneTextPerTime
    <3> QED
      BY <1>0, <1>5, <3>1, FreshWrite
  <2> QED
    BY <1>5, <1>a, <2>1, <2>2, FreshWrite DEF OneTextPerTime
<1>6. CASE Replace
  BY <1>5, <1>6 DEF Replace
<1>7. CASE EditBegins
  <2>1. CASE file' = [file EXCEPT !.text = Torn, !.at = clock] /\ Noted
                /\ hand' = [hand EXCEPT !.doing = "edit", !.ino = file.ino]
    <3>1. file'.at = clock /\ hand'.doing # "restore"
      BY <1>0, <2>1 DEF Hands
    <3> QED
      BY <1>5, <1>7, <2>1, <3>1 DEF EditBegins
  <2>2. CASE /\ file' = [file EXCEPT !.text = Gone] /\ UNCHANGED past
             /\ hand' = [hand EXCEPT !.doing = "create"]
    <3>1. file'.text = Gone /\ hand'.doing # "restore" /\ prev' = prev
      BY <1>0, <1>7, <2>2 DEF EditBegins, Hands
    <3> QED
      BY <1>a, <2>2, <3>1 DEF OneTextPerTime, Recorded
  <2> QED
    BY <1>7, <2>1, <2>2 DEF EditBegins
<1>8. CASE RestoreBegins
  <2>1. /\ Noted /\ file'.at = clock /\ prev' = prev /\ prev.text # Gone
        /\ hand'.text = prev.text /\ hand'.at = prev.at
    BY <1>0, <1>8 DEF RestoreBegins
  <2>2. Recorded(prev.text, prev.at)'
    BY <1>0, <1>a, <2>1, FreshWrite DEF OneTextPerTime
  <2> QED
    BY <1>a, <2>1, <2>2, FreshWrite DEF OneTextPerTime
<1>9. CASE CreateEnds \/ EditEnds
  <2>1. /\ Noted /\ file'.at = clock /\ prev' = prev
        /\ hand'.doing # "restore"
    BY <1>0, <1>9 DEF CreateEnds, EditEnds, Put, Hands
  <2> QED
    BY <1>5, <2>1
<1>10. CASE RestoreEnds
  <2>1. /\ past' = past \cup {[text |-> hand.text, at |-> hand.at]}
        /\ prev' = prev /\ hand'.doing # "restore"
        /\ file'.text = hand.text /\ file'.at = hand.at
        /\ Recorded(hand.text, hand.at)
    BY <1>0, <1>10, <1>a DEF RestoreEnds, Put, Noted, Stamp, Hands, OneTextPerTime
  <2>2. \A a, b \in past' : a.at = b.at => a.text = b.text
    BY <1>a, <2>1 DEF OneTextPerTime, Recorded
  <2>3. prev.text # Gone => Recorded(prev.text, prev.at)'
    BY <1>0, <1>10, <1>a, <2>1 DEF OneTextPerTime, Recorded, RestoreEnds
  <2> QED
    BY <1>a, <2>1, <2>2, <2>3 DEF OneTextPerTime, Stamp
<1>11. CASE EditIsLost
  <2>1. UNCHANGED <<file, past, prev>> /\ hand'.doing # "restore"
    BY <1>0, <1>11 DEF EditIsLost, Hands
  <2> QED
    BY <1>a, <2>1 DEF OneTextPerTime, Recorded, Stamp
<1>12. CASE UNCHANGED vars
  BY <1>a, <1>12, PastFrame DEF vars
<1> QED
  BY <1>1, <1>2, <1>3, <1>4, <1>6, <1>7, <1>8, <1>9, <1>10, <1>11, <1>12
  DEF Next, TunerNext, HandNext

-----------------------------------------------------------------------------
(* The file moves as its readers take for granted. *)

AnyTimeMayBeGiven == Nat \ {0} \subseteq Times /\ Nat \ {0} \subseteq Inodes

\* A write at the clock's time is one the readers allow.
LEMMA FreshIsAWrite ==
  ASSUME AnyTimeMayBeGiven, PastInv, Noted, NEW text \in Texts \ {Gone},
         NEW ino \in Nat \ {0}, file' = [text |-> text, at |-> clock, ino |-> ino]
  PROVE  SharedNext
<1>1. clock \in Times /\ ino \in Inodes
  BY TimesAreNat DEF AnyTimeMayBeGiven, PastInv, ClockAhead
<1>2. \A old \in past : old.at # file'.at
  BY TimesAreNat DEF PastInv, ClockAhead
<1> QED
  BY <1>1, <1>2 DEF SharedNext, Write

LEMMA StepIsAllowed ==
  ASSUME AnyTimeMayBeGiven, PastInv, [Next]_vars
  PROVE  [SharedNext]_sharedVars
<1>0. /\ file.ino \in Nat \ {0} /\ clock \in Nat \ {0}
      /\ file \in [text : Texts, at : Nat, ino : Nat] /\ hand \in Hands
      /\ past \subseteq [text : Texts \ {Gone}, at : Nat]
  BY TimesAreNat DEF PastInv, TypeInv, TypeOK, SharedTypeOK, ClockAhead
<1>1. CASE UNCHANGED <<file, past>>
  BY <1>1 DEF sharedVars
<1>2. CASE Replace
  <2>1. candidate \in Texts \ {Gone}
    BY <1>2, TextsDiffer DEF Replace, At, PastInv, TypeInv, TextsAreThere, Loads, Texts
  <2> QED
    BY <1>0, <1>2, <2>1, FreshIsAWrite DEF Replace
<1>3. CASE EditBegins
  <2>1. CASE file' = [file EXCEPT !.text = Torn, !.at = clock] /\ Noted
    <3>1. file' = [text |-> Torn, at |-> clock, ino |-> file.ino]
      BY <1>0, <2>1
    <3>2. Torn \in Texts \ {Gone}
      BY TextsDiffer DEF Texts
    <3> QED
      BY <1>0, <2>1, <3>1, <3>2, FreshIsAWrite
  <2>2. CASE file' = [file EXCEPT !.text = Gone] /\ UNCHANGED past
    BY <2>2 DEF SharedNext, Vanish
  <2> QED
    BY <1>3, <2>1, <2>2 DEF EditBegins
<1>4. CASE RestoreBegins
  <2>1. file' = [text |-> Torn, at |-> clock, ino |-> file.ino]
    BY <1>0, <1>4 DEF RestoreBegins
  <2>2. Torn \in Texts \ {Gone}
    BY TextsDiffer DEF Texts
  <2> QED
    BY <1>0, <1>4, <2>1, <2>2, FreshIsAWrite DEF RestoreBegins
<1>5. CASE CreateEnds
  <2>1. PICK v \in Versions : Put(v, clock, IF file.text = Gone THEN clock ELSE file.ino)
    BY <1>5 DEF CreateEnds
  <2>2. v \in Texts \ {Gone}
    BY TextsDiffer DEF Texts
  <2> QED
    BY <1>0, <2>1, <2>2, FreshIsAWrite DEF Put
<1>6. CASE EditEnds
  <2>1. PICK v \in Versions : Put(v, clock, file.ino)
    BY <1>6 DEF EditEnds
  <2>2. v \in Texts \ {Gone}
    BY TextsDiffer DEF Texts
  <2> QED
    BY <1>0, <2>1, <2>2, FreshIsAWrite DEF Put
<1>7. CASE RestoreEnds
  <2>1. /\ file' = [text |-> hand.text, at |-> hand.at, ino |-> file.ino] /\ Noted
        /\ Recorded(hand.text, hand.at)
    BY <1>7 DEF RestoreEnds, Put, PastInv, OneTextPerTime
  <2>2. file.ino \in Inodes /\ hand.at \in Times
    BY <1>0, <1>7, TimesAreNat
    DEF AnyTimeMayBeGiven, RestoreEnds, PastInv, ClockAhead
  <2>3. CASE [text |-> hand.text, at |-> hand.at] \in past
    <3>1. UNCHANGED past
      BY <2>1, <2>3 DEF Noted, Stamp
    <3> QED
      BY <2>1, <2>2, <2>3, <3>1 DEF SharedNext, PutBack
  <2>4. CASE \A old \in past : old.at # hand.at
    <3>1. hand.text \in Texts \ {Gone}
      BY <1>0, <1>7 DEF RestoreEnds, PastInv, TypeInv, TextsAreThere, Hands
    <3> QED
      BY <2>1, <2>2, <2>4, <3>1 DEF SharedNext, Write
  <2> QED
    BY <2>1, <2>3, <2>4 DEF Recorded
<1>8. TunerNext /\ ~Replace => UNCHANGED <<file, past>>
  BY DEF TunerNext, TunerLoads, TunerWatches, RefreshAtStart, TunerMarks, WalkEnds,
         OpenCandidate, VerifyCandidate, BackupBegins, BackupEnds, SaveFails, TunerDies
<1>9. EditIsLost => UNCHANGED <<file, past>>
  BY DEF EditIsLost
<1> QED
  BY <1>1, <1>2, <1>3, <1>4, <1>5, <1>6, <1>7, <1>8, <1>9 DEF Next, HandNext, vars

\* Whatever the tuner and an operator do, and wherever the tuner is killed, the
\* device config moves as the process driver's watcher takes for granted: what is
\* proved of SharedFile's readers holds beside these writers.
THEOREM FileIsAsShared ==
  ASSUME AnyTimeMayBeGiven PROVE Spec => ImplementsSharedFile
<1>1. Init => PastInv /\ SharedInit
  BY TypeInit, ClockInit, PastInit DEF PastInv, Init
<1>2. PastInv /\ [Next]_vars => PastInv'
  BY TypeStep, ClockStep, PastStep DEF PastInv
<1>3. PastInv /\ [Next]_vars => [SharedNext]_sharedVars
  BY StepIsAllowed
<1> QED
  BY <1>1, <1>2, <1>3, PTL DEF Spec, SharedSpec, ImplementsSharedFile

-----------------------------------------------------------------------------
(* The file loads, but for what an operator does to it. *)

HandHoldsTheFile ==
    /\ hand.doing \in {"edit", "restore"} =>
         IF file.ino = hand.ino THEN file.text = Torn ELSE Loads(file.text)
    /\ hand.doing = "restore" /\ hand.text = Torn /\ file.ino = hand.ino
         => prev.text = Torn

SaveInv == TypeInv /\ ClockAhead /\ HandHoldsTheFile /\ SaveNeverTearsTheFile

LEMMA SaveInit == Init => HandHoldsTheFile /\ SaveNeverTearsTheFile
  BY DEF Init, SharedInit, HandHoldsTheFile, SaveNeverTearsTheFile, Loads

LEMMA SaveStep == SaveInv /\ [Next]_vars => (HandHoldsTheFile /\ SaveNeverTearsTheFile)'
<1> SUFFICES ASSUME SaveInv, [Next]_vars
             PROVE  (HandHoldsTheFile /\ SaveNeverTearsTheFile)'
  OBVIOUS
<1> USE DEF HandHoldsTheFile, SaveNeverTearsTheFile, Loads
<1>0. /\ file.ino \in Nat /\ hand.ino \in Nat /\ clock \in Nat
      /\ file.ino < clock /\ hand.ino < clock
      /\ hand \in Hands /\ prev \in Copies
      /\ file \in [text : Texts, at : Nat, ino : Nat]
      /\ HandHoldsTheFile /\ SaveNeverTearsTheFile
  BY TimesAreNat DEF SaveInv, ClockAhead, TypeInv, TypeOK, SharedTypeOK
<1>1. ASSUME UNCHANGED <<file, prev, hand>>
      PROVE  (HandHoldsTheFile /\ SaveNeverTearsTheFile)'
  BY <1>0, <1>1
<1>2. CASE TunerLoads \/ TunerWatches \/ RefreshAtStart \/ TunerMarks \/ WalkEnds
  BY <1>1, <1>2 DEF TunerLoads, TunerWatches, RefreshAtStart, TunerMarks, WalkEnds
<1>3. CASE OpenCandidate \/ VerifyCandidate \/ SaveFails \/ TunerDies
  BY <1>1, <1>3 DEF OpenCandidate, VerifyCandidate, SaveFails, TunerDies
<1>4. CASE BackupBegins
  BY <1>0, <1>4 DEF BackupBegins
<1>5. CASE BackupEnds
  BY <1>0, <1>5, TextsDiffer DEF BackupEnds, Texts
<1>6. CASE Replace
  <2>1. candidate \in Versions
    BY <1>6 DEF Replace, At, SaveInv, TypeInv, TextsAreThere
  <2> QED
    BY <1>0, <1>6, <2>1 DEF Replace
<1>7. CASE EditBegins
  <2>1. CASE file' = [file EXCEPT !.text = Torn, !.at = clock] /\ Noted
                /\ hand' = [hand EXCEPT !.doing = "edit", !.ino = file.ino]
    BY <1>0, <1>7, <2>1 DEF EditBegins, Hands
  <2>2. CASE /\ file' = [file EXCEPT !.text = Gone] /\ UNCHANGED past
             /\ hand' = [hand EXCEPT !.doing = "create"]
    BY <1>0, <1>7, <2>2 DEF EditBegins, Hands
  <2> QED
    BY <1>7, <2>1, <2>2 DEF EditBegins
<1>8. CASE RestoreBegins
  BY <1>0, <1>8 DEF RestoreBegins, Hands
<1>9. CASE CreateEnds \/ EditEnds
  BY <1>0, <1>9 DEF CreateEnds, EditEnds, Put, Hands
<1>10. CASE RestoreEnds
  <2>1. hand.text \in Versions \/ hand.text = Torn
    BY <1>0, <1>10 DEF RestoreEnds, SaveInv, TypeInv, TextsAreThere, Hands, Texts
  <2> QED
    BY <1>0, <1>10, <2>1 DEF RestoreEnds, Put, Hands
<1>11. CASE EditIsLost
  BY <1>0, <1>11 DEF EditIsLost, Hands
<1>12. CASE UNCHANGED vars
  BY <1>1, <1>12 DEF vars
<1> QED
  BY <1>2, <1>3, <1>4, <1>5, <1>6, <1>7, <1>8, <1>9, <1>10, <1>11, <1>12
  DEF Next, TunerNext, HandNext

\* A tuner killed at any step of a save, or failing there, leaves a config that
\* loads, for any number of saves and mishaps (save_device_config).
THEOREM FileIsNeverTorn == Spec => []SaveNeverTearsTheFile
<1>1. Init => SaveInv
  BY TypeInit, ClockInit, SaveInit DEF SaveInv
<1>2. SaveInv /\ [Next]_vars => SaveInv'
  BY TypeStep, ClockStep, SaveStep DEF SaveInv
<1>3. SaveInv => SaveNeverTearsTheFile
  BY DEF SaveInv
<1> QED
  BY <1>1, <1>2, <1>3, PTL DEF Spec

-----------------------------------------------------------------------------
(* What is replaced is in the backup, unless an operator came between. *)

BackupIsTheFile ==
    /\ file.text = Gone => hand.doing = "create"
    /\ tuner.alone => hand.doing = "nothing"
    /\ tuner.alone /\ tuner.pc = "replace" => prev.text = file.text

BackupInv == TypeInv /\ BackupIsTheFile

LEMMA BackupInit == Init => BackupIsTheFile
  BY TextsDiffer DEF Init, SharedInit, BackupIsTheFile

LEMMA BackupStep == BackupInv /\ [Next]_vars => BackupIsTheFile'
<1> SUFFICES ASSUME BackupInv, [Next]_vars PROVE BackupIsTheFile'
  OBVIOUS
<1> USE DEF BackupIsTheFile, At, Goto
<1>0. /\ tuner \in Tuners /\ hand \in Hands /\ prev \in Copies
      /\ file \in [text : Texts, at : Nat, ino : Nat]
      /\ BackupIsTheFile
  BY DEF BackupInv, TypeInv, TypeOK, SharedTypeOK
<1>1. CASE TunerLoads \/ TunerWatches \/ RefreshAtStart \/ TunerMarks \/ WalkEnds
  BY <1>0, <1>1
  DEF TunerLoads, TunerWatches, RefreshAtStart, TunerMarks, WalkEnds, Tuners
<1>2. CASE OpenCandidate \/ SaveFails \/ TunerDies
  BY <1>0, <1>2 DEF OpenCandidate, SaveFails, TunerDies, Tuners
<1>3. CASE VerifyCandidate
  BY <1>0, <1>3 DEF VerifyCandidate, Tuners
<1>4. CASE BackupBegins
  BY <1>0, <1>4 DEF BackupBegins, Tuners
<1>5. CASE BackupEnds
  BY <1>0, <1>5 DEF BackupEnds, Tuners
<1>6. CASE Replace
  <2>1. candidate # Gone
    BY <1>6, TextsDiffer DEF Replace, BackupInv, TypeInv, TextsAreThere, Loads
  <2> QED
    BY <1>0, <1>6, <2>1 DEF Replace, Tuners
<1>7. ASSUME Watched, file'.text = Gone => hand'.doing = "create" PROVE BackupIsTheFile'
  BY <1>0, <1>7 DEF Watched, Tuners
<1>8. CASE EditBegins
  <2>1. file'.text = Gone => hand'.doing = "create"
    BY <1>0, <1>8, TextsDiffer DEF EditBegins, Hands
  <2> QED
    BY <1>7, <1>8, <2>1 DEF EditBegins
<1>9. CASE RestoreBegins
  BY <1>0, <1>7, <1>9, TextsDiffer DEF RestoreBegins
<1>10. CASE CreateEnds \/ EditEnds
  BY <1>0, <1>7, <1>10, TextsDiffer DEF CreateEnds, EditEnds, Put
<1>11. CASE RestoreEnds
  BY <1>0, <1>7, <1>11 DEF RestoreEnds, Put, BackupInv, TypeInv, TextsAreThere
<1>12. CASE EditIsLost
  <2>1. file.text # Gone
    BY <1>0, <1>12 DEF EditIsLost
  <2> QED
    BY <1>7, <1>12, <2>1 DEF EditIsLost
<1>13. CASE UNCHANGED vars
  BY <1>0, <1>13 DEF vars
<1> QED
  BY <1>1, <1>2, <1>3, <1>4, <1>5, <1>6, <1>8, <1>9, <1>10, <1>11, <1>12, <1>13
  DEF Next, TunerNext, HandNext

\* What a save replaces is what its backup holds, for any number of saves and
\* mishaps, unless an operator was at the file meanwhile (save_device_config).
THEOREM ReplacedIsKept == Spec => ReplacedVersionIsKept
<1>1. Init => BackupInv
  BY TypeInit, BackupInit DEF BackupInv
<1>2. BackupInv /\ [Next]_vars => BackupInv'
  BY TypeStep, BackupStep DEF BackupInv
<1>3. BackupInv => (Replace /\ tuner.alone => prev.text = file.text)
  BY DEF BackupInv, BackupIsTheFile, Replace, At
<1> QED
  BY <1>1, <1>2, <1>3, PTL DEF Spec, ReplacedVersionIsKept

=============================================================================

----------------------------- MODULE DeviceFile -----------------------------
(***************************************************************************)
(* The writers of a node's device config: a tuner, and an operator.        *)
(*                                                                         *)
(* A tuner re-reads the file when it starts a run, measures, and saves: a  *)
(* candidate is written and read back, the file is copied to its backup,   *)
(* and the candidate is moved over the file.  An operator edits the file   *)
(* by hand or puts the backup back, and the tuner's process may be killed  *)
(* at any of these steps.                                                  *)
(***************************************************************************)
EXTENDS SharedFile

CONSTANTS MaxSaves,    \* runs a tuner writes back
          MaxMishaps   \* edits, restores and deaths of the tuner between them

ASSUME BoundsAreNat == MaxSaves \in Nat /\ MaxMishaps \in Nat

VARIABLES prev,       \* the backup: what it says and its time
          candidate,  \* the temporary file of the save being made
          tuner,      \* the tuner's worker: where it is, what it holds and has read
          hand,       \* what an operator is doing to the file
          clock,      \* the time of the next write
          left        \* saves and mishaps still to come

vars == <<file, past, prev, candidate, tuner, hand, clock, left>>

Init ==
    /\ SharedInit
    /\ prev = [text |-> Gone, at |-> 0]
    /\ candidate = Gone
    /\ tuner = [pc |-> "down", mem |-> file.text, seen |-> Unread, alone |-> FALSE]
    /\ hand = [doing |-> "nothing", text |-> Gone, at |-> 0, ino |-> 0]
    /\ clock = 2
    /\ left = [saves |-> MaxSaves, mishaps |-> MaxMishaps]

Spend(what) ==
    /\ left[what] > 0
    /\ left' = [left EXCEPT ![what] = @ - 1]

At(pc) == tuner.pc = pc
Goto(pc) == tuner' = [tuner EXCEPT !.pc = pc]

-----------------------------------------------------------------------------
(* The tuner's worker.                                                     *)

\* A file taken for a device whatever it says.
TunerLoadsAnything ==
    /\ At("down")
    /\ tuner' = [tuner EXCEPT !.pc = "watch", !.mem = file.text]
    /\ UNCHANGED <<file, past, prev, candidate, hand, clock, left>>

\* Building the device.  A file it cannot be built from ends the worker.
TunerLoads ==
    /\ At("down")
    /\ \/ \E v \in Readings(file.text) :
             tuner' = [tuner EXCEPT !.pc = "watch", !.mem = v]
       \/ ~Loads(file.text) /\ Goto("exited")
    /\ UNCHANGED <<file, past, prev, candidate, hand, clock, left>>

\* The watcher is armed when the path is assigned, after the device is built.
TunerWatches ==
    /\ At("watch")
    /\ tuner' = [tuner EXCEPT !.pc = "idle", !.seen = Signature(file)]
    /\ UNCHANGED <<file, past, prev, candidate, hand, clock, left>>

\* Only a file that was applied is marked as read; one that raised, before it was
\* applied or half-way, is not.
RefreshAtStart ==
    /\ At("idle")
    /\ \/ ~Changed(tuner.seen) /\ Goto("walk")
       \/ /\ Changed(tuner.seen)
          /\ \E v \in Readings(file.text) :
                tuner' = [tuner EXCEPT !.pc = "mark", !.mem = v]
       \/ /\ Changed(tuner.seen) /\ ~Loads(file.text)
          /\ \E v \in {tuner.mem} \cup Readings(file.text) :
                tuner' = [tuner EXCEPT !.pc = "walk", !.mem = v]
    /\ UNCHANGED <<file, past, prev, candidate, hand, clock, left>>

TunerMarks ==
    /\ At("mark")
    /\ tuner' = [tuner EXCEPT !.pc = "walk", !.seen = Signature(file)]
    /\ UNCHANGED <<file, past, prev, candidate, hand, clock, left>>

\* The walk moves the device in memory; a run that failed, that checked fidelity
\* or that had nothing to recalibrate is not written back.
WalkEnds ==
    /\ At("walk")
    /\ \E v \in Versions, next \in {"idle", "dump"} :
          tuner' = [tuner EXCEPT !.mem = v, !.pc = next]
    /\ UNCHANGED <<file, past, prev, candidate, hand, clock, left>>

\* The file itself opened for writing, with no candidate beside it.
OpenInPlace ==
    /\ At("dump")
    /\ Spend("saves")
    /\ candidate' = Torn
    /\ file' = [file EXCEPT !.text = Torn, !.at = clock] /\ Noted
    /\ clock' = clock + 1
    /\ Goto("verify")
    /\ UNCHANGED <<prev, hand>>

\* The candidate is created beside the file and written.
OpenCandidate ==
    /\ At("dump")
    /\ Spend("saves")
    /\ candidate' = Torn
    /\ Goto("verify")
    /\ UNCHANGED <<file, past, prev, hand, clock>>

\* Forced to disk and read back: only what compares equal goes on.  `alone` is
\* history: no operator has been at the file since.
VerifyCandidate ==
    /\ At("verify")
    /\ candidate' = tuner.mem
    /\ tuner' = [tuner EXCEPT !.pc = "backup", !.alone = hand.doing = "nothing"]
    /\ UNCHANGED <<file, past, prev, hand, clock, left>>

\* A backup taken once and kept.
BackupTheFirst ==
    /\ At("backup")
    /\ IF prev.text # Gone
       THEN Goto("replace") /\ UNCHANGED <<prev, clock>>
       ELSE /\ prev' = [text |-> Torn, at |-> clock]
            /\ clock' = clock + 1
            /\ Goto("copying")
    /\ UNCHANGED <<file, past, candidate, hand, left>>

\* The file is copied to its backup; a file that is not there has none.
BackupBegins ==
    /\ At("backup")
    /\ IF file.text = Gone
       THEN Goto("replace") /\ UNCHANGED <<prev, clock>>
       ELSE /\ prev' = [text |-> Torn, at |-> clock]
            /\ clock' = clock + 1
            /\ Goto("copying")
    /\ UNCHANGED <<file, past, candidate, hand, left>>

\* shutil.copy2 carries the time of what it copied over.
BackupEnds ==
    /\ At("copying")
    /\ file.text # Gone
    /\ prev' = [text |-> file.text, at |-> file.at]
    /\ Goto("replace")
    /\ UNCHANGED <<file, past, candidate, hand, clock, left>>

\* The candidate given the attributes of the file it takes over from.
ReplaceLikeForLike ==
    /\ At("replace")
    /\ file' = [text |-> candidate, at |-> file.at, ino |-> clock] /\ Noted
    /\ candidate' = Gone
    /\ clock' = clock + 1
    /\ Goto("idle")
    /\ UNCHANGED <<prev, hand, left>>

Replace ==
    /\ At("replace")
    /\ file' = [text |-> candidate, at |-> clock, ino |-> clock] /\ Noted
    /\ candidate' = Gone
    /\ clock' = clock + 1
    /\ Goto("idle")
    /\ UNCHANGED <<prev, hand, left>>

\* Whatever raises before the move takes the candidate with it.
SaveFails ==
    /\ tuner.pc \in {"verify", "backup", "copying", "replace"}
    /\ candidate' = Gone
    /\ Goto("idle")
    /\ UNCHANGED <<file, past, prev, hand, clock, left>>

\* The driver does not wait for a calibration to end: it terminates the worker
\* after five seconds, wherever that is.  A candidate left behind is never read.
TunerDies ==
    /\ ~At("down")
    /\ Spend("mishaps")
    /\ candidate' = Gone
    /\ Goto("down")
    /\ UNCHANGED <<file, past, prev, hand, clock>>

TunerNext ==
    \/ TunerLoads \/ TunerWatches \/ RefreshAtStart \/ TunerMarks \/ WalkEnds
    \/ OpenCandidate \/ VerifyCandidate \/ BackupBegins \/ BackupEnds \/ Replace
    \/ SaveFails \/ TunerDies

-----------------------------------------------------------------------------
(* The operator.  An edit or a copy writes into the inode it opened.       *)

Watched == tuner' = [tuner EXCEPT !.alone = FALSE]

\* An editor truncates the file, or a botched copy removes it first.
EditBegins ==
    /\ hand.doing = "nothing"
    /\ Spend("mishaps")
    /\ \/ /\ file' = [file EXCEPT !.text = Torn, !.at = clock]
          /\ hand' = [hand EXCEPT !.doing = "edit", !.ino = file.ino]
          /\ Noted
       \/ /\ file' = [file EXCEPT !.text = Gone]
          /\ hand' = [hand EXCEPT !.doing = "create"]
          /\ UNCHANGED past
    /\ clock' = clock + 1
    /\ Watched /\ UNCHANGED <<prev, candidate>>

\* restore_backup: the backup over the file, in place.
RestoreBegins ==
    /\ hand.doing = "nothing"
    /\ prev.text # Gone /\ file.text # Gone
    /\ Spend("mishaps")
    /\ file' = [file EXCEPT !.text = Torn, !.at = clock]
    /\ hand' = [doing |-> "restore", text |-> prev.text, at |-> prev.at, ino |-> file.ino]
    /\ clock' = clock + 1
    /\ Noted
    /\ Watched /\ UNCHANGED <<prev, candidate>>

Put(text, at, ino) ==
    /\ file' = [text |-> text, at |-> at, ino |-> ino]
    /\ Noted
    /\ hand' = [hand EXCEPT !.doing = "nothing"]
    /\ clock' = clock + 1
    /\ Watched /\ UNCHANGED <<prev, candidate, left>>

CreateEnds ==
    /\ hand.doing = "create"
    /\ \E v \in Versions : Put(v, clock, IF file.text = Gone THEN clock ELSE file.ino)

EditEnds ==
    /\ hand.doing = "edit" /\ file.ino = hand.ino
    /\ \E v \in Versions : Put(v, clock, file.ino)

RestoreEnds ==
    /\ hand.doing = "restore" /\ file.ino = hand.ino
    /\ Put(hand.text, hand.at, file.ino)

\* The tuner has moved another inode over the one being written.
EditIsLost ==
    /\ hand.doing \in {"edit", "restore"} /\ file.ino # hand.ino
    /\ hand' = [hand EXCEPT !.doing = "nothing"]
    /\ Watched /\ UNCHANGED <<file, past, prev, candidate, clock, left>>

HandNext ==
    \/ EditBegins \/ RestoreBegins
    \/ CreateEnds \/ EditEnds \/ RestoreEnds \/ EditIsLost

Next == TunerNext \/ HandNext

Spec == Init /\ [][Next]_vars

-----------------------------------------------------------------------------
(* Properties.                                                             *)

Copies == [text : Texts, at : Nat]
Tuners == [pc : {"down", "watch", "exited", "idle", "mark", "walk", "dump",
                 "verify", "backup", "copying", "replace"},
           mem : Versions, seen : Signatures, alone : BOOLEAN]
Hands == [doing : {"nothing", "edit", "create", "restore"},
          text : Texts, at : Nat, ino : Nat]
Counts == [saves : Nat, mishaps : Nat]

TypeOK ==
    /\ SharedTypeOK
    /\ prev \in Copies
    /\ candidate \in Texts
    /\ tuner \in Tuners
    /\ hand \in Hands
    /\ clock \in Nat
    /\ left \in Counts

\* A tuner killed at any step of a save, or failing there, leaves a config the
\* process driver can load: a file that is part-written is an operator's, who is
\* still at it or has put back a backup that was (save_device_config).
SaveNeverTearsTheFile ==
    Loads(file.text) \/ hand.doing # "nothing" \/ prev.text = Torn

\* What a save replaces can be put back: unless an operator was at the file in
\* the meantime, the backup is what the file said (save_device_config's .prev).
ReplacedVersionIsKept ==
    [][Replace /\ tuner.alone => prev.text = file.text]_vars

\* Whatever the tuner and the operator do between them, the file moves as its
\* readers take for granted: a time it bore before comes back only with what it
\* said then (ConfigFile's signature).
ImplementsSharedFile == SharedSpec

\* What the tuner marks as read is what it has read (ConfigFile.mark_read).  It
\* does not hold: the mark is of the file as it is after the reading.
TunerReadWhatItMarked ==
    [][TunerMarks /\ Loads(file.text) => tuner.mem = file.text]_vars

\* A run that writes nothing leaves the backup what it was
\* (docs/driver/operations.md).  It does not hold.
FailedSaveLeavesTheBackup ==
    [][TunerDies \/ SaveFails => Loads(prev.text) \/ prev.text = Gone]_vars

=============================================================================

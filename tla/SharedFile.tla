----------------------------- MODULE SharedFile -----------------------------
(***************************************************************************)
(* The device config as its readers know it: a file that somebody else     *)
(* writes.  It says one of the Versions, is Torn when it is part-written,  *)
(* or is Gone.  A reader tells one version from the next by a signature,   *)
(* the file's time and its inode; `past` is history, what the file has     *)
(* said and the time it bore.                                              *)
(*                                                                         *)
(* A write gives the file a time it never had, which is what st_mtime_ns   *)
(* and st_size together are taken for.  A copy that keeps metadata brings  *)
(* an old time back, with what the file said then.                         *)
(***************************************************************************)
EXTENDS Naturals

CONSTANTS Versions,    \* the parameter sets a device may hold
          Torn, Gone,  \* what a file says that is none of them
          Times,       \* the times and the inodes a file may bear
          Inodes

ASSUME TextsDiffer == Torn \notin Versions /\ Gone \notin Versions /\ Torn # Gone
ASSUME TimesAndInodesAreNat ==
    (\A t \in Times \cup Inodes : t \in Nat) /\ 1 \in Times /\ 1 \in Inodes

VARIABLES file, past

sharedVars == <<file, past>>

Texts == Versions \cup {Torn, Gone}
Signatures == [at : Nat, ino : Nat]
Unread == [at |-> 0, ino |-> 0]

\* The inode alone, which an edit in place keeps.
InodeOf(f) == IF f.text = Gone THEN Unread ELSE [at |-> 0, ino |-> f.ino]

Signature(f) == IF f.text = Gone THEN Unread ELSE [at |-> f.at, ino |-> f.ino]

\* A vanished file is not a change.
Changed(seen) == file.text # Gone /\ Signature(file) # seen

Loads(text) == text \in Versions

\* What a device may hold after reading a text.  A part-written file may parse, as
\* nothing or as less than was to be written: what it says is then mixed with what
\* the device held.
Readings(text) == IF Loads(text) THEN {text} ELSE IF text = Torn THEN Versions ELSE {}

Stamp(f) == [text |-> f.text, at |-> f.at]

\* The file in the state reached says what it does for the first time at its time.
Noted == past' = past \cup {Stamp(file')}

SharedInit ==
    /\ file \in [text : Versions, at : {1}, ino : {1}]
    /\ past = {Stamp(file)}

Write == /\ file' \in [text : Texts \ {Gone}, at : Times, ino : Inodes]
         /\ \A old \in past : old.at # file'.at
         /\ Noted

PutBack == \E old \in past :
              /\ file' \in [text : {old.text}, at : {old.at}, ino : Inodes]
              /\ UNCHANGED past

Vanish == /\ file' = [file EXCEPT !.text = Gone]
          /\ UNCHANGED past

SharedNext == Write \/ PutBack \/ Vanish

SharedSpec == SharedInit /\ [][SharedNext]_sharedVars

SharedTypeOK ==
    /\ file \in [text : Texts, at : Nat, ino : Nat]
    /\ past \subseteq [text : Texts \ {Gone}, at : Nat]

=============================================================================

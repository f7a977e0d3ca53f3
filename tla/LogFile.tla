------------------------------- MODULE LogFile -------------------------------
(***************************************************************************)
(* The files of log.cpp: WriteToFile and OpenNewLogFile.  A file name is   *)
(* the second it was made in and a sequence number; a message that would   *)
(* take the file over MAX_FILE_SIZE opens another.  One thread writes (the *)
(* logger thread, or the callers of LogSync one at a time).  A name that   *)
(* cannot be opened although it is free makes file_size throw, which ends  *)
(* the process; it may be started again.                                   *)
(***************************************************************************)
EXTENDS Naturals, FiniteSetsExt

CONSTANTS MaxFileSize,    \* MAX_FILE_SIZE
          Lengths,        \* of messages
          MaxTime, MaxTotal   \* bounds

VARIABLES now,            \* the second GetCurrentTimeString gives
          size,           \* [name -> bytes], only for files that exist
          logFile,        \* the open file, or NoFile
          currentFileSize,
          total           \* bytes of all messages written

vars == <<now, size, logFile, currentFileSize, total>>

NoFile == <<>>
Name(seq) == <<now, seq>>
Exists(f) == f \in DOMAIN size
Roomy(f) == Exists(f) /\ size[f] < MaxFileSize

Init == now = 0 /\ size = <<>> /\ logFile = NoFile /\ currentFileSize = 0 /\ total = 0

(* A file the search stops at: a free name, created, or one with room.     *)
RoomyOrNew(f) == ~Exists(f) \/ Roomy(f)

(* OpenNewLogFile: the plain name of this second if it exists with room,   *)
(* else the first of the numbers from 2 on that is free or has room; of    *)
(* one number more than there are files one is free.                       *)
Opened == IF Roomy(Name(0)) THEN Name(0)
          ELSE Name(Min({seq \in 2..(Cardinality(DOMAIN size) + 2) : RoomyOrNew(Name(seq))}))

(* What currentFileSize becomes: 0 for number 2, also when that file had   *)
(* bytes, and unchanged for a file created under a later number.           *)
SizeAfterOpen ==
    IF Opened = Name(2) THEN 0
    ELSE IF Roomy(Opened) THEN size[Opened] ELSE currentFileSize

(* Mode "a" keeps the bytes of a file with room, mode "w" starts at none.  *)
WithOpened == [f \in DOMAIN size \cup {Opened} |-> IF f = Opened /\ ~Roomy(f) THEN 0 ELSE size[f]]

(* Initialize of a process: it may start again in the same second.         *)
Initialize ==
    /\ logFile = NoFile
    /\ logFile' = Opened /\ currentFileSize' = SizeAfterOpen /\ size' = WithOpened
    /\ UNCHANGED <<now, total>>

Shutdown ==
    /\ logFile # NoFile
    /\ logFile' = NoFile /\ currentFileSize' = 0
    /\ UNCHANGED <<now, size, total>>

(* WriteToFile; a rotation closes the file and opens another first.        *)
WriteToFile(len) ==
    /\ logFile # NoFile /\ total + len <= MaxTotal
    /\ total' = total + len
    /\ \/ /\ currentFileSize + len <= MaxFileSize
          /\ size' = [size EXCEPT ![logFile] = @ + len]
          /\ currentFileSize' = currentFileSize + len
          /\ UNCHANGED logFile
       \/ /\ currentFileSize + len > MaxFileSize
          /\ logFile' = Opened
          /\ size' = [WithOpened EXCEPT ![Opened] = @ + len]
          /\ currentFileSize' = SizeAfterOpen + len
    /\ UNCHANGED now

OpenThrows(len) ==
    /\ logFile # NoFile /\ currentFileSize + len > MaxFileSize /\ ~Exists(Opened)
    /\ logFile' = NoFile /\ currentFileSize' = 0
    /\ UNCHANGED <<now, size, total>>

Tick == now < MaxTime /\ now' = now + 1 /\ UNCHANGED <<size, logFile, currentFileSize, total>>

Next == Initialize \/ Shutdown \/ Tick \/ \E len \in Lengths : WriteToFile(len) \/ OpenThrows(len)

Spec == Init /\ [][Next]_vars

----------------------------------------------------------------------------
TypeOK ==
    /\ now \in 0..MaxTime /\ total \in 0..MaxTotal /\ currentFileSize \in Nat
    /\ logFile \in DOMAIN size \cup {NoFile}
    /\ \A f \in DOMAIN size : size[f] \in Nat

(* Rotations and restarts within a second meet files that exist: no byte   *)
(* of an earlier file is lost, and since the search for a file tests the   *)
(* real size, none reaches twice the limit although currentFileSize may be *)
(* less than the size of the file it stands for.                           *)
FilesKeepBytes ==
    /\ total = FoldSet(LAMBDA f, n : n + size[f], 0, DOMAIN size)
    /\ \A f \in DOMAIN size : size[f] < 2 * MaxFileSize
=============================================================================

----------------------------- MODULE RotatingFile -----------------------------
(***************************************************************************)
(* RotatingFileWriter of pkg/logger/logger.go: lines appended to a file    *)
(* that is renamed to a backup, named after the second, when it would grow *)
(* too large. Each method holds the mutex and is one step. The file system *)
(* is external: a rename may fail, and replaces a file of the new name; an *)
(* open may fail; a write may fail with part of the line in the file.      *)
(***************************************************************************)
EXTENDS Integers

CONSTANTS
  Size,      \* sizes of the lines written
  MaxSize,   \* maxSize in the unit of Size
  MaxLines,  \* bound: lines written
  MaxTime    \* bound: seconds that pass

Line == 1..MaxLines
Second == 0..MaxTime

VARIABLES
  sizes,     \* Line -> its size
  next,      \* the line that comes next
  logged,    \* lines whose Write returned no error
  exists,    \* there is a file of the path
  file,      \* complete lines in it
  length,    \* its length
  size,      \* currentSize
  handle,    \* currentFile is open
  spilt,     \* history: how much of its length failed writes have left
  backups,   \* Second -> lines in the backup of that name
  now,       \* the second
  replaced   \* history: lines of backups that a rotation of the same second replaced

vars == <<sizes, next, logged, exists, file, length, size, handle, spilt, backups, now,
          replaced>>

TypeOK ==
  /\ sizes \in [Line -> Size] /\ next \in 1..MaxLines + 1
  /\ exists \in BOOLEAN /\ handle \in BOOLEAN
  /\ {logged, file, replaced} \subseteq SUBSET Line
  /\ {length, size, spilt} \subseteq Nat
  /\ backups \in [Second -> SUBSET Line] /\ now \in Second

\* NewRotatingFileWriter, on a path without a file.
Init ==
  /\ sizes \in [Line -> Size] /\ next = 1 /\ logged = {}
  /\ exists = TRUE /\ file = {} /\ length = 0 /\ size = 0
  /\ handle = TRUE /\ spilt = 0
  /\ backups = [t \in Second |-> {}] /\ now = 0 /\ replaced = {}

\* Mutant: the size of a file that is there already is not looked at.
OpenedAtZero(found) == 0

\* openFile appends to a file that is there and starts from its size.
OpenedAt(found) == found

Fits(l) == size + sizes[l] <= MaxSize

\* The next line is written to the open file, which has these lines, this length, so
\* much of it spilt, and of which so much is counted. A write that fails may have
\* appended the beginning of the line, which is not counted.
AppendLine(lines, found, counted, spill) ==
  /\ next' = next + 1
  /\ \/ /\ file' = lines \cup {next} /\ length' = found + sizes[next]
        /\ size' = counted + sizes[next] /\ spilt' = spill
        /\ logged' = logged \cup {next}
     \/ /\ \E n \in 0..sizes[next] - 1 : length' = found + n /\ spilt' = spill + n
        /\ file' = lines /\ size' = counted
        /\ UNCHANGED logged

\* Write to the open file, without a rotation.
WriteFits ==
  /\ next \in Line /\ Fits(next)
  /\ handle
  /\ AppendLine(file, length, size, spilt)
  /\ UNCHANGED <<sizes, exists, handle, backups, now, replaced>>

\* A line that fits does not open the file again: writing fails.
WriteFails ==
  /\ next \in Line /\ Fits(next)
  /\ ~handle
  /\ next' = next + 1
  /\ UNCHANGED <<sizes, logged, exists, file, length, size, handle, spilt, backups, now, replaced>>

\* os.Rename: the file becomes the backup of this second, in place of an earlier one.
Rename ==
  /\ replaced' = replaced \cup backups[now]
  /\ backups' = [backups EXCEPT ![now] = file]

\* A line that does not fit renames the file, opens a new one and is written,
\* however large it is.
Rotate ==
  /\ next \in Line /\ ~Fits(next) /\ exists
  /\ Rename
  /\ handle' = TRUE
  /\ AppendLine({}, 0, OpenedAt(0), 0)
  /\ UNCHANGED <<sizes, exists, now>>

\* The rename fails, always when there is no file: the old one is closed by then
\* and currentSize stays.
RenameFails ==
  /\ next \in Line /\ ~Fits(next)
  /\ handle' = FALSE /\ next' = next + 1
  /\ UNCHANGED <<sizes, logged, exists, file, length, size, spilt, backups, now, replaced>>

\* The file is renamed and no new one opened: the next rename finds none, unless
\* one was created and only its Stat failed.
OpenFails ==
  /\ next \in Line /\ ~Fits(next) /\ exists
  /\ Rename
  /\ exists' \in BOOLEAN /\ file' = {} /\ length' = 0 /\ spilt' = 0 /\ handle' = FALSE
  /\ next' = next + 1
  /\ UNCHANGED <<sizes, logged, size, now>>

Close ==
  /\ handle
  /\ handle' = FALSE
  /\ UNCHANGED <<sizes, next, logged, exists, file, length, size, spilt, backups, now,
                 replaced>>

\* The process ends, by a crash or after Close, and starts again.
Restart ==
  /\ exists' = TRUE /\ handle' = TRUE
  /\ size' = OpenedAt(length)
  /\ UNCHANGED <<sizes, next, logged, file, length, spilt, backups, now, replaced>>

Tick ==
  /\ now < MaxTime
  /\ now' = now + 1
  /\ UNCHANGED <<sizes, next, logged, exists, file, length, size, handle, spilt, backups,
                 replaced>>

Next ==
  \/ WriteFits \/ WriteFails \/ Rotate \/ RenameFails \/ OpenFails
  \/ Close \/ Restart \/ Tick

Spec == Init /\ [][Next]_vars

(***************************************************************************)
(* Properties                                                              *)
(***************************************************************************)

\* Whatever fails in a write or a rotation and whenever the process dies, a line that
\* was written is in the file or in a backup, unless a second rotation in the same
\* second took its backup's name; and the file outgrows maxSize, or a single line that
\* is larger, by no more than what failed writes have left in it.
RotationKeepsLines ==
  /\ logged \subseteq file \cup (UNION {backups[t] : t \in Second}) \cup replaced
  /\ \/ length <= MaxSize + spilt
     \/ \E l \in Line : file = {l} /\ length <= sizes[l] + spilt
===============================================================================

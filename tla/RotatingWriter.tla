--------------------------- MODULE RotatingWriter ---------------------------
(* The rotating log file (logging/rotate.go): a writer appends records to    *)
(* the live file and, when the next one would not fit, shifts the numbered   *)
(* backups up and moves the live file to slot 1, one system call after the   *)
(* other.  The process may crash between any two, and ConfigureLogging opens *)
(* the next writer on the same path before it swaps and closes the present   *)
(* one.  A record is as many units long as it has bytes, and the units are   *)
(* numbered as they are written.                                             *)
EXTENDS Naturals, FiniteSets, Sequences

CONSTANTS
  Configs,      \* file configurations writers are opened with
  MaxSlot,      \* the largest MaxBackups among them
  Longest,      \* the longest record; it may be longer than a file shall be
  Rough,        \* those under which the process may crash and start again, and
                \* system calls may fail; under the others instead
                \* ConfigureLogging may open a writer over the present one
  MaxWritten,   \* bound: units written
  MaxWriters,   \* bound: writers opened
  MaxFiles      \* bound: files (inodes) that exist at once

\* units is maxBytes, 0 for no limit (MaxSizeMB = 0).
ASSUME ConfigsKnown ==
  Configs \subseteq [units : Nat, backups : Nat, compress : BOOLEAN, age : BOOLEAN]

ASSUME Bounds ==
  /\ Longest \in Nat \ {0} /\ MaxSlot \in Nat \ {0}
  /\ \A c \in Configs : c.backups <= MaxSlot
  /\ MaxWritten \in Nat /\ MaxWriters \in Nat \ {0} /\ MaxFiles \in Nat
  /\ Rough \subseteq Configs

VARIABLES
  dir,          \* the directory: name -> file, 0 for none
  data,         \* the files: units held, in order, and the last change
  opened,       \* writers opened so far
  base,         \* the writer the log goes to, 0 before the first
  wpc,          \* where a writer is in Write
  cfg,          \* its configuration
  fd,           \* its file, 0 when closed
  size,         \* its idea of the length of the live file
  slot,         \* the loop variable of its rotation
  record,       \* the length of the record in Write, 0 for none
  doomed,       \* the names that pruneAge has still to remove
  last,         \* units written
  rotated,      \* history: the present writer has rotated the file
  disturbed,    \* history: what has gone wrong: "failed", a system call did;
                \* "outdated", a writer took over that did not know the live file;
                \* "halfway", name.1 was left beside name.1.gz; "halfpruned", a
                \* crash came when not all that was too old had been removed
  aged          \* changes made up to this one are older than MaxAgeDays

writer == <<wpc, cfg, fd, size, slot>>
disk   == <<dir, data>>
doing  == <<record, doomed>>
vars   == <<dir, data, opened, base, wpc, cfg, fd, size, slot, record, doomed, last,
            rotated, disturbed, aged>>

Writers  == 1 .. MaxWriters
Files    == 1 .. MaxFiles

(* name, name.i and name.i.gz. *)
Live         == <<0, FALSE>>
BackupNames  == (1 .. MaxSlot + 1) \X BOOLEAN
Names        == {Live} \union BackupNames
Backup(w, i) == <<i, cfg[w].compress>>
Tmp          == <<1, FALSE>>

Empty == [recs |-> <<>>, mtime |-> 0]
WriterPC == {"none", "idle", "drop", "shift", "move", "create", "compress",
             "untmp", "prune", "remove", "reopen", "append", "closed"}

Elements(q) == {q[i] : i \in DOMAIN q}
Stored      == UNION {Elements(data[dir[n]].recs) : n \in {m \in Names : dir[m] # 0}}

IsRough == \A w \in Writers : cfg[w] \in Rough

-----------------------------------------------------------------------------

Init ==
  /\ dir = [n \in Names |-> 0]
  /\ data = [f \in Files |-> Empty]
  /\ opened = 0 /\ base = 0
  /\ wpc = [w \in Writers |-> "none"]
  /\ cfg \in [Writers -> Rough] \union [Writers -> Configs \ Rough]
  /\ fd = [w \in Writers |-> 0]
  /\ size = [w \in Writers |-> 0]
  /\ slot = [w \in Writers |-> 0]
  /\ record = 0 /\ doomed = {}
  /\ last = 0 /\ rotated = FALSE /\ disturbed = {} /\ aged = 0

Goto(w, p) == wpc' = [wpc EXCEPT ![w] = p]

Unless(well, what) == IF well THEN disturbed ELSE disturbed \union {what}

(* A file nobody refers to any more gives up its content. *)
Unreferenced(d, h) == {f \in Files : (\A n \in Names : d[n] # f) /\ (\A w \in Writers : h[w] # f)}
Swept(d, h, c)     == [f \in Files |-> IF f \in Unreferenced(d, h) THEN Empty ELSE c[f]]

(* os.Rename: replaces what was at the new name; fails on a missing source.  *)
Renamed(a, b) == IF dir[a] = 0 THEN dir ELSE [dir EXCEPT ![b] = dir[a], ![a] = 0]
SetDir(d)     == dir' = d /\ data' = Swept(d, fd, data)

(* open(): the live file, created if missing, and its length. *)
OpenLive(w) ==
  IF dir[Live] # 0
  THEN /\ fd' = [fd EXCEPT ![w] = dir[Live]]
       /\ size' = [size EXCEPT ![w] = Len(data[dir[Live]].recs)]
       /\ UNCHANGED disk
  ELSE \E f \in Unreferenced(dir, fd) :
       /\ \A g \in Unreferenced(dir, fd) : f <= g
       /\ fd' = [fd EXCEPT ![w] = f]
       /\ size' = [size EXCEPT ![w] = 0]
       /\ dir' = [dir EXCEPT ![Live] = f]
       /\ UNCHANGED data

-----------------------------------------------------------------------------
(* Write and rotate. *)

WriteOr(w, n, full) ==
  /\ base = w /\ wpc[w] = "idle" /\ fd[w] # 0 /\ last + n <= MaxWritten
  /\ record' = n
  /\ IF full
     THEN /\ fd' = [fd EXCEPT ![w] = 0]
          /\ data' = Swept(dir, fd', data)
          /\ Goto(w, IF cfg[w].backups > 0 THEN "drop" ELSE "move")
     ELSE Goto(w, "append") /\ UNCHANGED <<data, fd>>
  /\ UNCHANGED <<dir, opened, base, cfg, size, slot, doomed, last, rotated, aged, disturbed>>

(* Mutant of Write: the size of the record is not counted in. *)
WriteLate(w) == \E n \in 1 .. Longest : WriteOr(w, n, cfg[w].units > 0 /\ size[w] > cfg[w].units)

(* A record that would take the file over its limit, which an empty file     *)
(* does not have.                                                            *)
Exceeds(w, n) == cfg[w].units > 0 /\ size[w] > 0 /\ size[w] + n > cfg[w].units

(* A record is to be written; the file is first closed and rotated when that *)
(* is necessary.  A writer whose reopening failed has no file: its every     *)
(* write returns an error.                                                   *)
Write(w) == \E n \in 1 .. Longest : WriteOr(w, n, Exceeds(w, n))

(* ... whose closing reports an error: the record is refused, and the writer *)
(* has no file any more.                                                     *)
CloseFails(w) ==
  /\ IsRough /\ base = w /\ wpc[w] = "idle" /\ fd[w] # 0
  /\ \E n \in 1 .. Longest : Exceeds(w, n)
  /\ fd' = [fd EXCEPT ![w] = 0]
  /\ data' = Swept(dir, fd', data)
  /\ disturbed' = Unless(FALSE, "failed")
  /\ UNCHANGED <<dir, opened, base, wpc, cfg, size, slot, doing, last, rotated, aged>>

(* Mutant of DropOldest: the last slot shifts up instead of being removed. *)
DropNothing(w, ok) ==
  /\ wpc[w] = "drop"
  /\ slot' = [slot EXCEPT ![w] = cfg[w].backups]
  /\ Goto(w, "shift")
  /\ UNCHANGED <<disk, opened, base, cfg, fd, size, doing, last, rotated, aged, disturbed>>

(* os.Remove(backupName(MaxBackups)); its error is ignored. *)
DropOldest(w, ok) ==
  /\ wpc[w] = "drop"
  /\ SetDir(IF ok THEN [dir EXCEPT ![Backup(w, cfg[w].backups)] = 0] ELSE dir)
  /\ slot' = [slot EXCEPT ![w] = cfg[w].backups - 1]
  /\ Goto(w, IF cfg[w].backups > 1 THEN "shift" ELSE "move")
  /\ disturbed' = Unless(ok, "failed")
  /\ UNCHANGED <<opened, base, cfg, fd, size, doing, last, rotated, aged>>

(* One turn of the loop: name.i -> name.(i+1), while there is a lower     *)
(* slot.  The error of os.Rename is ignored.                                 *)
ShiftOne(w, ok, i) ==
  /\ wpc[w] = "shift"
  /\ SetDir(IF ok THEN Renamed(Backup(w, i), Backup(w, i + 1)) ELSE dir)
  /\ slot' = [slot EXCEPT ![w] = @ - 1]
  /\ Goto(w, IF slot[w] > 1 THEN "shift" ELSE "move")
  /\ disturbed' = Unless(ok, "failed")
  /\ UNCHANGED <<opened, base, cfg, fd, size, doing, last, rotated, aged>>

(* Mutant of Shift: from the lowest slot up. *)
ShiftUpwards(w, ok) == ShiftOne(w, ok, cfg[w].backups - slot[w])

(* From the oldest that stays down to slot 1. *)
Shift(w, ok) == ShiftOne(w, ok, slot[w])

MoveTo(w, ok, name) ==
  /\ wpc[w] = "move"
  /\ SetDir(IF ok THEN Renamed(Live, name) ELSE dir)
  /\ Goto(w, IF cfg[w].compress /\ ok /\ dir[Live] # 0 THEN "create" ELSE "prune")
  /\ disturbed' = Unless(ok, "failed")
  /\ UNCHANGED <<opened, base, cfg, fd, size, slot, doing, last, rotated, aged>>

(* Mutant of Move: the live file goes to the first slot that is free. *)
MoveToFree(w, ok) ==
  LET free == {i \in 1 .. cfg[w].backups : dir[Backup(w, i)] = 0}
  IN  MoveTo(w, ok, IF free = {} THEN Tmp ELSE Backup(w, CHOOSE i \in free : \A j \in free : i <= j))

(* The live file goes to slot 1; to be compressed, it is name.1 for now. *)
Move(w, ok) == MoveTo(w, ok, Tmp)

(* gzipFile: name.1.gz is created, or truncated if it exists ... *)
CreateGz(w) ==
  /\ wpc[w] = "create"
  /\ IF dir[<<1, TRUE>>] # 0
     THEN data' = [data EXCEPT ![dir[<<1, TRUE>>]] = [recs |-> <<>>, mtime |-> last]] /\ UNCHANGED dir
     ELSE \E f \in Unreferenced(dir, fd) :
            /\ \A g \in Unreferenced(dir, fd) : f <= g
            /\ dir' = [dir EXCEPT ![<<1, TRUE>>] = f]
            /\ data' = [data EXCEPT ![f] = [recs |-> <<>>, mtime |-> last]]
  /\ Goto(w, "compress")
  /\ UNCHANGED <<opened, base, cfg, fd, size, slot, doing, last, rotated, aged, disturbed>>

(* ... unless name.1 cannot be read or name.1.gz not be created: both stay.  *)
CreateGzFails(w) ==
  /\ IsRough /\ wpc[w] = "create"
  /\ Goto(w, "prune")
  /\ disturbed' = Unless(FALSE, "failed")
  /\ UNCHANGED <<disk, opened, base, cfg, fd, size, slot, doing, last, rotated, aged>>

(* ... and filled with what was read from name.1 before; when that fails,    *)
(* name.1 stays.                                                             *)
Compress(w, ok) ==
  /\ wpc[w] = "compress"
  /\ data' = IF ok /\ dir[Tmp] # 0
             THEN [data EXCEPT ![dir[<<1, TRUE>>]].recs = data[dir[Tmp]].recs]
             ELSE data
  /\ Goto(w, IF ok THEN "untmp" ELSE "prune")
  /\ disturbed' = Unless(ok, "failed")
  /\ UNCHANGED <<dir, opened, base, cfg, fd, size, slot, doing, last, rotated, aged>>

RemoveTmp(w, ok) ==
  /\ wpc[w] = "untmp"
  /\ SetDir(IF ok THEN [dir EXCEPT ![Tmp] = 0] ELSE dir)
  /\ Goto(w, "prune")
  /\ disturbed' = Unless(ok, "halfway")
  /\ UNCHANGED <<opened, base, cfg, fd, size, slot, doing, last, rotated, aged>>

PruneThose(w, names) ==
  /\ wpc[w] = "prune"
  /\ doomed' = names
  /\ Goto(w, IF names = {} THEN "reopen" ELSE "remove")
  /\ UNCHANGED <<disk, opened, base, cfg, fd, size, slot, record, last, rotated, aged, disturbed>>

Kept == {n \in BackupNames : dir[n] # 0}

(* Mutant of Prune: the comparison with the cutoff is the wrong way round. *)
PruneYounger(w, ok) == PruneThose(w, {n \in Kept : cfg[w].age /\ ok /\ data[dir[n]].mtime > aged})

(* pruneAge is after every name that begins with "name." and was last        *)
(* changed before the cutoff, unless it cannot list the directory.           *)
Prune(w, ok) == PruneThose(w, {n \in Kept : cfg[w].age /\ ok /\ data[dir[n]].mtime <= aged})

(* It removes one after the other, in the order of the directory, which is   *)
(* that of the names and not of their age (the model leaves the order open); *)
(* the error of os.Remove is ignored.                                        *)
RemoveOld(w, ok) ==
  /\ wpc[w] = "remove"
  /\ \E n \in doomed :
       /\ SetDir(IF ok THEN [dir EXCEPT ![n] = 0] ELSE dir)
       /\ doomed' = doomed \ {n}
  /\ Goto(w, IF doomed' = {} THEN "reopen" ELSE "remove")
  /\ disturbed' = Unless(ok, "failed")
  /\ UNCHANGED <<opened, base, cfg, fd, size, slot, record, last, rotated, aged>>

Reopen(w) ==
  /\ wpc[w] = "reopen"
  /\ OpenLive(w)
  /\ Goto(w, "append")
  /\ rotated' = TRUE
  /\ UNCHANGED <<opened, base, cfg, slot, doing, last, aged, disturbed>>

(* The reopening fails: the record is refused and w.file stays closed. *)
ReopenFails(w) ==
  /\ IsRough /\ wpc[w] = "reopen"
  /\ Goto(w, "idle")
  /\ record' = 0
  /\ disturbed' = Unless(FALSE, "failed")
  /\ UNCHANGED <<disk, opened, base, cfg, fd, size, slot, doomed, last, rotated, aged>>

(* One write of the record; n units of it arrive, all unless it fails. *)
AppendRecord(w, n) ==
  /\ wpc[w] = "append"
  /\ last' = last + n
  /\ data' = IF n = 0 THEN data
             ELSE [data EXCEPT ![fd[w]] = [recs |-> @.recs \o [i \in 1 .. n |-> last + i], mtime |-> last']]
  /\ size' = [size EXCEPT ![w] = @ + n]
  /\ record' = 0
  /\ Goto(w, "idle")
  /\ UNCHANGED <<dir, opened, base, cfg, fd, slot, doomed, rotated, aged, disturbed>>

-----------------------------------------------------------------------------
(* The writers of a process, and the process itself. *)

(* newRotatingWriter, on the first ConfigureLogging of a process ... *)
OpenFirst ==
  /\ base = 0 /\ opened < MaxWriters
  /\ LET w == opened + 1 IN
     /\ OpenLive(w) /\ Goto(w, "idle")
     /\ opened' = w /\ base' = w
  /\ UNCHANGED <<cfg, slot, doing, last, rotated, aged, disturbed>>

(* ... and on a later one: open at first beside the present writer ... *)
OpenNext ==
  /\ ~IsRough /\ base # 0 /\ opened = base /\ opened < MaxWriters
  /\ LET w == opened + 1 IN
     /\ OpenLive(w) /\ Goto(w, "idle")
     /\ opened' = w
  /\ UNCHANGED <<base, cfg, slot, doing, last, rotated, aged, disturbed>>

(* ... which it replaces when no write is in progress (SetBase waits for     *)
(* hub.mu) and which is then closed.                                         *)
SwapAndClose ==
  /\ base # 0 /\ opened > base /\ wpc[base] = "idle"
  /\ base' = opened
  /\ fd' = [fd EXCEPT ![base] = 0]
  /\ data' = Swept(dir, fd', data)
  /\ Goto(base, "closed")
  /\ rotated' = FALSE
  /\ disturbed' = Unless(fd[opened] = dir[Live] /\ size[opened] = Len(data[dir[Live]].recs),
                         "outdated")
  /\ UNCHANGED <<dir, opened, cfg, size, slot, doing, last, aged>>

(* The process ends between two system calls; the files stay. *)
Crash ==
  /\ IsRough /\ base # 0
  /\ base' = 0
  /\ fd' = [w \in Writers |-> 0]
  /\ data' = Swept(dir, fd', data)
  /\ wpc' = [w \in Writers |-> IF wpc[w] = "none" THEN "none" ELSE "closed"]
  /\ record' = 0 /\ doomed' = {}
  /\ disturbed' = IF wpc[base] = "remove" THEN Unless(FALSE, "halfpruned")
                  ELSE Unless(wpc[base] \notin {"create", "compress", "untmp"}, "halfway")
  /\ UNCHANGED <<dir, opened, cfg, size, slot, last, rotated, aged>>

(* Time passes MaxAgeDays for everything written so far. *)
Age ==
  /\ aged < last /\ \E w \in Writers : cfg[w].age
  /\ aged' \in (aged + 1) .. last
  /\ UNCHANGED <<disk, opened, base, writer, doing, last, rotated, disturbed>>

Outcomes == IF IsRough THEN BOOLEAN ELSE {TRUE}

WriterStep(w) ==
  \/ Write(w) \/ CloseFails(w) \/ CreateGz(w) \/ CreateGzFails(w)
  \/ Reopen(w) \/ ReopenFails(w)
  \/ \E n \in 0 .. record : (n = record \/ IsRough) /\ AppendRecord(w, n)
  \/ \E ok \in Outcomes :
       \/ DropOldest(w, ok) \/ Shift(w, ok) \/ Move(w, ok) \/ Compress(w, ok) \/ RemoveTmp(w, ok)
       \/ Prune(w, ok) \/ RemoveOld(w, ok)

Next ==
  \/ \E w \in Writers : WriterStep(w)
  \/ OpenFirst \/ OpenNext \/ SwapAndClose \/ Crash \/ Age

Spec == Init /\ [][Next]_vars

-----------------------------------------------------------------------------
(* Properties. *)

TypeOK ==
  /\ dir \in [Names -> {0} \union Files]
  /\ data \in [Files -> [recs : Seq(1 .. MaxWritten), mtime : 0 .. MaxWritten]]
  /\ opened \in 0 .. MaxWriters /\ base \in 0 .. MaxWriters
  /\ wpc \in [Writers -> WriterPC]
  /\ cfg \in [Writers -> Configs]
  /\ fd \in [Writers -> {0} \union Files]
  /\ size \in [Writers -> 0 .. MaxWritten]
  /\ slot \in [Writers -> 0 .. MaxSlot]
  /\ record \in 0 .. Longest /\ doomed \subseteq BackupNames
  /\ last \in 0 .. MaxWritten /\ aged \in 0 .. MaxWritten

(* Age of a name: name.i is older the greater its i, and the live file is    *)
(* the youngest.                                                             *)
Older(m, n) == m[1] > n[1]

(* Compression is on or off for all writers so far. *)
SameKind(gz) == \A w \in 1 .. opened : cfg[w].compress = gz

InOrder(m, n) ==
  dir[m] # 0 /\ dir[n] # 0 =>
    \A i \in DOMAIN data[dir[m]].recs, j \in DOMAIN data[dir[n]].recs :
      Older(m, n) \/ (m = n /\ i < j) => data[dir[m]].recs[i] < data[dir[n]].recs[j]

(* Reading the files from the oldest slot to the live file gives the records *)
(* in the order written (the shift of rotate keeps the slots in order),      *)
(* whatever system call fails and wherever the process stops.  Three things  *)
(* would break the order: compression that is switched on or off, a crash    *)
(* between name.1.gz and the removal of name.1 or the failure of that        *)
(* removal, and, without compression, a rotation between the opening of a    *)
(* new writer and its taking over.                                           *)
SlotsInOrder ==
  \A gz \in BOOLEAN :
    SameKind(gz) /\ "halfway" \notin disturbed /\ (gz \/ "outdated" \notin disturbed) =>
      \A m, n \in Names : InOrder(m, n)

(* A later writer keeps fewer backups: the slots beyond its own stay behind. *)
Lowered == \E v, w \in 1 .. opened : v < w /\ cfg[w].backups < cfg[v].backups

Undisturbed == disturbed \subseteq {"halfpruned"} /\ \E gz \in BOOLEAN : SameKind(gz)

(* What was removed is always the oldest: the files hold every unit since    *)
(* the first one they hold, whenever the process stops or an old backup      *)
(* goes, unless a system call of rotate failed or MaxBackups was lowered.    *)
(* Only pruneAge takes name.1 before the older name.2: while it is at it,    *)
(* and after a crash in its middle, what is older than MaxAgeDays may be     *)
(* missing, and nothing else.                                                *)
NoHole ==
  Undisturbed /\ ~Lowered => \A r \in Stored : \A q \in r .. last :
    \/ q \in Stored
    \/ q <= aged /\ ("halfpruned" \in disturbed \/ \E w \in Writers : wpc[w] = "remove")

(* With MaxBackups set, a rotation leaves no more than that many backups:    *)
(* "any beyond that ... are removed" (rotate.go:16), unless it was lowered.  *)
BackupsBounded ==
  ~Lowered
  /\ (\E gz \in BOOLEAN : SameKind(gz) /\ (gz => disturbed \subseteq {"outdated", "halfpruned"}))
  /\ base # 0 /\ rotated /\ wpc[base] = "idle" /\ cfg[base].backups > 0 =>
    Cardinality(Kept) <= cfg[base].backups

LiveLen == IF dir[Live] = 0 THEN 0 ELSE Len(data[dir[Live]].recs)

(* The live file grows beyond MaxSizeMB only by a record that is longer than *)
(* that itself and comes into an empty file: the count that the writer keeps *)
(* of the file's length is right, also after a restart.  Not so after a      *)
(* rename that failed, which leaves a full live file to be written to, and   *)
(* not when the writer was opened beside one that wrote on before it was     *)
(* replaced ("outdated").                                                    *)
LiveBounded ==
  [][ disturbed \subseteq {"halfway", "halfpruned"} /\ LiveLen' > LiveLen =>
        LiveLen = 0 \/ cfg[base].units = 0 \/ LiveLen' <= cfg[base].units ]_vars

(* A rotation that a crash interrupted is started over and drops one slot    *)
(* more; OpenFirst is the only way on after a crash.                         *)
Restarts == IF IsRough /\ opened > 0 THEN opened - 1 ELSE 0

(* What a file that is rotated holds at least, under any of the              *)
(* configurations: the next record did not fit.                              *)
Filled(w) == IF cfg[w].units > Longest THEN cfg[w].units - Longest + 1 ELSE 1
Worth     == CHOOSE u \in {Filled(w) : w \in Writers} : \A w \in Writers : u <= Filled(w)

(* Rotation removes no more than it must: the newest MaxBackups files' worth *)
(* of what was written is there, less one file for each crash, even in the   *)
(* middle of a rotation and after the writer was replaced, for the least     *)
(* MaxBackups there has been.                                                *)
Retention ==
  Undisturbed => \A r \in 1 .. last :
    r > aged /\ (\A w \in 1 .. opened : last - r + Restarts * Worth < cfg[w].backups * Worth)
      => r \in Stored

(* "Zero MaxBackups/MaxAgeDays disable those limits" (logging.go:75): with   *)
(* neither, nothing that was written is ever removed.                        *)
NoLimitKeepsAll ==
  (\A w \in Writers : cfg[w].backups = 0 /\ ~cfg[w].age) => 1 .. last \subseteq Stored

=============================================================================

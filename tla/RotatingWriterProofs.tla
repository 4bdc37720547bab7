------------------------ MODULE RotatingWriterProofs ------------------------
(* Safety of RotatingWriter, for any configurations and writers, records of  *)
(* any length, crashes and failures, and at every step of a rotation: the    *)
(* live file outgrows its limit only by a record that is longer than that,   *)
(* the slots are in the order of writing, the backups are no more than       *)
(* MaxBackups, and what is removed is the oldest there is, or, while         *)
(* pruneAge is at it, older than MaxAgeDays.                                 *)
EXTENDS RotatingWriter, TLAPS, FiniteSetTheorems, WellFoundedInduction

Gz   == <<1, TRUE>>
File == [recs : Seq(Nat), mtime : Nat]

Typed ==
  /\ dir \in [Names -> {0} \union Files]
  /\ data \in [Files -> File]
  /\ opened \in 0 .. MaxWriters /\ base \in 0 .. opened
  /\ wpc \in [Writers -> WriterPC]
  /\ cfg \in [Writers -> Configs]
  /\ fd \in [Writers -> {0} \union Files]
  /\ size \in [Writers -> Nat]
  /\ slot \in [Writers -> Nat]
  /\ record \in Nat /\ doomed \subseteq BackupNames
  /\ last \in Nat

(* The writer is between the renaming of the live file and the removal of    *)
(* name.1.                                                                   *)
Zipping == base # 0 /\ wpc[base] \in {"create", "compress", "untmp"}

(* ... and name.1.gz is of the present rotation.                             *)
Gzipped == base # 0 /\ wpc[base] \in {"compress", "untmp"}

(* No file has two names, and one without a name or a writer is empty.       *)
NoAlias == \A m, n \in Names : dir[m] # 0 /\ dir[m] = dir[n] => m = n
Fresh   == \A f \in Unreferenced(dir, fd) : data[f].recs = <<>>

(* Only the writer the log goes to is in Write; besides it there may be one  *)
(* that has been opened and waits.                                           *)
Place(w) ==
  /\ w # base => wpc[w] \in {"none", "idle", "closed"}
  /\ fd[w] # 0 => wpc[w] \in {"idle", "append"}
  /\ wpc[w] = "append" => fd[w] # 0
  /\ w \notin {base, opened} \/ base = 0 => fd[w] = 0 /\ wpc[w] \in {"none", "closed"}
  /\ w > opened => wpc[w] = "none"
  /\ wpc[w] = "drop" => cfg[w].backups > 0
  /\ wpc[w] = "shift" => slot[w] \in 1 .. cfg[w].backups - 1
  /\ wpc[w] \in {"create", "compress", "untmp"} => cfg[w].compress
  /\ wpc[w] = "compress" => dir[Gz] # 0 /\ data[dir[Gz]].recs = <<>>

Places ==
  /\ \A w \in Writers : Place(w)
  /\ base # 0 => wpc[base] \notin {"none", "closed"}
  /\ base # 0 /\ opened # base => wpc[opened] = "idle" /\ fd[opened] # 0 /\ ~IsRough

Counted == \A f \in Files : \A i \in DOMAIN data[f].recs : data[f].recs[i] <= last

(* What the writer takes for the length of the live file is its length.      *)
Sound == disturbed \subseteq {"halfway", "halfpruned"}

(* There is room for n more units, or the file is empty.                     *)
Fits(w, n) == cfg[w].units = 0 \/ size[w] = 0 \/ size[w] + n <= cfg[w].units

LiveInv ==
  /\ "outdated" \notin disturbed /\ base # 0 /\ fd[base] # 0 => fd[base] = dir[Live]
  /\ Sound /\ base # 0 =>
       /\ fd[base] # 0 => size[base] = Len(data[fd[base]].recs)
       /\ wpc[base] = "append" => Fits(base, record)
       /\ wpc[base] \in {"create", "compress", "untmp", "prune", "remove", "reopen"} /\ dir[Live] # 0
            => data[dir[Live]].recs = <<>>

Orderly(gz) ==
  SameKind(gz) /\ "halfway" \notin disturbed /\ (gz \/ "outdated" \notin disturbed)

Before(m, n) ==
  \A i \in DOMAIN data[dir[m]].recs, j \in DOMAIN data[dir[n]].recs :
    data[dir[m]].recs[i] < data[dir[n]].recs[j]

(* With compression, name.1 is there only while it is compressed, or beside  *)
(* an older name.1.gz, or an empty one, when that has failed; and a file     *)
(* that has been moved away from under a writer that waits is removed before *)
(* that writes to it.                                                        *)
OrderInv(gz) ==
  /\ \A n \in BackupNames : dir[n] # 0 => n[2] = gz \/ n = Tmp
  /\ gz => \A w \in Writers, n \in Names :
             fd[w] # 0 /\ dir[n] = fd[w] => n = Live \/ (n = Tmp /\ Zipping)
  /\ gz /\ ~Gzipped /\ dir[Tmp] # 0 /\ dir[Gz] # 0 => Before(Gz, Tmp)
  /\ \A m, n \in Names : InOrder(m, n)

DiskInv == NoAlias /\ Fresh /\ Counted
IInv ==
  /\ Typed /\ DiskInv /\ Places
  /\ LiveInv
  /\ \A gz \in BOOLEAN : Orderly(gz) => OrderInv(gz)

-----------------------------------------------------------------------------
(* Names, files and what is swept. *)

LEMMA NameFacts ==
  /\ Live \in Names /\ Tmp \in BackupNames /\ Gz \in BackupNames /\ Tmp # Gz
  /\ Live[1] = 0 /\ Tmp[1] = 1 /\ Gz[1] = 1 /\ Gz[2] = TRUE /\ Tmp[2] = FALSE
  /\ \A n \in BackupNames : n \in Names /\ n # Live /\ n[1] \in Nat /\ n[1] >= 1 /\ n[2] \in BOOLEAN
                            /\ (n[1] = 1 => n \in {Tmp, Gz})
  /\ \A n \in Names : n = Live \/ n \in BackupNames
  /\ \A m, n \in BackupNames : m[1] = n[1] /\ m[2] = n[2] => m = n
<1>1. MaxSlot \in Nat /\ MaxSlot >= 1
  BY Bounds
<1>2. \A n \in BackupNames : \E i \in 1 .. MaxSlot + 1 : \E z \in BOOLEAN : n = <<i, z>>
  BY DEF BackupNames
<1>3. \A i \in 1 .. MaxSlot + 1 : \A z \in BOOLEAN : <<i, z>> \in BackupNames
  BY DEF BackupNames
<1>4. Tmp \in BackupNames /\ Gz \in BackupNames
  <2>1. 1 \in 1 .. MaxSlot + 1
    BY <1>1
  <2>2. \A z \in BOOLEAN : <<1, z>> \in BackupNames
    BY <1>3, <2>1
  <2> QED BY <2>2, Zenon DEF Tmp, Gz
<1>5. /\ Live[1] = 0 /\ Tmp[1] = 1 /\ Gz[1] = 1 /\ Gz[2] = TRUE /\ Tmp[2] = FALSE
  BY DEF Live, Tmp, Gz
<1>6. \A n \in BackupNames : n[1] \in 1 .. MaxSlot + 1 /\ n[2] \in BOOLEAN /\ n = <<n[1], n[2]>>
  BY <1>2
<1>7. \A n \in BackupNames : n[1] \in Nat /\ n[1] >= 1
  BY <1>1, <1>6
<1>8. \A n \in BackupNames : n # Live
  BY <1>5, <1>7
<1>9. \A n \in BackupNames : n[1] = 1 => n \in {Tmp, Gz}
  BY <1>6 DEF Tmp, Gz
<1>10. \A m, n \in BackupNames : m[1] = n[1] /\ m[2] = n[2] => m = n
  BY <1>6
<1>11. Tmp # Gz
  BY <1>5
<1> QED BY <1>4, <1>5, <1>6, <1>7, <1>8, <1>9, <1>10, <1>11 DEF Names

LEMMA BackupFacts ==
  ASSUME Typed, NEW w \in Writers, NEW i \in 1 .. MaxSlot + 1
  PROVE  Backup(w, i) \in BackupNames /\ Backup(w, i)[1] = i /\ Backup(w, i)[2] = cfg[w].compress
<1>1. cfg[w].compress \in BOOLEAN
  BY ConfigsKnown DEF Typed
<1> QED BY <1>1 DEF Backup, BackupNames

LEMMA ConfigFacts ==
  ASSUME Typed, NEW w \in Writers
  PROVE  cfg[w].backups \in Nat /\ cfg[w].backups <= MaxSlot /\ MaxSlot \in Nat /\ cfg[w].compress \in BOOLEAN
BY ConfigsKnown, Bounds DEF Typed

LEMMA FileFacts ==
  /\ Empty \in File /\ Empty.recs = <<>> /\ Len(Empty.recs) = 0
  /\ 0 \notin Files
  /\ MaxFiles \in Nat /\ MaxWriters \in Nat /\ 0 \notin Writers
  /\ \A x \in File : x.recs \in Seq(Nat) /\ Len(x.recs) \in Nat /\ DOMAIN x.recs = 1 .. Len(x.recs)
BY Bounds DEF Empty, File, Files, Writers

LEMMA SweptFacts ==
  ASSUME NEW d, NEW h, NEW c, NEW f \in Files
  PROVE  /\ f \in Unreferenced(d, h) => Swept(d, h, c)[f] = Empty
         /\ f \notin Unreferenced(d, h) => Swept(d, h, c)[f] = c[f]
BY DEF Swept

(* A change of names, after which unreferenced files are swept, keeps what   *)
(* the files that are left hold.                                             *)
LEMMA DirKept ==
  ASSUME Typed, DiskInv, NEW d \in [Names -> {0} \union Files], NEW h \in [Writers -> {0} \union Files],
         \A m, n \in Names : d[m] # 0 /\ d[m] = d[n] => m = n,
         dir' = d, fd' = h, data' = Swept(d, h, data), last' = last
  PROVE  /\ data' \in [Files -> File] /\ DiskInv'
         /\ \A n \in Names : d[n] # 0 => data'[d[n]] = data[d[n]]
         /\ \A w \in Writers : h[w] # 0 => data'[h[w]] = data[h[w]]
<1>1. \A f \in Files : data'[f] = Empty \/ data'[f] = data[f]
  BY SweptFacts
<1>2. data' \in [Files -> File]
  BY <1>1, FileFacts DEF Typed, Swept
<1>3. \A n \in Names : d[n] # 0 => data'[d[n]] = data[d[n]]
  BY SweptFacts DEF Unreferenced
<1>4. \A w \in Writers : h[w] # 0 => data'[h[w]] = data[h[w]]
  BY SweptFacts DEF Unreferenced
<1>5. NoAlias'
  BY DEF NoAlias
<1>6. \A f \in Unreferenced(d, h) : data'[f].recs = <<>>
  BY SweptFacts, FileFacts DEF Unreferenced
<1>7. Fresh'
  BY <1>6 DEF Fresh
<1>8. Counted'
  <2> SUFFICES ASSUME NEW f \in Files, NEW i \in DOMAIN data'[f].recs PROVE data'[f].recs[i] <= last
    BY DEF Counted
  <2>1. CASE data'[f] = Empty
    BY <2>1 DEF Empty
  <2>2. CASE data'[f] = data[f]
    BY <2>2 DEF DiskInv, Counted
  <2> QED BY <1>1, <2>1, <2>2
<1> QED BY <1>2, <1>3, <1>4, <1>5, <1>7, <1>8 DEF DiskInv

(* open(): the writer has the live file and knows its length.                *)
LEMMA Opens ==
  ASSUME Typed, DiskInv, NEW w \in Writers, fd[w] = 0, OpenLive(w), last' = last
  PROVE  /\ dir' \in [Names -> {0} \union Files] /\ fd' \in [Writers -> {0} \union Files]
         /\ size' \in [Writers -> Nat] /\ data' = data /\ DiskInv'
         /\ fd'[w] # 0 /\ fd'[w] = dir'[Live] /\ size'[w] = Len(data[fd'[w]].recs)
         /\ \A v \in Writers : v # w => fd'[v] = fd[v] /\ size'[v] = size[v]
         /\ \A n \in Names : n # Live => dir'[n] = dir[n]
         /\ dir[Live] # 0 => dir' = dir
         /\ dir[Live] = 0 => /\ data[dir'[Live]].recs = <<>>
                             /\ \A v \in Writers : v # w => fd[v] # dir'[Live]
<1>0. Live \in Names /\ 0 \notin Files
  BY NameFacts, FileFacts
<1>1. CASE dir[Live] # 0
  <2>1. /\ fd' = [fd EXCEPT ![w] = dir[Live]] /\ dir' = dir /\ data' = data
        /\ size' = [size EXCEPT ![w] = Len(data[dir[Live]].recs)]
    BY <1>1 DEF OpenLive, disk
  <2>2. dir[Live] \in Files /\ Len(data[dir[Live]].recs) \in Nat
    BY <1>0, <1>1, FileFacts DEF Typed
  <2>3. Unreferenced(dir', fd') \subseteq Unreferenced(dir, fd)
    BY <1>0, <2>1, <2>2 DEF Unreferenced, Typed
  <2>4. DiskInv'
    BY <2>1, <2>3 DEF DiskInv, NoAlias, Fresh, Counted
  <2> QED BY <1>0, <1>1, <2>1, <2>2, <2>4 DEF Typed
<1>2. CASE dir[Live] = 0
  <2>1. PICK f \in Unreferenced(dir, fd) :
          /\ fd' = [fd EXCEPT ![w] = f] /\ dir' = [dir EXCEPT ![Live] = f] /\ data' = data
          /\ size' = [size EXCEPT ![w] = 0]
    BY <1>2 DEF OpenLive
  <2>2. /\ f \in Files /\ data[f].recs = <<>> /\ Len(data[f].recs) = 0
        /\ \A n \in Names : dir[n] # f
        /\ \A v \in Writers : fd[v] # f
    BY DEF Unreferenced, DiskInv, Fresh
  <2>3. /\ dir' \in [Names -> {0} \union Files] /\ fd' \in [Writers -> {0} \union Files]
        /\ size' \in [Writers -> Nat] /\ dir'[Live] = f /\ fd'[w] = f /\ size'[w] = 0
        /\ \A v \in Writers : v # w => fd'[v] = fd[v] /\ size'[v] = size[v]
        /\ \A n \in Names : n # Live => dir'[n] = dir[n]
    BY <1>0, <2>1, <2>2 DEF Typed
  <2>4. Unreferenced(dir', fd') \subseteq Unreferenced(dir, fd)
    BY <1>0, <1>2, <2>2, <2>3 DEF Unreferenced
  <2>5. DiskInv'
    BY <2>1, <2>2, <2>3, <2>4 DEF DiskInv, NoAlias, Fresh, Counted
  <2> QED BY <1>0, <1>2, <2>1, <2>2, <2>3, <2>5
<1> QED BY <1>1, <1>2

(* The records stay in order when every name takes what another one held, or *)
(* nothing, and an older name still takes from an older one.                 *)
LEMMA OrderMoves ==
  ASSUME NEW g \in [Names -> Names], \A m, n \in Names : InOrder(m, n),
         \A n \in Names : dir'[n] # 0 =>
           \/ data'[dir'[n]].recs = <<>>
           \/ dir[g[n]] # 0 /\ data'[dir'[n]].recs = data[dir[g[n]]].recs,
         \A m, n \in Names :
           /\ dir'[m] # 0 /\ data'[dir'[m]].recs # <<>>
           /\ dir'[n] # 0 /\ data'[dir'[n]].recs # <<>>
           /\ Older(m, n)
           => Older(g[m], g[n]) \/ Before(g[m], g[n])
  PROVE  \A m, n \in Names : InOrder(m, n)'
<1> SUFFICES ASSUME NEW m \in Names, NEW n \in Names, dir'[m] # 0, dir'[n] # 0,
                    NEW i \in DOMAIN data'[dir'[m]].recs, NEW j \in DOMAIN data'[dir'[n]].recs,
                    Older(m, n) \/ (m = n /\ i < j)
             PROVE  data'[dir'[m]].recs[i] < data'[dir'[n]].recs[j]
  BY DEF InOrder, Older
<1>1. data'[dir'[m]].recs # <<>> /\ data'[dir'[n]].recs # <<>>
  OBVIOUS
<1>2. /\ dir[g[m]] # 0 /\ data'[dir'[m]].recs = data[dir[g[m]]].recs
      /\ dir[g[n]] # 0 /\ data'[dir'[n]].recs = data[dir[g[n]]].recs
  BY <1>1
<1>3. Older(g[m], g[n]) \/ Before(g[m], g[n]) \/ (g[m] = g[n] /\ i < j)
  BY <1>1
<1>4. InOrder(g[m], g[n])
  OBVIOUS
<1> QED BY <1>2, <1>3, <1>4 DEF InOrder, Before

(* The same where names only disappear and files only lose what they hold.   *)
LEMMA OrderStays ==
  ASSUME \A m, n \in Names : InOrder(m, n),
         \A n \in Names : dir'[n] # 0 =>
           \/ data'[dir'[n]].recs = <<>>
           \/ dir[n] # 0 /\ data'[dir'[n]].recs = data[dir[n]].recs
  PROVE  \A m, n \in Names : InOrder(m, n)'
<1> DEFINE g == [n \in Names |-> n]
<1>1. g \in [Names -> Names] /\ \A n \in Names : g[n] = n
  OBVIOUS
<1> HIDE DEF g
<1>2. \A n \in Names : dir'[n] # 0 =>
           \/ data'[dir'[n]].recs = <<>>
           \/ dir[g[n]] # 0 /\ data'[dir'[n]].recs = data[dir[g[n]]].recs
  BY <1>1
<1>3. \A m, n \in Names : Older(m, n) => Older(g[m], g[n])
  BY <1>1
<1> QED BY <1>1, <1>2, <1>3, OrderMoves

(* What becomes of a premise: writers are added and things go wrong.         *)
LEMMA Premises ==
  ASSUME Typed, opened' \in Nat, opened' >= opened, cfg' = cfg, disturbed \subseteq disturbed'
  PROVE  /\ \A gz \in BOOLEAN : Orderly(gz)' => Orderly(gz)
         /\ Sound' => Sound
         /\ "outdated" \notin disturbed' => "outdated" \notin disturbed
<1>1. \A w \in 1 .. opened : w \in 1 .. opened'
  BY FileFacts DEF Typed
<1> QED BY <1>1 DEF Orderly, SameKind, Sound

(* A writer in Write is the one the log goes to.                             *)
LEMMA InWrite ==
  ASSUME IInv, NEW w \in Writers, wpc[w] \notin {"none", "idle", "closed"}
  PROVE  /\ w = base /\ base # 0 /\ w \in 1 .. opened
         /\ \A gz \in BOOLEAN : SameKind(gz) => cfg[w].compress = gz
         /\ wpc[w] # "append" => fd[w] = 0
         /\ wpc[w] # "append" /\ IsRough => \A v \in Writers : fd[v] = 0
         /\ Zipping <=> wpc[w] \in {"create", "compress", "untmp"}
         /\ Gzipped <=> wpc[w] \in {"compress", "untmp"}
<1>1. Place(w) /\ \A v \in Writers : Place(v)
  BY DEF IInv, Places
<1>2. w = base /\ base # 0 /\ w \in 1 .. opened
  BY <1>1, FileFacts DEF Place, Writers, IInv, Typed
<1>3. wpc[w] # "append" => fd[w] = 0
  BY <1>1 DEF Place
<1>4. wpc[w] # "append" /\ IsRough => \A v \in Writers : fd[v] = 0
  <2> SUFFICES ASSUME IsRough, wpc[w] # "append", NEW v \in Writers PROVE fd[v] = 0
    OBVIOUS
  <2>1. opened = base
    BY <1>2 DEF IInv, Places
  <2> QED BY <1>1, <1>2, <1>3, <2>1 DEF Place
<1> QED BY <1>2, <1>3, <1>4 DEF SameKind, Zipping, Gzipped

(* A step of a rotation that opens no file leaves every writer in its place. *)
LEMMA Passes ==
  ASSUME IInv, NEW w \in Writers, NEW p \in WriterPC \ {"none", "closed", "append"},
         wpc[w] \notin {"none", "idle", "closed", "append"},
         wpc' = [wpc EXCEPT ![w] = p], fd' = fd, cfg' = cfg, base' = base, opened' = opened,
         p = "drop" => cfg[w].backups > 0,
         p = "shift" => slot'[w] \in 1 .. cfg[w].backups - 1,
         p \in {"create", "compress", "untmp"} => cfg[w].compress,
         p = "compress" => dir'[Gz] # 0 /\ data'[dir'[Gz]].recs = <<>>
  PROVE  /\ Places' /\ wpc' \in [Writers -> WriterPC] /\ wpc'[w] = p
         /\ Zipping' <=> p \in {"create", "compress", "untmp"}
         /\ Gzipped' <=> p \in {"compress", "untmp"}
<1>1. w = base /\ base # 0 /\ w \in 1 .. opened /\ fd[w] = 0
  BY InWrite
<1>2. wpc' \in [Writers -> WriterPC] /\ wpc'[w] = p /\ \A v \in Writers : v # w => wpc'[v] = wpc[v]
  BY DEF IInv, Typed
<1>3. \A v \in Writers : Place(v)
  BY DEF IInv, Places
<1>4. opened \in Nat /\ p # "append"
  BY FileFacts DEF IInv, Typed
<1>5. Place(w)'
  BY <1>1, <1>2, <1>3, <1>4 DEF Place
<1>6. ASSUME NEW v \in Writers, v # w PROVE Place(v)'
  <2>1. wpc[v] \in {"none", "idle", "closed"} /\ wpc'[v] = wpc[v]
    BY <1>1, <1>2, <1>3, <1>6 DEF Place
  <2> QED BY <1>1, <1>3, <1>6, <2>1 DEF Place
<1>7. opened # base => wpc'[opened] = "idle" /\ fd[opened] # 0 /\ ~IsRough'
  <2>1. opened \in 0 .. MaxWriters
    BY DEF IInv, Typed
  <2>2. opened # base => opened \in Writers /\ wpc[opened] = "idle" /\ fd[opened] # 0 /\ ~IsRough
    BY <1>1, <2>1, FileFacts DEF Writers, IInv, Places
  <2> QED BY <1>1, <1>2, <2>2 DEF IsRough
<1> QED BY <1>1, <1>2, <1>5, <1>6, <1>7 DEF Places, Zipping, Gzipped

(* In the middle of a rotation the writer has no file, so that only the      *)
(* live file's own content matters.                                          *)
LEMMA LiveKept ==
  ASSUME IInv, NEW w \in Writers,
         wpc[w] \notin {"none", "idle", "closed", "append"}, wpc'[w] # "append",
         fd' = fd, base' = base,
         /\ Sound' /\ dir'[Live] # 0
         /\ wpc'[w] \in {"create", "compress", "untmp", "prune", "remove", "reopen"}
         => data'[dir'[Live]].recs = <<>>
  PROVE  LiveInv'
<1>1. w = base /\ base # 0 /\ fd[w] = 0
  BY InWrite
<1> QED BY <1>1 DEF LiveInv

(* A step of a rotation by which names may disappear and nothing else        *)
(* happens to the files.                                                     *)
LEMMA Keeps ==
  ASSUME IInv, NEW w \in Writers,
         NEW p \in {"shift", "move", "untmp", "prune", "remove", "reopen", "idle"},
         wpc[w] \notin {"none", "idle", "closed", "append"},
         wpc' = [wpc EXCEPT ![w] = p], fd' = fd, cfg' = cfg, base' = base, opened' = opened,
         size' = size, last' = last, slot' \in [Writers -> Nat], disturbed \subseteq disturbed',
         record' \in Nat, doomed' \subseteq BackupNames,
         dir' \in [Names -> {0} \union Files], data' \in [Files -> File], DiskInv',
         \A n \in Names : dir'[n] # 0 =>
           dir'[n] = dir[n] /\ data'[dir'[n]].recs = data[dir[n]].recs,
         p = "shift" => slot'[w] \in 1 .. cfg[w].backups - 1,
         p = "untmp" => Zipping,
         Zipping /\ p # "untmp" =>
           \/ dir'[Tmp] = 0 \/ "halfway" \in disturbed'
           \/ /\ \A v \in Writers : fd[v] = 0
              /\ wpc[w] = "create" \/ (dir[Gz] # 0 => data[dir[Gz]].recs = <<>>),
         Sound' /\ dir'[Live] # 0 /\ p \in {"untmp", "prune", "remove", "reopen"}
           => data[dir[Live]].recs = <<>>
  PROVE  IInv'
<1>1. p \in WriterPC \ {"none", "closed", "append"}
  BY DEF WriterPC
<1>2. /\ w = base /\ w \in 1 .. opened /\ (Zipping <=> wpc[w] \in {"create", "compress", "untmp"})
      /\ Gzipped <=> wpc[w] \in {"compress", "untmp"}
  BY InWrite
<1>3. p = "untmp" => cfg[w].compress
  BY <1>2 DEF IInv, Places, Place
<1>4. /\ Places' /\ wpc' \in [Writers -> WriterPC] /\ wpc'[w] = p
      /\ Zipping' <=> p = "untmp"
      /\ Gzipped' <=> p = "untmp"
  BY <1>1, <1>3, Passes
<1>5. Typed'
  BY <1>4 DEF IInv, Typed
<1>6. LiveInv'
  <2>1. dir'[Live] # 0 => dir[Live] # 0 /\ data'[dir'[Live]].recs = data[dir[Live]].recs
    BY NameFacts
  <2>2. /\ Sound' /\ dir'[Live] # 0
        /\ wpc'[w] \in {"create", "compress", "untmp", "prune", "remove", "reopen"}
        => data'[dir'[Live]].recs = <<>>
    BY <1>4, <2>1
  <2>3. wpc'[w] # "append"
    BY <1>1, <1>4
  <2> QED BY <2>2, <2>3, LiveKept
<1>7. ASSUME NEW gz \in BOOLEAN, Orderly(gz)' PROVE OrderInv(gz)'
  <2>1. Orderly(gz)
    BY <1>5, <1>7, Premises DEF IInv, Typed
  <2>2. OrderInv(gz)
    BY <2>1 DEF IInv
  <2>3. \A m, n \in Names : InOrder(m, n)'
    BY <2>2, OrderStays DEF OrderInv
  <2>4. \A n \in BackupNames : dir'[n] # 0 => n[2] = gz \/ n = Tmp
    BY <2>2, NameFacts DEF OrderInv
  <2>5. gz => \A v \in Writers, n \in Names :
                fd'[v] # 0 /\ dir'[n] = fd'[v] => n = Live \/ (n = Tmp /\ Zipping')
    BY <1>4, <1>7, <2>2 DEF OrderInv, Orderly
  <2>6. ASSUME gz, ~Gzipped', dir'[Tmp] # 0, dir'[Gz] # 0 PROVE Before(Gz, Tmp)'
    <3>1. /\ Tmp \in Names /\ dir[Tmp] # 0 /\ data'[dir'[Tmp]].recs = data[dir[Tmp]].recs
          /\ Gz \in Names /\ dir[Gz] # 0 /\ data'[dir'[Gz]].recs = data[dir[Gz]].recs
      BY <2>6, NameFacts
    <3>2. CASE ~Gzipped
      BY <2>2, <2>6, <3>1, <3>2 DEF OrderInv, Before
    <3>3. CASE Gzipped
      <4>1. data[dir[Gz]].recs = <<>>
        BY <1>2, <1>4, <1>7, <2>6, <3>1, <3>3 DEF Orderly
      <4> QED BY <3>1, <4>1 DEF Before
    <3> QED BY <3>2, <3>3
  <2> QED BY <2>3, <2>4, <2>5, <2>6 DEF OrderInv
<1> QED BY <1>4, <1>5, <1>6, <1>7 DEF IInv

(* Names disappear from the directory, and files without a name or a writer  *)
(* are swept.                                                                *)
LEMMA Removes ==
  ASSUME IInv, NEW d \in [Names -> {0} \union Files], \A n \in Names : d[n] \in {0, dir[n]},
         SetDir(d), fd' = fd, last' = last
  PROVE  /\ dir' \in [Names -> {0} \union Files] /\ data' \in [Files -> File] /\ DiskInv'
         /\ dir' = d
         /\ \A n \in Names : dir'[n] # 0 =>
              dir'[n] = dir[n] /\ data'[dir'[n]].recs = data[dir[n]].recs
<1>1. \A m, n \in Names : d[m] # 0 /\ d[m] = d[n] => m = n
  BY DEF IInv, DiskInv, NoAlias
<1>2. Typed /\ DiskInv /\ fd \in [Writers -> {0} \union Files]
  BY DEF IInv, Typed
<1>3. dir' = d /\ data' = Swept(d, fd, data)
  BY DEF SetDir
<1>4. data' \in [Files -> File] /\ DiskInv' /\ \A n \in Names : d[n] # 0 => data'[d[n]] = data[d[n]]
  BY <1>1, <1>2, <1>3, DirKept
<1> QED BY <1>3, <1>4

LEMMA DropOldestStep ==
  ASSUME IInv, NEW w \in Writers, NEW ok \in Outcomes, DropOldest(w, ok) PROVE IInv'
<1> DEFINE d == IF ok THEN [dir EXCEPT ![Backup(w, cfg[w].backups)] = 0] ELSE dir
<1>1. /\ wpc[w] = "drop" /\ SetDir(d) /\ fd' = fd /\ last' = last /\ cfg' = cfg /\ base' = base
      /\ opened' = opened /\ size' = size /\ disturbed \subseteq disturbed'
      /\ record' = record /\ doomed' = doomed
      /\ slot' = [slot EXCEPT ![w] = cfg[w].backups - 1]
      /\ wpc' = [wpc EXCEPT ![w] = IF cfg[w].backups > 1 THEN "shift" ELSE "move"]
  BY DEF DropOldest, Goto, Unless, doing
<1>2. d \in [Names -> {0} \union Files] /\ \A n \in Names : d[n] \in {0, dir[n]}
  BY DEF IInv, Typed
<1> HIDE DEF d
<1>3. cfg[w].backups \in Nat /\ cfg[w].backups > 0
  BY <1>1, ConfigFacts DEF IInv, Places, Place
<1>4. slot' \in [Writers -> Nat] /\ slot'[w] = cfg[w].backups - 1
  BY <1>1, <1>3 DEF IInv, Typed
<1>5. ~Zipping /\ record' \in Nat /\ doomed' \subseteq BackupNames
  BY <1>1, InWrite DEF IInv, Typed
<1>6. PICK p \in {"shift", "move"} :
        wpc' = [wpc EXCEPT ![w] = p] /\ (p = "shift" => cfg[w].backups > 1)
  BY <1>1, <1>3
<1>7. p = "shift" => slot'[w] \in 1 .. cfg[w].backups - 1
  BY <1>3, <1>4, <1>6
<1> QED BY <1>1, <1>2, <1>4, <1>5, <1>6, <1>7, Removes, Keeps

LEMMA RemoveTmpStep ==
  ASSUME IInv, NEW w \in Writers, NEW ok \in Outcomes, RemoveTmp(w, ok) PROVE IInv'
<1> DEFINE d == IF ok THEN [dir EXCEPT ![Tmp] = 0] ELSE dir
<1>1. /\ wpc[w] = "untmp" /\ SetDir(d) /\ fd' = fd /\ last' = last /\ cfg' = cfg /\ base' = base
      /\ opened' = opened /\ size' = size /\ slot' = slot /\ record' = record /\ doomed' = doomed
      /\ disturbed \subseteq disturbed' /\ (~ok => "halfway" \in disturbed')
      /\ wpc' = [wpc EXCEPT ![w] = "prune"]
  BY DEF RemoveTmp, Goto, Unless, doing
<1>2. /\ d \in [Names -> {0} \union Files] /\ (\A n \in Names : d[n] \in {0, dir[n]})
      /\ ok => d[Tmp] = 0
  BY NameFacts DEF IInv, Typed
<1> HIDE DEF d
<1>3. slot' \in [Writers -> Nat] /\ record' \in Nat /\ doomed' \subseteq BackupNames
  BY <1>1 DEF IInv, Typed
<1>4. dir' = d /\ \A n \in Names : dir'[n] # 0 => dir'[n] = dir[n]
  BY <1>1, <1>2, Removes
<1>5. Sound' /\ dir'[Live] # 0 => data[dir[Live]].recs = <<>>
  <2>1. w = base /\ base # 0
    BY <1>1, InWrite
  <2> QED BY <1>1, <1>4, <2>1, NameFacts DEF IInv, LiveInv, Sound
<1>6. ok \in BOOLEAN
  BY DEF Outcomes
<1> QED BY <1>1, <1>2, <1>3, <1>4, <1>5, <1>6, Removes, Keeps

(* Nothing happens to the files.                                             *)
LEMMA PassesOn ==
  ASSUME IInv, NEW w \in Writers, NEW p \in {"prune", "remove", "reopen", "idle"},
         wpc[w] \notin {"none", "idle", "closed", "append"},
         UNCHANGED <<dir, data, opened, base, cfg, fd, size, slot, last>>,
         wpc' = [wpc EXCEPT ![w] = p], disturbed \subseteq disturbed',
         record' \in Nat, doomed' \subseteq BackupNames,
         wpc[w] \in {"create", "prune", "reopen"} /\ (wpc[w] = "create" => IsRough)
  PROVE  IInv'
<1>1. /\ w = base /\ base # 0 /\ (Zipping => wpc[w] = "create")
      /\ Zipping => \A v \in Writers : fd[v] = 0
  BY InWrite
<1>2. DiskInv'
  BY DEF IInv, DiskInv, NoAlias, Fresh, Unreferenced, Counted
<1>3. dir' \in [Names -> {0} \union Files] /\ data' \in [Files -> File] /\ slot' \in [Writers -> Nat]
  BY DEF IInv, Typed
<1>4. Sound' /\ dir'[Live] # 0 => data[dir[Live]].recs = <<>>
  BY <1>1 DEF IInv, LiveInv, Sound
<1> QED BY <1>1, <1>2, <1>3, <1>4, Keeps

LEMMA PruneStep ==
  ASSUME IInv, NEW w \in Writers, NEW ok \in Outcomes, Prune(w, ok) PROVE IInv'
<1>1. PICK names \in SUBSET Kept :
        /\ wpc[w] = "prune" /\ UNCHANGED <<dir, data, opened, base, cfg, fd, size, slot, last>>
        /\ record' = record /\ disturbed' = disturbed /\ doomed' = names
        /\ wpc' = [wpc EXCEPT ![w] = IF names = {} THEN "reopen" ELSE "remove"]
  BY DEF Prune, PruneThose, Goto, disk
<1>2. record' \in Nat /\ doomed' \subseteq BackupNames
  BY <1>1 DEF IInv, Typed, Kept
<1>3. PICK p \in {"remove", "reopen"} : wpc' = [wpc EXCEPT ![w] = p]
  BY <1>1
<1> QED BY <1>1, <1>2, <1>3, PassesOn

LEMMA RemoveOldStep ==
  ASSUME IInv, NEW w \in Writers, NEW ok \in Outcomes, RemoveOld(w, ok) PROVE IInv'
<1>1. PICK a \in doomed :
        /\ wpc[w] = "remove" /\ SetDir(IF ok THEN [dir EXCEPT ![a] = 0] ELSE dir)
        /\ doomed' = doomed \ {a} /\ record' = record
        /\ fd' = fd /\ last' = last /\ cfg' = cfg /\ base' = base
        /\ opened' = opened /\ size' = size /\ slot' = slot /\ disturbed \subseteq disturbed'
        /\ wpc' = [wpc EXCEPT ![w] = IF doomed' = {} THEN "reopen" ELSE "remove"]
  BY DEF RemoveOld, Goto, Unless
<1> DEFINE d == IF ok THEN [dir EXCEPT ![a] = 0] ELSE dir
<1>2. d \in [Names -> {0} \union Files] /\ \A n \in Names : d[n] \in {0, dir[n]}
  BY DEF IInv, Typed
<1>3. SetDir(d)
  BY <1>1
<1> HIDE DEF d
<1>4. slot' \in [Writers -> Nat] /\ record' \in Nat /\ doomed' \subseteq BackupNames /\ ~Zipping
  BY <1>1, InWrite DEF IInv, Typed
<1>5. \A n \in Names : dir'[n] # 0 => dir'[n] = dir[n]
  BY <1>1, <1>2, <1>3, Removes
<1>6. Sound' /\ dir'[Live] # 0 => data[dir[Live]].recs = <<>>
  <2>1. w = base /\ base # 0
    BY <1>1, InWrite
  <2> QED BY <1>1, <1>5, <2>1, NameFacts DEF IInv, LiveInv, Sound
<1>7. PICK p \in {"remove", "reopen"} : wpc' = [wpc EXCEPT ![w] = p]
  BY <1>1
<1> QED BY <1>1, <1>2, <1>3, <1>4, <1>6, <1>7, Removes, Keeps

LEMMA ReopenFailsStep ==
  ASSUME IInv, NEW w \in Writers, ReopenFails(w) PROVE IInv'
<1>1. /\ wpc[w] = "reopen" /\ UNCHANGED <<dir, data, opened, base, cfg, fd, size, slot, last>>
      /\ record' = 0 /\ doomed' = doomed
      /\ disturbed \subseteq disturbed' /\ wpc' = [wpc EXCEPT ![w] = "idle"]
  BY DEF ReopenFails, Goto, Unless, disk
<1>2. record' \in Nat /\ doomed' \subseteq BackupNames
  BY <1>1 DEF IInv, Typed
<1> QED BY <1>1, <1>2, PassesOn

LEMMA CreateGzFailsStep ==
  ASSUME IInv, NEW w \in Writers, CreateGzFails(w) PROVE IInv'
<1>1. /\ wpc[w] = "create" /\ UNCHANGED <<dir, data, opened, base, cfg, fd, size, slot, last>>
      /\ record' = record /\ doomed' = doomed /\ IsRough
      /\ disturbed \subseteq disturbed' /\ wpc' = [wpc EXCEPT ![w] = "prune"]
  BY DEF CreateGzFails, Goto, Unless, disk, doing
<1>2. record' \in Nat /\ doomed' \subseteq BackupNames
  BY <1>1 DEF IInv, Typed
<1> QED BY <1>1, <1>2, PassesOn

(* name.i becomes name.(i+1); no other name is that old.                     *)
LEMMA ShiftStep ==
  ASSUME IInv, NEW w \in Writers, NEW ok \in Outcomes, Shift(w, ok) PROVE IInv'
<1>1. /\ wpc[w] = "shift" /\ fd' = fd /\ last' = last /\ cfg' = cfg /\ base' = base
      /\ opened' = opened /\ size' = size /\ disturbed \subseteq disturbed'
      /\ record' = record /\ doomed' = doomed
      /\ slot' = [slot EXCEPT ![w] = @ - 1]
      /\ wpc' = [wpc EXCEPT ![w] = IF slot[w] > 1 THEN "shift" ELSE "move"]
  BY DEF Shift, ShiftOne, Goto, Unless, doing
<1>2. /\ w = base /\ base # 0 /\ w \in 1 .. opened /\ fd[w] = 0 /\ ~Zipping /\ ~Gzipped
      /\ record' \in Nat /\ doomed' \subseteq BackupNames
      /\ \A gz \in BOOLEAN : SameKind(gz) => cfg[w].compress = gz
  BY <1>1, InWrite DEF IInv, Typed
<1>3. /\ cfg[w].backups \in Nat /\ cfg[w].backups <= MaxSlot /\ MaxSlot \in Nat /\ slot[w] \in Nat
      /\ slot[w] \in 1 .. cfg[w].backups - 1
  BY <1>1, ConfigFacts DEF IInv, Typed, Places, Place
<1>4. slot' \in [Writers -> Nat] /\ slot'[w] = slot[w] - 1
  BY <1>1, <1>3 DEF IInv, Typed
<1>5. PICK p \in {"shift", "move"} :
        wpc' = [wpc EXCEPT ![w] = p] /\ (p = "shift" => slot[w] > 1)
  BY <1>1, <1>3
<1>6. p = "shift" => slot'[w] \in 1 .. cfg[w].backups - 1
  BY <1>3, <1>4, <1>5
<1>7. CASE SetDir(dir)
  <2>1. dir \in [Names -> {0} \union Files]
    BY DEF IInv, Typed
  <2> QED BY <1>1, <1>2, <1>4, <1>5, <1>6, <1>7, <2>1, Removes, Keeps
<1>8. ASSUME ~SetDir(dir) PROVE IInv'
  <2> DEFINE a == Backup(w, slot[w])
             b == Backup(w, slot[w] + 1)
             d == [dir EXCEPT ![b] = dir[a], ![a] = 0]
  <2>1. dir[a] # 0 /\ SetDir(d)
    BY <1>8 DEF Shift, ShiftOne, Renamed
  <2>2. /\ a \in BackupNames /\ a[1] = slot[w] /\ a[2] = cfg[w].compress
        /\ b \in BackupNames /\ b[1] = slot[w] + 1 /\ b[2] = cfg[w].compress
    BY <1>3, BackupFacts DEF IInv
  <2> HIDE DEF a, b
  <2>3. a \in Names /\ b \in Names /\ a # b /\ a # Live /\ b # Live /\ b # Tmp
    BY <1>3, <2>2, NameFacts
  <2>4. /\ d \in [Names -> {0} \union Files]
        /\ d[a] = 0 /\ d[b] = dir[a] /\ \A n \in Names : n \notin {a, b} => d[n] = dir[n]
    BY <2>3 DEF IInv, Typed
  <2> HIDE DEF d
  <2>5. \A m, n \in Names : d[m] # 0 /\ d[m] = d[n] => m = n
    BY <2>3, <2>4 DEF IInv, DiskInv, NoAlias
  <2>6. dir' = d /\ data' = Swept(d, fd, data) /\ fd \in [Writers -> {0} \union Files] /\ Typed /\ DiskInv
    BY <2>1 DEF SetDir, IInv, Typed
  <2>7. /\ data' \in [Files -> File] /\ DiskInv'
        /\ \A n \in Names : d[n] # 0 => data'[d[n]] = data[d[n]]
    BY <1>1, <2>4, <2>5, <2>6, DirKept
  <2>8. /\ Places' /\ wpc' \in [Writers -> WriterPC] /\ wpc'[w] = p /\ ~Zipping' /\ ~Gzipped'
    <3>1. p \in WriterPC \ {"none", "closed", "append"}
      BY DEF WriterPC
    <3> QED BY <1>1, <1>5, <1>6, <3>1, Passes
  <2>9. Typed'
    BY <1>1, <1>2, <1>4, <2>4, <2>6, <2>7, <2>8 DEF IInv, Typed
  <2>10. LiveInv'
    <3>1. wpc'[w] # "append" /\ wpc'[w] \notin {"create", "compress", "untmp", "prune", "remove", "reopen"}
      BY <2>8
    <3> QED BY <1>1, <3>1, LiveKept
  <2>11. ASSUME NEW gz \in BOOLEAN, Orderly(gz)' PROVE OrderInv(gz)'
    <3>1. Orderly(gz)
      BY <1>1, <2>6, <2>11, Premises DEF Typed
    <3>2. OrderInv(gz) /\ cfg[w].compress = gz
      BY <1>2, <3>1 DEF IInv, Orderly
    <3>3. \A n \in Names : n # Live /\ dir[n] # 0 /\ n[1] = slot[w] => n = a \/ (gz /\ n = Tmp /\ a = Gz)
      BY <1>3, <2>2, <3>2, NameFacts DEF OrderInv
    <3>4. \A m, n \in Names : InOrder(m, n)'
      <4> DEFINE g == [n \in Names |-> IF n = b THEN a ELSE n]
      <4>1. g \in [Names -> Names] /\ g[b] = a /\ \A n \in Names : n # b => g[n] = n
        BY <2>3
      <4> HIDE DEF g
      <4>2. \A n \in Names : dir'[n] # 0 => dir[g[n]] # 0 /\ data'[dir'[n]].recs = data[dir[g[n]]].recs
        BY <2>1, <2>3, <2>4, <2>6, <2>7, <4>1
      <4>3. ASSUME NEW m \in Names, NEW n \in Names, Older(m, n),
                   dir'[m] # 0, data'[dir'[m]].recs # <<>>, dir'[n] # 0, data'[dir'[n]].recs # <<>>
            PROVE  Older(g[m], g[n]) \/ Before(g[m], g[n])
        <5>1. m # a /\ n # a /\ m # n
          BY <2>4, <2>6, <4>3, NameFacts DEF Older
        <5>2. CASE m = b
          <6>1. n # b /\ dir[n] # 0 /\ g[n] = n /\ g[m] = a
            BY <2>4, <2>6, <4>1, <4>3, <5>1, <5>2
          <6>2. n[1] \in Nat /\ n[1] <= slot[w]
            BY <1>3, <2>2, <4>3, <5>2, NameFacts DEF Older
          <6>3. CASE n[1] = slot[w]
            <7>1. n # Live
              BY <1>3, <6>3, NameFacts
            <7>2. gz /\ n = Tmp /\ a = Gz
              BY <3>3, <5>1, <6>1, <6>3, <7>1
            <7>3. Before(Gz, Tmp)
              BY <1>2, <2>1, <3>2, <6>1, <7>2 DEF OrderInv
            <7> QED BY <6>1, <7>2, <7>3
          <6>4. CASE n[1] # slot[w]
            BY <1>3, <2>2, <6>1, <6>2, <6>4 DEF Older
          <6> QED BY <6>3, <6>4
        <5>3. CASE n = b
          <6>1. g[m] = m /\ g[n] = a
            BY <4>1, <5>1, <5>3
          <6>2. m[1] \in Nat /\ m[1] > slot[w] + 1
            BY <2>2, <4>3, <5>3, NameFacts DEF Older
          <6> QED BY <1>3, <2>2, <6>1, <6>2 DEF Older
        <5>4. CASE m # b /\ n # b
          BY <4>1, <4>3, <5>4
        <5> QED BY <5>2, <5>3, <5>4
      <4> QED BY <3>2, <4>1, <4>2, <4>3, OrderMoves DEF OrderInv
    <3>5. \A n \in BackupNames : dir'[n] # 0 => n[2] = gz \/ n = Tmp
      BY <2>2, <2>4, <2>6, <3>2, NameFacts DEF OrderInv
    <3>6. gz => \A v \in Writers, n \in Names :
                  fd'[v] # 0 /\ dir'[n] = fd'[v] => n = Live \/ (n = Tmp /\ Zipping')
      <4> SUFFICES ASSUME gz = TRUE, NEW v \in Writers, NEW n \in Names, fd[v] # 0, dir'[n] = fd[v]
                   PROVE  n = Live
        BY <1>1
      <4>1. n # a /\ (n = b => dir[a] = fd[v]) /\ (n # b => dir[n] = fd[v])
        BY <2>4, <2>6
      <4> QED BY <1>2, <2>3, <3>2, <4>1 DEF OrderInv
    <3>7. gz /\ ~Gzipped' /\ dir'[Tmp] # 0 /\ dir'[Gz] # 0 => Before(Gz, Tmp)'
      <4>1. b # Gz /\ Gz \in Names /\ Tmp \in Names
        BY <1>3, <2>2, NameFacts
      <4>2. dir'[Gz] # 0 => dir'[Gz] = dir[Gz] /\ data'[dir'[Gz]] = data[dir[Gz]]
        BY <2>4, <2>6, <2>7, <4>1
      <4>3. dir'[Tmp] # 0 => dir'[Tmp] = dir[Tmp] /\ data'[dir'[Tmp]] = data[dir[Tmp]]
        BY <2>3, <2>4, <2>6, <2>7, <4>1
      <4> QED BY <1>2, <3>2, <4>2, <4>3 DEF OrderInv, Before
    <3> QED BY <3>4, <3>5, <3>6, <3>7 DEF OrderInv
  <2> QED BY <2>7, <2>8, <2>9, <2>10, <2>11 DEF IInv
<1> QED BY <1>7, <1>8

(* The live file, the youngest, becomes name.1.                              *)
LEMMA MoveStep ==
  ASSUME IInv, NEW w \in Writers, NEW ok \in Outcomes, Move(w, ok) PROVE IInv'
<1>1. /\ wpc[w] = "move" /\ fd' = fd /\ last' = last /\ cfg' = cfg /\ base' = base
      /\ opened' = opened /\ size' = size /\ slot' = slot /\ disturbed \subseteq disturbed'
      /\ record' = record /\ doomed' = doomed
      /\ ~ok => "failed" \in disturbed'
      /\ wpc' = [wpc EXCEPT ![w] = IF cfg[w].compress /\ ok /\ dir[Live] # 0 THEN "create" ELSE "prune"]
  BY DEF Move, MoveTo, Goto, Unless, doing
<1>2. /\ w = base /\ base # 0 /\ w \in 1 .. opened /\ fd[w] = 0 /\ ~Zipping
      /\ \A gz \in BOOLEAN : SameKind(gz) => cfg[w].compress = gz
  BY <1>1, InWrite
<1>3. /\ slot' \in [Writers -> Nat] /\ cfg[w].compress \in BOOLEAN
      /\ record' \in Nat /\ doomed' \subseteq BackupNames
  BY <1>1, ConfigFacts DEF IInv, Typed
<1>4. CASE ~ok \/ dir[Live] = 0
  <2>1. dir \in [Names -> {0} \union Files] /\ SetDir(dir) /\ wpc' = [wpc EXCEPT ![w] = "prune"]
    BY <1>1, <1>4 DEF Move, MoveTo, Renamed, IInv, Typed
  <2>2. dir' = dir
    BY <2>1 DEF SetDir
  <2>3. Sound' => ok
    BY <1>1 DEF Sound
  <2> QED BY <1>1, <1>2, <1>3, <1>4, <2>1, <2>2, <2>3, Removes, Keeps
<1>5. CASE ok /\ dir[Live] # 0
  <2> DEFINE d == [dir EXCEPT ![Tmp] = dir[Live], ![Live] = 0]
  <2>1. SetDir(d)
    BY <1>5 DEF Move, MoveTo, Renamed
  <2>2. Live \in Names /\ Tmp \in Names /\ Gz \in Names /\ Live # Tmp /\ Gz # Live /\ Gz # Tmp
    BY NameFacts
  <2>3. /\ d \in [Names -> {0} \union Files]
        /\ d[Live] = 0 /\ d[Tmp] = dir[Live] /\ \A n \in Names : n \notin {Live, Tmp} => d[n] = dir[n]
    BY <2>2 DEF IInv, Typed
  <2> HIDE DEF d
  <2>4. \A m, n \in Names : d[m] # 0 /\ d[m] = d[n] => m = n
    BY <2>2, <2>3 DEF IInv, DiskInv, NoAlias
  <2>5. dir' = d /\ data' = Swept(d, fd, data) /\ fd \in [Writers -> {0} \union Files] /\ Typed /\ DiskInv
    BY <2>1 DEF SetDir, IInv, Typed
  <2>6. /\ data' \in [Files -> File] /\ DiskInv'
        /\ \A n \in Names : d[n] # 0 => data'[d[n]] = data[d[n]]
    BY <1>1, <2>3, <2>4, <2>5, DirKept
  <2>7. PICK p \in {"create", "prune"} :
          wpc' = [wpc EXCEPT ![w] = p] /\ (p = "create" <=> cfg[w].compress)
    BY <1>1, <1>3, <1>5
  <2>8. /\ Places' /\ wpc' \in [Writers -> WriterPC] /\ wpc'[w] = p /\ (Zipping' <=> p = "create")
    <3>1. p \in WriterPC \ {"none", "closed", "append"}
      BY DEF WriterPC
    <3> QED BY <1>1, <2>7, <3>1, Passes
  <2>9. Typed'
    BY <1>1, <1>3, <2>3, <2>5, <2>6, <2>8 DEF IInv, Typed
  <2>10. LiveInv'
    BY <1>1, <2>3, <2>5, <2>8, LiveKept
  <2>11. ASSUME NEW gz \in BOOLEAN, Orderly(gz)' PROVE OrderInv(gz)'
    <3>1. Orderly(gz)
      BY <1>1, <2>5, <2>11, Premises DEF Typed
    <3>2. OrderInv(gz) /\ cfg[w].compress = gz
      BY <1>2, <3>1 DEF IInv, Orderly
    <3>3. \A m, n \in Names : InOrder(m, n)'
      <4> DEFINE g == [n \in Names |-> IF n = Tmp THEN Live ELSE n]
      <4>1. g \in [Names -> Names] /\ g[Tmp] = Live /\ \A n \in Names : n # Tmp => g[n] = n
        BY <2>2
      <4> HIDE DEF g
      <4>2. \A n \in Names : dir'[n] # 0 => dir[g[n]] # 0 /\ data'[dir'[n]].recs = data[dir[g[n]]].recs
        BY <1>5, <2>2, <2>3, <2>5, <2>6, <4>1
      <4>3. ASSUME NEW m \in Names, NEW n \in Names, Older(m, n), dir'[m] # 0, dir'[n] # 0
            PROVE  Older(g[m], g[n])
        <5>1. m # Live /\ n # Live
          BY <2>3, <2>5, <4>3
        <5>2. m # Tmp
          BY <4>3, <5>1, NameFacts DEF Older
        <5>3. g[m] = m /\ m[1] \in Nat /\ m[1] >= 1 /\ Live[1] = 0
          BY <4>1, <5>1, <5>2, NameFacts
        <5>4. g[n] \in {n, Live}
          BY <4>1
        <5> QED BY <4>3, <5>3, <5>4 DEF Older
      <4> QED BY <3>2, <4>1, <4>2, <4>3, OrderMoves DEF OrderInv
    <3>4. \A n \in BackupNames : dir'[n] # 0 => n[2] = gz \/ n = Tmp
      BY <2>3, <2>5, <3>2, NameFacts DEF OrderInv
    <3>5. gz => \A v \in Writers, n \in Names :
                  fd'[v] # 0 /\ dir'[n] = fd'[v] => n = Live \/ (n = Tmp /\ Zipping')
      <4> SUFFICES ASSUME gz = TRUE, NEW v \in Writers, NEW n \in Names, fd[v] # 0, dir'[n] = fd[v]
                   PROVE  n = Tmp /\ Zipping'
        BY <1>1
      <4>1. n # Live /\ (n # Tmp => dir[n] = fd[v])
        BY <2>3, <2>5
      <4>2. n # Tmp => n = Live \/ Zipping
        BY <3>2, <4>1 DEF OrderInv
      <4> QED BY <1>2, <2>7, <2>8, <3>2, <4>1, <4>2
    <3>6. gz /\ ~Gzipped' /\ dir'[Tmp] # 0 /\ dir'[Gz] # 0 => Before(Gz, Tmp)'
      <4>1. Older(Gz, Live) /\ InOrder(Gz, Live)
        BY <2>2, <3>2, NameFacts DEF OrderInv, Older
      <4>2. /\ dir'[Gz] = dir[Gz] /\ dir'[Tmp] = dir[Live]
            /\ dir'[Gz] # 0 => data'[dir'[Gz]] = data[dir[Gz]]
            /\ dir'[Tmp] # 0 => data'[dir'[Tmp]] = data[dir[Live]]
        BY <2>2, <2>3, <2>5, <2>6
      <4> QED BY <4>1, <4>2 DEF InOrder, Before
    <3> QED BY <3>3, <3>4, <3>5, <3>6 DEF OrderInv
  <2> QED BY <2>6, <2>8, <2>9, <2>10, <2>11 DEF IInv
<1> QED BY <1>4, <1>5

(* name.1.gz exists and is empty.                                            *)
LEMMA CreateGzStep ==
  ASSUME IInv, NEW w \in Writers, CreateGz(w) PROVE IInv'
<1>1. /\ wpc[w] = "create" /\ fd' = fd /\ last' = last /\ cfg' = cfg /\ base' = base
      /\ opened' = opened /\ size' = size /\ slot' = slot /\ disturbed' = disturbed
      /\ record' = record /\ doomed' = doomed
      /\ wpc' = [wpc EXCEPT ![w] = "compress"]
  BY DEF CreateGz, Goto, doing
<1>2. /\ w = base /\ base # 0 /\ Zipping /\ cfg[w].compress
  BY <1>1, InWrite DEF IInv, Places, Place
<1>3. Live \in Names /\ Tmp \in Names /\ Gz \in Names /\ Live # Gz /\ Gz # Tmp
  BY NameFacts
<1>4. Typed /\ DiskInv /\ slot' \in [Writers -> Nat] /\ last \in Nat /\ 0 \notin Files
  BY <1>1, FileFacts DEF IInv, Typed
<1> DEFINE new == [recs |-> <<>>, mtime |-> last]
<1>5. new \in File /\ new.recs = <<>>
  BY <1>4 DEF File
<1> HIDE DEF new
<1>6. PICK f \in Files :
        /\ \A n \in Names : n # Gz => dir[n] # f
        /\ dir' \in [Names -> {0} \union Files] /\ dir'[Gz] = f /\ \A n \in Names : n # Gz => dir'[n] = dir[n]
        /\ data' = [data EXCEPT ![f] = new]
        /\ dir[Gz] = 0 => \A v \in Writers : fd[v] # f
        /\ dir[Gz] # 0 => dir[Gz] = f
  <2>1. CASE dir[Gz] # 0
    <3>1. dir' = dir /\ data' = [data EXCEPT ![dir[Gz]] = new]
      BY <2>1 DEF CreateGz, Gz, new
    <3>2. dir[Gz] \in Files /\ \A n \in Names : n # Gz => dir[n] # dir[Gz]
      BY <1>3, <1>4, <2>1 DEF Typed, DiskInv, NoAlias
    <3> QED BY <1>4, <2>1, <3>1, <3>2 DEF Typed
  <2>2. CASE dir[Gz] = 0
    <3>1. PICK f \in Unreferenced(dir, fd) :
            dir' = [dir EXCEPT ![Gz] = f] /\ data' = [data EXCEPT ![f] = new]
      BY <2>2 DEF CreateGz, Gz, new
    <3>2. f \in Files /\ (\A n \in Names : dir[n] # f) /\ (\A v \in Writers : fd[v] # f)
      BY DEF Unreferenced
    <3> QED BY <1>3, <1>4, <2>2, <3>1, <3>2 DEF Typed
  <2> QED BY <2>1, <2>2
<1>7. data' \in [Files -> File] /\ data'[f] = new /\ \A e \in Files : e # f => data'[e] = data[e]
  BY <1>4, <1>5, <1>6 DEF Typed
<1>8. \A n \in Names : n # Gz /\ dir[n] # 0 => data'[dir[n]] = data[dir[n]]
  BY <1>4, <1>6, <1>7 DEF Typed
<1>9. DiskInv'
  <2>1. NoAlias'
    BY <1>4, <1>6 DEF DiskInv, NoAlias
  <2>2. Fresh'
    <3>1. \A e \in Files : e \in Unreferenced(dir', fd') => e # f /\ e \in Unreferenced(dir, fd)
      BY <1>1, <1>3, <1>4, <1>6 DEF Unreferenced
    <3> QED BY <1>4, <1>7, <3>1 DEF DiskInv, Fresh, Unreferenced
  <2>3. Counted'
    BY <1>1, <1>4, <1>5, <1>7 DEF DiskInv, Counted
  <2> QED BY <2>1, <2>2, <2>3 DEF DiskInv
<1>10. /\ Places' /\ wpc' \in [Writers -> WriterPC] /\ wpc'[w] = "compress" /\ Zipping' /\ Gzipped'
  <2>1. "compress" \in WriterPC \ {"none", "closed", "append"}
    BY DEF WriterPC
  <2>2. dir'[Gz] # 0 /\ data'[dir'[Gz]].recs = <<>>
    BY <1>4, <1>5, <1>6, <1>7
  <2> QED BY <1>1, <1>2, <2>1, <2>2, Passes
<1>11. Typed'
  BY <1>1, <1>4, <1>6, <1>7, <1>10 DEF Typed
<1>12. LiveInv'
  <2>1. dir'[Live] = dir[Live] /\ (dir[Live] # 0 => data'[dir[Live]] = data[dir[Live]])
    BY <1>3, <1>6, <1>8
  <2>2. Sound /\ dir[Live] # 0 => data[dir[Live]].recs = <<>>
    BY <1>1, <1>2 DEF IInv, LiveInv
  <2>3. Sound' => Sound
    BY <1>1 DEF Sound
  <2> QED BY <1>1, <1>10, <2>1, <2>2, <2>3, LiveKept
<1>13. ASSUME NEW gz \in BOOLEAN, Orderly(gz)' PROVE OrderInv(gz)'
  <2>1. Orderly(gz)
    BY <1>1, <1>4, <1>13, Premises DEF Typed
  <2>2. OrderInv(gz) /\ gz
    BY <1>1, <1>2, <2>1, InWrite DEF IInv, Orderly
  <2>3. \A m, n \in Names : InOrder(m, n)'
    <3>1. \A n \in Names : dir'[n] # 0 => \/ data'[dir'[n]].recs = <<>>
                                          \/ dir[n] # 0 /\ data'[dir'[n]].recs = data[dir[n]].recs
      BY <1>5, <1>6, <1>7, <1>8
    <3> QED BY <2>2, <3>1, OrderStays DEF OrderInv
  <2>4. \A n \in BackupNames : dir'[n] # 0 => n[2] = gz \/ n = Tmp
    BY <1>6, <2>2, NameFacts DEF OrderInv
  <2>5. \A v \in Writers, n \in Names :
          fd'[v] # 0 /\ dir'[n] = fd'[v] => n = Live \/ (n = Tmp /\ Zipping')
    <3> SUFFICES ASSUME NEW v \in Writers, NEW n \in Names, fd[v] # 0, dir'[n] = fd[v]
                 PROVE  n = Live \/ n = Tmp
      BY <1>1, <1>10
    <3>1. dir[n] = fd[v]
      BY <1>6
    <3> QED BY <2>2, <3>1 DEF OrderInv
  <2> QED BY <1>10, <2>2, <2>3, <2>4, <2>5 DEF OrderInv
<1> QED BY <1>9, <1>10, <1>11, <1>12, <1>13 DEF IInv

(* name.1.gz holds what name.1 holds, and both are equally old; or gzip      *)
(* failed, and name.1.gz is as empty as it was.                              *)
LEMMA CompressStep ==
  ASSUME IInv, NEW w \in Writers, NEW ok \in Outcomes, Compress(w, ok) PROVE IInv'
<1>1. /\ wpc[w] = "compress" /\ fd' = fd /\ last' = last /\ cfg' = cfg /\ base' = base
      /\ opened' = opened /\ size' = size /\ slot' = slot /\ dir' = dir
      /\ record' = record /\ doomed' = doomed
      /\ disturbed \subseteq disturbed' /\ (~ok => "failed" \in disturbed')
      /\ wpc' = [wpc EXCEPT ![w] = IF ok THEN "untmp" ELSE "prune"]
  BY DEF Compress, Goto, Unless, doing
<1>2. /\ w = base /\ base # 0 /\ Zipping /\ cfg[w].compress
      /\ dir[Gz] # 0 /\ data[dir[Gz]].recs = <<>>
  BY <1>1, InWrite DEF IInv, Places, Place
<1>3. Live \in Names /\ Tmp \in Names /\ Gz \in Names /\ Live # Gz /\ Gz # Tmp
  BY NameFacts
<1>4. /\ Typed /\ DiskInv /\ slot' \in [Writers -> Nat] /\ last \in Nat /\ 0 \notin Files
      /\ dir' \in [Names -> {0} \union Files] /\ record' \in Nat /\ doomed' \subseteq BackupNames
  BY <1>1, FileFacts DEF IInv, Typed
<1>5. Sound /\ dir[Live] # 0 => data[dir[Live]].recs = <<>>
  BY <1>1, <1>2 DEF IInv, LiveInv
<1>6. Sound' => Sound /\ ok
  BY <1>1 DEF Sound
<1>7. CASE ~(ok /\ dir[Tmp] # 0)
  <2>1. data' = data
    BY <1>7 DEF Compress
  <2>2. DiskInv' /\ data' \in [Files -> File]
    BY <1>1, <1>4, <2>1 DEF DiskInv, NoAlias, Fresh, Unreferenced, Counted, Typed
  <2>3. PICK p \in {"untmp", "prune"} : wpc' = [wpc EXCEPT ![w] = p] /\ (p = "prune" => ~ok)
    BY <1>1
  <2>4. p = "prune" => \A v \in Writers : fd[v] = 0
    BY <1>1, <2>3, InWrite DEF Outcomes
  <2> QED BY <1>1, <1>2, <1>4, <1>5, <1>6, <2>1, <2>2, <2>3, <2>4, Keeps
<1>8. CASE ok /\ dir[Tmp] # 0
  <2> DEFINE f == dir[Gz]
             e == dir[Tmp]
             filled == [data[f] EXCEPT !.recs = data[e].recs]
  <2>1. f \in Files /\ e \in Files /\ e # f /\ \A n \in Names : n # Gz => dir[n] # f
    BY <1>2, <1>3, <1>4, <1>8 DEF Typed, DiskInv, NoAlias
  <2>2. filled \in File /\ filled.recs = data[e].recs
    <3>1. data[f] \in File /\ data[e].recs \in Seq(Nat)
      BY <1>4, <2>1 DEF Typed, File
    <3> QED BY <3>1 DEF File
  <2>3. data' = [data EXCEPT ![f] = filled]
    BY <1>8 DEF Compress, Gz
  <2> HIDE DEF filled
  <2>4. data' \in [Files -> File] /\ data'[f].recs = data[e].recs /\ \A g \in Files : g # f => data'[g] = data[g]
    BY <1>4, <2>1, <2>2, <2>3 DEF Typed
  <2>5. DiskInv'
    <3>1. NoAlias'
      BY <1>1, <1>4 DEF DiskInv, NoAlias
    <3>2. Fresh'
      <4>1. Unreferenced(dir', fd') = Unreferenced(dir, fd) /\ f \notin Unreferenced(dir, fd)
        BY <1>1, <1>3 DEF Unreferenced
      <4> QED BY <1>4, <2>4, <4>1 DEF DiskInv, Fresh, Unreferenced
    <3>3. Counted'
      <4> SUFFICES ASSUME NEW g \in Files, NEW i \in DOMAIN data'[g].recs
                   PROVE  data'[g].recs[i] <= last
        BY <1>1 DEF Counted
      <4>1. PICK h \in Files : data'[g].recs = data[h].recs
        BY <2>1, <2>4
      <4> QED BY <1>4, <4>1 DEF DiskInv, Counted
    <3> QED BY <3>1, <3>2, <3>3 DEF DiskInv
  <2>6. /\ Places' /\ wpc' \in [Writers -> WriterPC] /\ wpc'[w] = "untmp" /\ Zipping' /\ Gzipped'
    <3>1. "untmp" \in WriterPC \ {"none", "closed", "append"}
      BY DEF WriterPC
    <3> QED BY <1>1, <1>2, <1>8, <3>1, Passes
  <2>7. Typed'
    BY <1>1, <1>4, <2>4, <2>6 DEF Typed
  <2>8. \A n \in Names : n # Gz /\ dir[n] # 0 => data'[dir[n]] = data[dir[n]]
    BY <1>4, <2>1, <2>4 DEF Typed
  <2>9. LiveInv'
    BY <1>1, <1>3, <1>5, <1>6, <2>6, <2>8, LiveKept
  <2>10. ASSUME NEW gz \in BOOLEAN, Orderly(gz)' PROVE OrderInv(gz)'
    <3>1. Orderly(gz)
      BY <1>1, <1>4, <2>10, Premises DEF Typed
    <3>2. OrderInv(gz) /\ gz
      BY <1>1, <1>2, <3>1, InWrite DEF IInv, Orderly
    <3>3. \A m, n \in Names : InOrder(m, n)'
      <4> DEFINE g == [n \in Names |-> IF n = Gz THEN Tmp ELSE n]
      <4>1. g \in [Names -> Names] /\ g[Gz] = Tmp /\ \A n \in Names : n # Gz => g[n] = n
        BY <1>3
      <4> HIDE DEF g
      <4>2. \A n \in Names : dir'[n] # 0 => dir[g[n]] # 0 /\ data'[dir'[n]].recs = data[dir[g[n]]].recs
        BY <1>1, <1>3, <1>8, <2>4, <2>8, <4>1
      <4>3. \A n \in Names : g[n][1] = n[1]
        BY <4>1, NameFacts
      <4>4. \A m, n \in Names : Older(m, n) => Older(g[m], g[n])
        BY <4>3 DEF Older
      <4> QED BY <3>2, <4>1, <4>2, <4>4, OrderMoves DEF OrderInv
    <3> QED BY <1>1, <1>2, <2>6, <3>2, <3>3 DEF OrderInv
  <2> QED BY <2>5, <2>6, <2>7, <2>9, <2>10 DEF IInv
<1> QED BY <1>7, <1>8

(* The live file is opened again, or a new one in place of what was moved.   *)
LEMMA ReopenStep ==
  ASSUME IInv, NEW w \in Writers, Reopen(w) PROVE IInv'
<1>1. /\ wpc[w] = "reopen" /\ OpenLive(w) /\ last' = last /\ cfg' = cfg /\ base' = base
      /\ opened' = opened /\ slot' = slot /\ disturbed' = disturbed
      /\ record' = record /\ doomed' = doomed
      /\ wpc' = [wpc EXCEPT ![w] = "append"]
  BY DEF Reopen, Goto, doing
<1>2. w = base /\ base # 0 /\ w \in 1 .. opened /\ fd[w] = 0 /\ ~Zipping /\ ~Gzipped
  BY <1>1, InWrite
<1>3. Typed /\ DiskInv /\ Live \in Names /\ opened \in Nat
  BY NameFacts, FileFacts DEF IInv, Typed
<1>4. /\ dir' \in [Names -> {0} \union Files] /\ fd' \in [Writers -> {0} \union Files]
      /\ size' \in [Writers -> Nat] /\ data' = data /\ DiskInv'
      /\ fd'[w] # 0 /\ fd'[w] = dir'[Live] /\ size'[w] = Len(data[fd'[w]].recs)
      /\ \A v \in Writers : v # w => fd'[v] = fd[v] /\ size'[v] = size[v]
      /\ \A n \in Names : n # Live => dir'[n] = dir[n]
      /\ dir[Live] # 0 => dir' = dir
      /\ dir[Live] = 0 => /\ data[dir'[Live]].recs = <<>>
                          /\ \A v \in Writers : v # w => fd[v] # dir'[Live]
  BY <1>1, <1>2, <1>3, Opens
<1>5. wpc' \in [Writers -> WriterPC] /\ wpc'[w] = "append" /\ \A v \in Writers : v # w => wpc'[v] = wpc[v]
  BY <1>1 DEF Typed, IInv, WriterPC
<1>6. Typed'
  BY <1>1, <1>3, <1>4, <1>5 DEF Typed
<1>7. Places'
  <2>1. Places
    BY DEF IInv
  <2>2. Place(w)'
    BY <1>1, <1>2, <1>3, <1>4, <1>5 DEF Place
  <2>3. ASSUME NEW v \in Writers, v # w PROVE Place(v)'
    <3>1. Place(v) /\ wpc[v] \in {"none", "idle", "closed"} /\ wpc'[v] = wpc[v] /\ fd'[v] = fd[v]
      BY <1>2, <1>4, <1>5, <2>1, <2>3 DEF Places, Place
    <3> QED BY <1>1, <1>2, <2>3, <3>1 DEF Place
  <2>4. opened # base => wpc'[opened] = "idle" /\ fd'[opened] # 0 /\ ~IsRough'
    <3>0. opened \in Writers
      BY <1>2, <1>3, FileFacts DEF Writers, Typed
    <3>1. opened # base => opened \in Writers /\ wpc[opened] = "idle" /\ fd[opened] # 0 /\ ~IsRough
      BY <1>2, <2>1, <3>0 DEF Places
    <3> QED BY <1>1, <1>2, <1>4, <1>5, <3>1 DEF IsRough
  <2> QED BY <1>1, <1>2, <1>5, <2>2, <2>3, <2>4 DEF Places
<1>8. Sound' => data'[dir'[Live]].recs = <<>> /\ size'[w] = 0
  <2>1. Sound' => Sound
    BY <1>1 DEF Sound
  <2>2. Sound => data[dir'[Live]].recs = <<>>
    BY <1>1, <1>2, <1>4 DEF IInv, LiveInv
  <2> QED BY <1>4, <2>1, <2>2
<1>9. LiveInv'
  BY <1>1, <1>2, <1>4, <1>5, <1>8 DEF LiveInv, Fits
<1>11. ASSUME NEW gz \in BOOLEAN, Orderly(gz)' PROVE OrderInv(gz)'
  <2>1. Orderly(gz)
    BY <1>1, <1>3, <1>11, Premises DEF Typed
  <2>2. OrderInv(gz)
    BY <2>1 DEF IInv
  <2>3. \A m, n \in Names : InOrder(m, n)'
    <3>1. \A n \in Names : dir'[n] # 0 => \/ data'[dir'[n]].recs = <<>>
                                          \/ dir[n] # 0 /\ data'[dir'[n]].recs = data[dir[n]].recs
      BY <1>4
    <3> QED BY <2>2, <3>1, OrderStays DEF OrderInv
  <2>4. \A n \in BackupNames : dir'[n] = dir[n]
    BY <1>4, NameFacts
  <2>5. ~Zipping' /\ ~Gzipped'
    BY <1>1, <1>2, <1>5 DEF Zipping, Gzipped
  <2>6. gz => \A v \in Writers, n \in Names :
          fd'[v] # 0 /\ dir'[n] = fd'[v] => n = Live \/ (n = Tmp /\ Zipping')
    <3> SUFFICES ASSUME gz = TRUE, NEW v \in Writers, NEW n \in Names, fd'[v] # 0, dir'[n] = fd'[v], n # Live
                 PROVE  FALSE
      OBVIOUS
    <3>1. CASE v = w
      BY <1>3, <1>4, <3>1 DEF DiskInv, NoAlias
    <3>2. CASE v # w
      BY <1>2, <1>4, <2>2, <3>2 DEF OrderInv
    <3> QED BY <3>1, <3>2
  <2>7. gz /\ ~Gzipped' /\ dir'[Tmp] # 0 /\ dir'[Gz] # 0 => Before(Gz, Tmp)'
    BY <1>2, <1>4, <2>2, <2>4, NameFacts DEF OrderInv, Before
  <2> QED BY <2>2, <2>3, <2>4, <2>6, <2>7 DEF OrderInv
<1> QED BY <1>4, <1>6, <1>7, <1>9, <1>11 DEF IInv

LEMMA Joined ==
  ASSUME NEW p \in Seq(Nat), NEW q \in Seq(Nat)
  PROVE  /\ p \o q \in Seq(Nat) /\ Len(p \o q) = Len(p) + Len(q)
         /\ \A i \in 1 .. Len(p) : (p \o q)[i] = p[i]
         /\ \A i \in 1 .. Len(q) : (p \o q)[Len(p) + i] = q[i]
<1>1. Len(p) \in Nat /\ Len(q) \in Nat
  OBVIOUS
<1>2. p \o q \in Seq(Nat) /\ Len(p \o q) = Len(p) + Len(q)
  OBVIOUS
<1>3. \A i \in 1 .. Len(p) : (p \o q)[i] = p[i]
  BY <1>1
<1>4. ASSUME NEW i \in 1 .. Len(q) PROVE (p \o q)[Len(p) + i] = q[i]
  <2>1. /\ Len(p) + i \in 1 .. Len(p) + Len(q) /\ ~(Len(p) + i <= Len(p))
        /\ Len(p) + i - Len(p) = i
    BY <1>1
  <2> QED BY <1>1, <2>1
<1> QED BY <1>2, <1>3, <1>4

(* The record, or a part of it, goes to the end of the youngest file, or to  *)
(* one that has lost its name.                                               *)
LEMMA AppendFacts ==
  ASSUME IInv, NEW w \in Writers, NEW n \in Nat, wpc[w] = "append", AppendRecord(w, n)
  PROVE  /\ fd[w] \in Files /\ last' = last + n
         /\ data' \in [Files -> File] /\ \A e \in Files : e # fd[w] => data'[e] = data[e]
         /\ data[fd[w]].recs \in Seq(Nat) /\ data'[fd[w]].recs \in Seq(Nat)
         /\ Len(data'[fd[w]].recs) = Len(data[fd[w]].recs) + n
         /\ \A i \in 1 .. Len(data[fd[w]].recs) : data'[fd[w]].recs[i] = data[fd[w]].recs[i]
         /\ \A i \in 1 .. n : data'[fd[w]].recs[Len(data[fd[w]].recs) + i] = last + i
<1> DEFINE f    == fd[w]
           more == [i \in 1 .. n |-> last + i]
<1>1. /\ f \in Files /\ last \in Nat /\ data \in [Files -> File] /\ data[f].recs \in Seq(Nat)
      /\ last' = last + n
  BY SMTT(30) DEF AppendRecord, IInv, Typed, Places, Place, File
<1>2. more \in Seq(Nat) /\ Len(more) = n /\ \A i \in 1 .. n : more[i] = last + i
  BY <1>1
<1> HIDE DEF f, more
<1>3. /\ data[f].recs \o more \in Seq(Nat)
      /\ Len(data[f].recs \o more) = Len(data[f].recs) + n
      /\ \A i \in 1 .. Len(data[f].recs) : (data[f].recs \o more)[i] = data[f].recs[i]
      /\ \A i \in 1 .. n : (data[f].recs \o more)[Len(data[f].recs) + i] = last + i
  BY <1>1, <1>2, Joined
<1>4. CASE n = 0
  <2>1. data' = data
    BY <1>4 DEF AppendRecord
  <2> QED BY <1>1, <1>4, <2>1 DEF f
<1>5. CASE n # 0
  <2> DEFINE new == [recs |-> data[f].recs \o more, mtime |-> last']
  <2>1. data' = [data EXCEPT ![f] = new]
    BY <1>5 DEF AppendRecord, f, more
  <2>2. new \in File /\ new.recs = data[f].recs \o more
    BY <1>1, <1>3 DEF File
  <2> HIDE DEF new
  <2>3. data' \in [Files -> File] /\ data'[f] = new /\ \A e \in Files : e # f => data'[e] = data[e]
    BY <1>1, <2>1, <2>2
  <2> QED BY <1>1, <1>3, <2>2, <2>3 DEF f
<1> QED BY <1>4, <1>5

LEMMA AppendRecordStep ==
  ASSUME IInv, NEW w \in Writers, NEW n \in 0 .. record, AppendRecord(w, n) PROVE IInv'
<1> DEFINE f == fd[w]
           l == Len(data[f].recs)
<1>1. /\ wpc[w] = "append" /\ dir' = dir /\ fd' = fd /\ cfg' = cfg /\ base' = base
      /\ opened' = opened /\ slot' = slot /\ disturbed' = disturbed /\ last' = last + n
      /\ size' = [size EXCEPT ![w] = @ + n] /\ wpc' = [wpc EXCEPT ![w] = "idle"]
      /\ record' = 0 /\ doomed' = doomed
  BY DEF AppendRecord, Goto
<1>2. w = base /\ base # 0 /\ w \in 1 .. opened /\ ~Zipping /\ ~Gzipped
  BY <1>1, InWrite
<1>3. /\ Typed /\ DiskInv /\ Live \in Names /\ opened \in Nat /\ last \in Nat /\ 0 \notin Files
      /\ n \in Nat
  BY NameFacts, FileFacts DEF IInv, Typed
<1>4. /\ f # 0 /\ f \in Files /\ l \in Nat
      /\ data' \in [Files -> File] /\ \A e \in Files : e # f => data'[e] = data[e]
      /\ data[f].recs \in Seq(Nat) /\ data'[f].recs \in Seq(Nat)
      /\ Len(data'[f].recs) = l + n
      /\ \A i \in 1 .. l : data'[f].recs[i] = data[f].recs[i]
      /\ \A i \in 1 .. n : data'[f].recs[l + i] = last + i
      /\ DOMAIN data[f].recs = 1 .. l /\ DOMAIN data'[f].recs = 1 .. l + n
  <2>1. /\ f \in Files
        /\ data' \in [Files -> File] /\ \A e \in Files : e # f => data'[e] = data[e]
        /\ data[f].recs \in Seq(Nat) /\ data'[f].recs \in Seq(Nat)
        /\ Len(data'[f].recs) = l + n
        /\ \A i \in 1 .. l : data'[f].recs[i] = data[f].recs[i]
        /\ \A i \in 1 .. n : data'[f].recs[l + i] = last + i
    BY <1>1, <1>3, AppendFacts
  <2>2. l \in Nat /\ DOMAIN data[f].recs = 1 .. l /\ DOMAIN data'[f].recs = 1 .. l + n
    <3> HIDE DEF f
    <3> QED BY <2>1
  <2>3. f # 0
    BY <1>3, <2>1
  <2> QED BY <2>1, <2>2, <2>3
<1> HIDE DEF f, l
<1>6. \A i \in DOMAIN data[f].recs : data[f].recs[i] \in Nat /\ data[f].recs[i] <= last
  <2>1. \A i \in DOMAIN data[f].recs : data[f].recs[i] <= last
    BY <1>3, <1>4 DEF DiskInv, Counted
  <2>2. \A i \in DOMAIN data[f].recs : data[f].recs[i] \in Nat
    <3> DEFINE q == data[f].recs
    <3>1. q \in Seq(Nat)
      BY <1>4
    <3> HIDE DEF q
    <3>2. \A i \in DOMAIN q : q[i] \in Nat
      BY <3>1
    <3> QED BY <3>2 DEF q
  <2> QED BY <2>1, <2>2
<1>5. \A i \in DOMAIN data'[f].recs :
        \/ i \in DOMAIN data[f].recs /\ data'[f].recs[i] = data[f].recs[i]
        \/ i > l /\ data'[f].recs[i] = last + (i - l) /\ i - l \in 1 .. n
  <2> SUFFICES ASSUME NEW i \in DOMAIN data'[f].recs
               PROVE  \/ i \in DOMAIN data[f].recs /\ data'[f].recs[i] = data[f].recs[i]
                      \/ i > l /\ data'[f].recs[i] = last + (i - l) /\ i - l \in 1 .. n
    OBVIOUS
  <2>1. i \in 1 .. l + n /\ DOMAIN data[f].recs = 1 .. l
    BY <1>4
  <2>2. CASE i <= l
    BY <1>4, <2>1, <2>2
  <2>3. CASE i > l
    <3>1. i - l \in 1 .. n /\ l + (i - l) = i
      BY <1>3, <1>4, <2>1, <2>3
    <3> QED BY <1>4, <2>3, <3>1
  <2> QED BY <1>4, <2>1, <2>2, <2>3
<1>7. wpc' \in [Writers -> WriterPC] /\ wpc'[w] = "idle" /\ \A v \in Writers : v # w => wpc'[v] = wpc[v]
  BY <1>1 DEF Typed, IInv, WriterPC
<1>8. size' \in [Writers -> Nat] /\ size'[w] = size[w] + n /\ size[w] \in Nat
  BY <1>1, <1>3 DEF Typed, IInv
<1>9. Typed'
  BY <1>1, <1>3, <1>4, <1>7, <1>8 DEF Typed
<1>10. DiskInv'
  <2>1. NoAlias'
    BY <1>1, <1>3 DEF DiskInv, NoAlias
  <2>2. Fresh'
    <3>1. Unreferenced(dir', fd') = Unreferenced(dir, fd) /\ f \notin Unreferenced(dir, fd)
      BY <1>1 DEF Unreferenced, f
    <3> QED BY <1>3, <1>4, <3>1 DEF DiskInv, Fresh, Unreferenced
  <2>3. Counted'
    <3> SUFFICES ASSUME NEW e \in Files, NEW i \in DOMAIN data'[e].recs
                 PROVE  data'[e].recs[i] <= last + n
      BY <1>1 DEF Counted
    <3>1. CASE e = f
      <4>1. CASE i \in DOMAIN data[f].recs /\ data'[f].recs[i] = data[f].recs[i]
        <5>1. data[f].recs[i] <= last /\ data[f].recs[i] \in Nat
          BY <1>6, <4>1
        <5> QED BY <1>3, <3>1, <4>1, <5>1
      <4>2. CASE data'[f].recs[i] = last + (i - l) /\ i - l \in 1 .. n
        BY <1>3, <3>1, <4>2
      <4> QED BY <1>5, <3>1, <4>1, <4>2
    <3>2. CASE e # f
      <4>1. i \in DOMAIN data[e].recs /\ data'[e].recs[i] = data[e].recs[i] /\ data[e].recs \in Seq(Nat)
        BY <1>3, <1>4, <3>2 DEF Typed, File
      <4>2. data[e].recs[i] \in Nat /\ data[e].recs[i] <= last
        BY <1>3, <4>1 DEF DiskInv, Counted
      <4> QED BY <1>3, <4>1, <4>2
    <3> QED BY <3>1, <3>2
  <2> QED BY <2>1, <2>2, <2>3 DEF DiskInv
<1>11. Places'
  <2>1. Places
    BY DEF IInv
  <2>2. Place(w)'
    BY <1>1, <1>2, <1>3, <1>7 DEF Place
  <2>3. ASSUME NEW v \in Writers, v # w PROVE Place(v)'
    <3>1. Place(v) /\ wpc[v] \in {"none", "idle", "closed"} /\ wpc'[v] = wpc[v]
      BY <1>2, <1>7, <2>1, <2>3 DEF Places, Place
    <3> QED BY <1>1, <1>2, <2>3, <3>1 DEF Place
  <2>4. opened # base => wpc'[opened] = "idle" /\ fd'[opened] # 0 /\ ~IsRough'
    <3>1. opened \in Writers
      BY <1>2, <1>3, FileFacts DEF Writers, Typed
    <3>2. opened # base => wpc[opened] = "idle" /\ fd[opened] # 0 /\ ~IsRough
      BY <1>2, <2>1 DEF Places
    <3> QED BY <1>1, <1>2, <1>7, <3>1, <3>2 DEF IsRough
  <2> QED BY <1>1, <1>2, <1>7, <2>2, <2>3, <2>4 DEF Places
<1>12. "outdated" \notin disturbed => f = dir[Live]
  BY <1>2, <1>4 DEF IInv, LiveInv, f
<1>13. Sound => size[w] = l /\ f = dir[Live]
  BY <1>1, <1>2, <1>4, <1>12 DEF IInv, LiveInv, Sound, f, l
<1>14. LiveInv'
  <2>1. fd'[w] = f /\ (Sound' => Sound)
    BY <1>1 DEF Sound, f
  <2>2. "outdated" \notin disturbed' => fd'[w] = dir'[Live]
    BY <1>1, <1>12, <2>1
  <2>3. Sound' => size'[w] = Len(data'[fd'[w]].recs)
    BY <1>4, <1>8, <1>13, <2>1
  <2> QED BY <1>1, <1>2, <1>7, <2>2, <2>3 DEF LiveInv
<1>16. ASSUME NEW gz \in BOOLEAN, Orderly(gz)' PROVE OrderInv(gz)'
  <2>1. Orderly(gz)
    BY <1>1, <1>3, <1>16, Premises DEF Typed
  <2>2. OrderInv(gz)
    BY <2>1 DEF IInv
  <2>3. \A a \in Names : dir[a] = f => a = Live
    <3>1. CASE gz
      BY <1>2, <1>4, <2>2, <3>1 DEF OrderInv, f
    <3>2. CASE ~gz
      BY <1>3, <1>4, <1>12, <2>1, <3>2 DEF Orderly, DiskInv, NoAlias
    <3> QED BY <3>1, <3>2
  <2>4. \A a, b \in Names : InOrder(a, b)'
    <3> SUFFICES ASSUME NEW a \in Names, NEW b \in Names, dir[a] # 0, dir[b] # 0,
                        NEW i \in DOMAIN data'[dir[a]].recs, NEW j \in DOMAIN data'[dir[b]].recs,
                        Older(a, b) \/ (a = b /\ i < j)
                 PROVE  data'[dir[a]].recs[i] < data'[dir[b]].recs[j]
      BY <1>1 DEF InOrder, Older
    <3>1. dir[a] \in Files /\ dir[b] \in Files
      BY <1>3 DEF Typed
    <3>2. InOrder(a, b)
      BY <2>2 DEF OrderInv
    <3>3. CASE dir[b] # f
      <4>1. dir[a] # f
        <5> SUFFICES ASSUME dir[a] = f PROVE FALSE
          OBVIOUS
        <5>1. a = Live /\ Older(a, b)
          BY <2>3, <3>3
        <5> QED BY <5>1, NameFacts DEF Older
      <4> QED BY <1>4, <3>1, <3>2, <3>3, <4>1 DEF InOrder
    <3>4. CASE dir[b] = f
      <4>1. b = Live
        BY <2>3, <3>4
      <4>2. CASE a = b
        <5>1. i < j /\ dir[a] = f /\ i \in DOMAIN data'[f].recs /\ j \in DOMAIN data'[f].recs
          BY <3>4, <4>1, <4>2, NameFacts DEF Older
        <5>2. i \in Nat /\ j \in Nat
          BY <1>4, <5>1
        <5>3. CASE j \in DOMAIN data[f].recs /\ data'[f].recs[j] = data[f].recs[j]
          <6>1. i \in DOMAIN data[f].recs /\ data'[f].recs[i] = data[f].recs[i]
            BY <1>4, <5>1, <5>2, <5>3
          <6> QED BY <3>2, <3>4, <4>2, <5>1, <5>3, <6>1 DEF InOrder
        <5>4. CASE j > l /\ data'[f].recs[j] = last + (j - l) /\ j - l \in 1 .. n
          <6>1. CASE i \in DOMAIN data[f].recs /\ data'[f].recs[i] = data[f].recs[i]
            <7>1. data[f].recs[i] <= last /\ data[f].recs[i] \in Nat
              BY <1>6, <6>1
            <7>2. data'[f].recs[i] < data'[f].recs[j]
              BY <1>3, <5>4, <6>1, <7>1
            <7> QED BY <3>4, <5>1, <7>2
          <6>2. CASE i > l /\ data'[f].recs[i] = last + (i - l)
            <7>1. data'[f].recs[i] < data'[f].recs[j]
              BY <1>3, <1>4, <5>1, <5>2, <5>4, <6>2
            <7> QED BY <3>4, <5>1, <7>1
          <6> QED BY <1>5, <5>1, <6>1, <6>2
        <5> QED BY <1>5, <5>1, <5>3, <5>4
      <4>3. CASE a # b
        <5>1. dir[a] # f /\ i \in DOMAIN data[dir[a]].recs /\ data'[dir[a]].recs[i] = data[dir[a]].recs[i]
          BY <1>4, <2>3, <3>1, <4>1, <4>3
        <5>2. j \in DOMAIN data'[f].recs
          BY <3>4
        <5>3. CASE j \in DOMAIN data[f].recs /\ data'[f].recs[j] = data[f].recs[j]
          BY <3>2, <3>4, <4>3, <5>1, <5>3 DEF InOrder
        <5>4. CASE j > l /\ data'[f].recs[j] = last + (j - l) /\ j - l \in 1 .. n
          <6>1. data[dir[a]].recs \in Seq(Nat)
            BY <1>3, <3>1 DEF Typed, File
          <6>2. data[dir[a]].recs[i] <= last /\ data[dir[a]].recs[i] \in Nat
            BY <1>3, <3>1, <5>1, <6>1 DEF DiskInv, Counted
          <6> QED BY <1>3, <1>4, <3>4, <5>1, <5>4, <6>2
        <5> QED BY <1>5, <5>2, <5>3, <5>4
      <4> QED BY <4>2, <4>3
    <3> QED BY <3>3, <3>4
  <2>5. ~Zipping'
    BY <1>1, <1>2, <1>7 DEF Zipping
  <2>6. gz => \A v \in Writers, a \in Names :
          fd'[v] # 0 /\ dir'[a] = fd'[v] => a = Live \/ (a = Tmp /\ Zipping')
    BY <1>1, <1>2, <2>2 DEF OrderInv
  <2>7. gz /\ ~Gzipped' /\ dir'[Tmp] # 0 /\ dir'[Gz] # 0 => Before(Gz, Tmp)'
    <3>1. Gz \in Names /\ Gz # Live /\ Tmp \in Names /\ Tmp # Live
      BY NameFacts
    <3>2. /\ dir[Gz] # 0 => data'[dir[Gz]] = data[dir[Gz]]
          /\ dir[Tmp] # 0 => data'[dir[Tmp]] = data[dir[Tmp]]
      BY <1>3, <1>4, <2>3, <3>1 DEF Typed
    <3> QED BY <1>1, <1>2, <2>2, <3>2 DEF OrderInv, Before
  <2> QED BY <1>1, <2>2, <2>4, <2>6, <2>7 DEF OrderInv
<1> QED BY <1>9, <1>10, <1>11, <1>14, <1>16 DEF IInv

(* Files are closed; the directory stays as it is.                           *)
LEMMA Closes ==
  ASSUME IInv, NEW h \in [Writers -> {0} \union Files], \A v \in Writers : h[v] \in {0, fd[v]},
         dir' = dir, fd' = h, data' = Swept(dir, h, data), last' = last, cfg' = cfg,
         opened' = opened, disturbed \subseteq disturbed', ~Zipping',
         Zipping => "halfway" \in disturbed'
  PROVE  /\ data' \in [Files -> File] /\ DiskInv'
         /\ \A n \in Names : dir[n] # 0 => data'[dir[n]] = data[dir[n]]
         /\ \A gz \in BOOLEAN : Orderly(gz)' => OrderInv(gz)'
<1>1. Typed /\ DiskInv /\ dir \in [Names -> {0} \union Files] /\ opened \in Nat
  BY FileFacts DEF IInv, Typed
<1>2. /\ data' \in [Files -> File] /\ DiskInv'
      /\ \A n \in Names : dir[n] # 0 => data'[dir[n]] = data[dir[n]]
  <2>1. \A m, n \in Names : dir[m] # 0 /\ dir[m] = dir[n] => m = n
    BY <1>1 DEF DiskInv, NoAlias
  <2> QED BY <1>1, <2>1, DirKept
<1>4. ASSUME NEW gz \in BOOLEAN, Orderly(gz)' PROVE OrderInv(gz)'
  <2>1. Orderly(gz) /\ ~Zipping /\ ~Gzipped
    BY <1>1, <1>4, Premises DEF Orderly, Typed, Zipping, Gzipped
  <2>2. OrderInv(gz)
    BY <2>1 DEF IInv
  <2>3. \A m, n \in Names : InOrder(m, n)'
    BY <1>2, <2>2, OrderStays DEF OrderInv
  <2>4. dir'[Tmp] # 0 /\ dir'[Gz] # 0 /\ gz => Before(Gz, Tmp)'
    BY <1>2, <2>1, <2>2, NameFacts DEF OrderInv, Before
  <2> QED BY <1>2, <2>1, <2>2, <2>3, <2>4 DEF OrderInv
<1> QED BY <1>2, <1>4

LEMMA WriteStep ==
  ASSUME IInv, NEW w \in Writers, NEW n \in Nat, WriteOr(w, n, Exceeds(w, n)) PROVE IInv'
<1>1. /\ base = w /\ wpc[w] = "idle" /\ fd[w] # 0
      /\ dir' = dir /\ cfg' = cfg /\ base' = base /\ opened' = opened /\ slot' = slot
      /\ size' = size /\ disturbed' = disturbed /\ last' = last
      /\ record' = n /\ doomed' = doomed
  BY DEF WriteOr
<1>2. /\ Typed /\ DiskInv /\ Places /\ opened \in Nat /\ base # 0 /\ w \in 1 .. opened /\ ~Zipping /\ ~Gzipped
      /\ opened \in Writers
  <2>1. Typed /\ DiskInv /\ Places /\ ~Zipping /\ ~Gzipped
    BY <1>1 DEF IInv, Zipping, Gzipped
  <2>2. w \in 1 .. MaxWriters /\ w \in 0 .. opened /\ opened \in 0 .. MaxWriters /\ MaxWriters \in Nat
    BY <1>1, <2>1, FileFacts DEF Typed, Writers
  <2>3. opened \in Nat /\ base # 0 /\ w \in 1 .. opened /\ opened \in 1 .. MaxWriters
    BY <1>1, <2>2
  <2> QED BY <2>1, <2>3 DEF Writers
<1>3. ASSUME NEW p \in {"drop", "move", "append"}, wpc' = [wpc EXCEPT ![w] = p],
             fd' \in [Writers -> {0} \union Files], p = "append" <=> fd'[w] # 0,
             \A v \in Writers : v # w => fd'[v] = fd[v],
             p = "drop" => cfg[w].backups > 0
      PROVE  /\ Places' /\ wpc' \in [Writers -> WriterPC] /\ wpc'[w] = p /\ ~Zipping' /\ ~Gzipped'
  <2>1. wpc' \in [Writers -> WriterPC] /\ wpc'[w] = p /\ \A v \in Writers : v # w => wpc'[v] = wpc[v]
    BY <1>2, <1>3 DEF Typed, WriterPC
  <2>2. Place(w)'
    BY <1>1, <1>2, <1>3, <2>1 DEF Place
  <2>3. ASSUME NEW v \in Writers, v # w PROVE Place(v)'
    <3>1. /\ Place(v) /\ wpc[v] \in {"none", "idle", "closed"} /\ wpc'[v] = wpc[v]
          /\ fd'[v] = fd[v]
      BY <1>1, <1>2, <1>3, <2>1, <2>3 DEF Places, Place
    <3> QED BY <1>1, <2>3, <3>1 DEF Place
  <2>4. opened # base => wpc'[opened] = "idle" /\ fd'[opened] # 0 /\ ~IsRough'
    BY <1>1, <1>2, <1>3, <2>1 DEF IsRough, Places
  <2> QED BY <1>1, <1>2, <2>1, <2>2, <2>3, <2>4 DEF Places, Zipping, Gzipped
<1> DEFINE h == [fd EXCEPT ![w] = 0]
<1>4. CASE Exceeds(w, n)
  <2>1. fd' = h /\ data' = Swept(dir, h, data)
        /\ wpc' = [wpc EXCEPT ![w] = IF cfg[w].backups > 0 THEN "drop" ELSE "move"]
    BY <1>4 DEF WriteOr, Goto
  <2>2. /\ h \in [Writers -> {0} \union Files] /\ h[w] = 0 /\ (\A v \in Writers : h[v] \in {0, fd[v]})
        /\ \A v \in Writers : v # w => h[v] = fd[v]
    BY <1>2 DEF Typed
  <2> HIDE DEF h
  <2>3. PICK p \in {"drop", "move"} :
          wpc' = [wpc EXCEPT ![w] = p] /\ (p = "drop" => cfg[w].backups > 0)
    BY <2>1
  <2>4. /\ Places' /\ wpc' \in [Writers -> WriterPC] /\ wpc'[w] = p /\ ~Zipping' /\ ~Gzipped'
    BY <1>3, <2>1, <2>2, <2>3
  <2>5. /\ data' \in [Files -> File] /\ DiskInv'
        /\ \A gz \in BOOLEAN : Orderly(gz)' => OrderInv(gz)'
    BY <1>1, <1>2, <2>1, <2>2, <2>4, Closes
  <2>6. Typed'
    BY <1>1, <1>2, <2>1, <2>2, <2>4, <2>5 DEF Typed
  <2>7. LiveInv'
    BY <1>1, <2>1, <2>2, <2>4 DEF LiveInv
  <2> QED BY <2>4, <2>5, <2>6, <2>7 DEF IInv
<1>5. CASE ~Exceeds(w, n)
  <2>1. fd' = fd /\ data' = data /\ wpc' = [wpc EXCEPT ![w] = "append"]
    BY <1>5 DEF WriteOr, Goto
  <2>2. /\ Places' /\ wpc' \in [Writers -> WriterPC] /\ wpc'[w] = "append" /\ ~Zipping' /\ ~Gzipped'
    BY <1>1, <1>2, <1>3, <2>1 DEF Typed
  <2>3. Typed'
    BY <1>1, <1>2, <2>1, <2>2 DEF Typed
  <2>4. DiskInv'
    BY <1>1, <1>2, <2>1 DEF DiskInv, NoAlias, Fresh, Unreferenced, Counted
  <2>5. Fits(w, n)
    <3>1. size[w] \in Nat /\ cfg[w].units \in Nat
      BY <1>2, ConfigsKnown DEF Typed
    <3> QED BY <1>5, <3>1 DEF Exceeds, Fits
  <2>6. LiveInv'
    BY <1>1, <1>2, <2>1, <2>2, <2>5 DEF IInv, LiveInv, Sound, Fits
  <2>7. ASSUME NEW gz \in BOOLEAN, Orderly(gz)' PROVE OrderInv(gz)'
    <3>1. OrderInv(gz)
      BY <1>1, <1>2, <2>7, Premises DEF IInv, Typed
    <3>2. \A a, b \in Names : InOrder(a, b)'
      BY <1>1, <2>1, <3>1 DEF OrderInv, InOrder, Older
    <3>3. gz /\ ~Gzipped' /\ dir'[Tmp] # 0 /\ dir'[Gz] # 0 => Before(Gz, Tmp)'
      BY <1>1, <1>2, <2>1, <3>1 DEF OrderInv, Before
    <3> QED BY <1>1, <1>2, <2>1, <2>2, <3>1, <3>2, <3>3 DEF OrderInv
  <2> QED BY <2>2, <2>3, <2>4, <2>6, <2>7 DEF IInv
<1> QED BY <1>4, <1>5

LEMMA CloseFailsStep ==
  ASSUME IInv, NEW w \in Writers, CloseFails(w) PROVE IInv'
<1> DEFINE h == [fd EXCEPT ![w] = 0]
<1>1. /\ base = w /\ wpc[w] = "idle" /\ IsRough /\ fd' = h /\ data' = Swept(dir, h, data)
      /\ UNCHANGED <<dir, opened, base, wpc, cfg, size, slot, record, doomed, last>>
      /\ disturbed \subseteq disturbed'
  BY DEF CloseFails, Unless, doing
<1>2. /\ Typed /\ Places /\ base # 0 /\ ~Zipping /\ ~Zipping' /\ opened = base
  BY <1>1, FileFacts DEF IInv, Zipping, Places
<1>3. /\ h \in [Writers -> {0} \union Files] /\ h[w] = 0 /\ (\A v \in Writers : h[v] \in {0, fd[v]})
      /\ \A v \in Writers : v # w => h[v] = fd[v]
  BY <1>2 DEF Typed
<1> HIDE DEF h
<1>4. /\ data' \in [Files -> File] /\ DiskInv'
      /\ \A gz \in BOOLEAN : Orderly(gz)' => OrderInv(gz)'
  BY <1>1, <1>2, <1>3, Closes
<1>5. Typed'
  BY <1>1, <1>2, <1>3, <1>4 DEF Typed
<1>6. Places'
  <2>1. ASSUME NEW v \in Writers PROVE Place(v)'
    <3>1. Place(v) /\ h[v] \in {0, fd[v]}
      BY <1>2, <1>3 DEF Places
    <3>2. wpc[v] # "append" /\ wpc[v] # "compress"
      <4>1. v # w => wpc[v] \in {"none", "idle", "closed"}
        BY <1>1, <3>1 DEF Place
      <4> QED BY <1>1, <4>1
    <3> QED BY <1>1, <3>1, <3>2 DEF Place
  <2> QED BY <1>1, <1>2, <2>1 DEF Places, IsRough
<1>7. LiveInv'
  BY <1>1, <1>3 DEF LiveInv
<1> QED BY <1>4, <1>5, <1>6, <1>7 DEF IInv

(* A writer that waits for a write to end takes over.                        *)
LEMMA SwapAndCloseStep ==
  ASSUME IInv, SwapAndClose PROVE IInv'
<1>1. /\ base # 0 /\ opened > base /\ wpc[base] = "idle" /\ base' = opened /\ opened' = opened
      /\ data' = Swept(dir, fd', data) /\ fd' = [fd EXCEPT ![base] = 0]
      /\ dir' = dir /\ cfg' = cfg /\ slot' = slot /\ size' = size /\ last' = last
      /\ record' = record /\ doomed' = doomed
      /\ wpc' = [wpc EXCEPT ![base] = "closed"] /\ disturbed \subseteq disturbed'
      /\ "outdated" \notin disturbed' =>
           fd[opened] = dir[Live] /\ size[opened] = Len(data[dir[Live]].recs)
  BY DEF SwapAndClose, Goto, Unless, doing
<1>2. /\ Typed /\ DiskInv /\ Places /\ opened \in Nat /\ base \in Nat
      /\ base \in Writers /\ opened \in Writers /\ opened # base
  <2>1. Typed /\ DiskInv /\ Places
    BY DEF IInv
  <2>2. base \in 0 .. opened /\ opened \in 0 .. MaxWriters /\ MaxWriters \in Nat
    BY <2>1, FileFacts DEF Typed
  <2>3. opened \in Nat /\ base \in 1 .. MaxWriters /\ opened \in 1 .. MaxWriters /\ opened # base
    BY <1>1, <2>2
  <2> QED BY <2>1, <2>2, <2>3 DEF Writers
<1>3. wpc[opened] = "idle" /\ fd[opened] # 0 /\ ~IsRough
  BY <1>1, <1>2 DEF Places
<1>4. /\ wpc' \in [Writers -> WriterPC] /\ wpc'[base] = "closed" /\ wpc'[opened] = "idle"
      /\ \A v \in Writers : v # base => wpc'[v] = wpc[v]
      /\ fd' \in [Writers -> {0} \union Files] /\ fd'[base] = 0 /\ fd'[opened] = fd[opened]
      /\ \A v \in Writers : v # base => fd'[v] = fd[v]
  BY <1>1, <1>2, <1>3 DEF Typed, WriterPC
<1>5. ~Zipping /\ ~Zipping'
  BY <1>1, <1>4 DEF Zipping
<1>6. /\ data' \in [Files -> File] /\ DiskInv'
      /\ \A n \in Names : dir[n] # 0 => data'[dir[n]] = data[dir[n]]
      /\ \A gz \in BOOLEAN : Orderly(gz)' => OrderInv(gz)'
  <2>1. \A v \in Writers : fd'[v] \in {0, fd[v]}
    BY <1>4
  <2> QED BY <1>1, <1>4, <1>5, <2>1, Closes
<1>7. Typed'
  <2>1. base' \in 0 .. opened'
    BY <1>1, <1>2
  <2> QED BY <1>1, <1>2, <1>4, <1>6, <2>1 DEF Typed
<1>8. Places'
  <2>1. ASSUME NEW v \in Writers PROVE Place(v)'
    <3>1. CASE v = base
      BY <1>1, <1>2, <1>4, <3>1 DEF Place
    <3>2. CASE v = opened
      BY <1>1, <1>2, <1>3, <1>4, <3>2 DEF Place
    <3>3. CASE v # base /\ v # opened
      <4>1. Place(v) /\ fd'[v] = fd[v] /\ wpc'[v] = wpc[v] /\ fd[v] = 0 /\ wpc[v] \in {"none", "closed"}
        BY <1>2, <1>4, <3>3 DEF Places, Place
      <4> QED BY <1>1, <4>1 DEF Place
    <3> QED BY <3>1, <3>2, <3>3
  <2> QED BY <1>1, <1>4, <2>1 DEF Places
<1>9. LiveInv'
  <2>1. "outdated" \notin disturbed' => fd'[opened] = dir'[Live]
    BY <1>1, <1>4
  <2>2. Sound' => size'[opened] = Len(data'[fd'[opened]].recs)
    <3> SUFFICES ASSUME Sound' PROVE size'[opened] = Len(data'[fd'[opened]].recs)
      OBVIOUS
    <3>1. "outdated" \notin disturbed'
      BY DEF Sound
    <3>2. fd'[opened] = dir[Live] /\ dir[Live] # 0 /\ size'[opened] = Len(data[dir[Live]].recs)
      BY <1>1, <1>3, <1>4, <3>1
    <3> QED BY <1>6, <3>2, NameFacts
  <2> QED BY <1>1, <1>4, <2>1, <2>2 DEF LiveInv
<1> QED BY <1>6, <1>7, <1>8, <1>9 DEF IInv

(* Only the files are left.                                                  *)
LEMMA CrashStep ==
  ASSUME IInv, Crash PROVE IInv'
<1>1. /\ base # 0 /\ base' = 0 /\ opened' = opened
      /\ fd' = [w \in Writers |-> 0] /\ data' = Swept(dir, fd', data)
      /\ dir' = dir /\ cfg' = cfg /\ slot' = slot /\ size' = size /\ last' = last
      /\ record' = 0 /\ doomed' = {}
      /\ wpc' = [w \in Writers |-> IF wpc[w] = "none" THEN "none" ELSE "closed"]
      /\ disturbed \subseteq disturbed'
      /\ wpc[base] \in {"create", "compress", "untmp"} => "halfway" \in disturbed'
  BY DEF Crash, Unless
<1>2. Typed /\ Places /\ opened \in 0 .. MaxWriters /\ MaxWriters \in Nat
  BY FileFacts DEF IInv, Typed
<1>3. ~Zipping' /\ (Zipping => "halfway" \in disturbed')
  BY <1>1 DEF Zipping
<1>4. /\ fd' \in [Writers -> {0} \union Files] /\ \A v \in Writers : fd'[v] = 0
      /\ wpc' \in [Writers -> WriterPC]
      /\ \A v \in Writers : wpc'[v] \in {"none", "closed"} /\ (wpc[v] = "none" => wpc'[v] = "none")
  BY <1>1 DEF WriterPC
<1>5. /\ data' \in [Files -> File] /\ DiskInv'
      /\ \A gz \in BOOLEAN : Orderly(gz)' => OrderInv(gz)'
  BY <1>1, <1>3, <1>4, Closes
<1>6. Typed'
  BY <1>1, <1>2, <1>4, <1>5 DEF Typed
<1>7. Places'
  BY <1>1, <1>2, <1>4 DEF Places, Place
<1>8. LiveInv'
  BY <1>1 DEF LiveInv
<1> QED BY <1>5, <1>6, <1>7, <1>8 DEF IInv

(* A writer opens the live file, the only one of the process or beside the   *)
(* present one; that one's file, and with it the live file, stays.           *)
LEMMA OpenStep ==
  ASSUME IInv, NEW w \in Writers, w = opened + 1, OpenLive(w),
         wpc' = [wpc EXCEPT ![w] = "idle"], opened' = w, base' \in {w, base},
         base' = w => base = 0,
         base' # w => base # 0 /\ opened = base /\ ~IsRough,
         cfg' = cfg, slot' = slot, last' = last, disturbed' = disturbed,
         record' = record, doomed' = doomed
  PROVE  IInv'
<1>1. Typed /\ DiskInv /\ Places /\ opened \in Nat /\ base \in 0 .. opened /\ w # base /\ w > opened
  BY FileFacts DEF IInv, Typed
<1>2. wpc[w] = "none" /\ fd[w] = 0
  BY <1>1 DEF Places, Place
<1>3. /\ dir' \in [Names -> {0} \union Files] /\ fd' \in [Writers -> {0} \union Files]
      /\ size' \in [Writers -> Nat] /\ data' = data /\ DiskInv'
      /\ fd'[w] # 0 /\ fd'[w] = dir'[Live] /\ size'[w] = Len(data[fd'[w]].recs)
      /\ \A v \in Writers : v # w => fd'[v] = fd[v] /\ size'[v] = size[v]
      /\ \A n \in Names : n # Live => dir'[n] = dir[n]
      /\ dir[Live] # 0 => dir' = dir
      /\ dir[Live] = 0 => /\ data[dir'[Live]].recs = <<>>
                          /\ \A v \in Writers : v # w => fd[v] # dir'[Live]
  BY <1>1, <1>2, Opens
<1>4. wpc' \in [Writers -> WriterPC] /\ wpc'[w] = "idle" /\ \A v \in Writers : v # w => wpc'[v] = wpc[v]
  BY <1>1 DEF Typed, WriterPC
<1>5. Typed'
  <2>1. w \in 0 .. MaxWriters /\ base' \in 0 .. w
    BY <1>1, FileFacts DEF Writers
  <2> QED BY <1>1, <1>3, <1>4, <2>1 DEF Typed
<1>6. base' # w => base \in Writers
  BY <1>1, FileFacts DEF Typed, Writers
<1>7. ASSUME NEW v \in Writers, v # w PROVE Place(v) /\ wpc'[v] = wpc[v] /\ fd'[v] = fd[v]
  BY <1>1, <1>3, <1>4, <1>7 DEF Places
<1>8. Places'
  <2>1. Place(w)'
    BY <1>1, <1>3, <1>4 DEF Place
  <2>2. ASSUME NEW v \in Writers, v # w PROVE Place(v)'
    <3>1. Place(v) /\ wpc'[v] = wpc[v] /\ fd'[v] = fd[v]
      BY <1>7, <2>2
    <3>2. wpc[v] = "compress" => dir'[Gz] # 0 /\ data'[dir'[Gz]].recs = <<>>
      BY <1>3, <3>1, NameFacts DEF Place
    <3>3. v > w => v > opened
      BY <1>1 DEF Writers
    <3>4. CASE base' = w
      BY <2>2, <3>1, <3>2, <3>3, <3>4 DEF Place
    <3>5. CASE base' # w
      BY <2>2, <3>1, <3>2, <3>3, <3>5 DEF Place
    <3> QED BY <3>4, <3>5
  <2>3. base' # 0 => wpc'[base'] \notin {"none", "closed"}
    BY <1>1, <1>4, <1>6 DEF Places
  <2>4. base' # w => ~IsRough'
    BY DEF IsRough
  <2> QED BY <1>3, <1>4, <2>1, <2>2, <2>3, <2>4 DEF Places
<1>9. (Zipping' <=> Zipping) /\ (Gzipped' <=> Gzipped)
  <2>1. CASE base' = w
    BY <1>1, <1>4, <2>1, FileFacts DEF Zipping, Gzipped
  <2>2. CASE base' # w
    BY <1>1, <1>4, <1>6, <2>2 DEF Zipping, Gzipped
  <2> QED BY <2>1, <2>2
<1>10. LiveInv'
  <2>1. CASE base' = w
    BY <1>3, <1>4, <2>1 DEF LiveInv
  <2>2. CASE base' # w
    <3>1. base' = base /\ base \in Writers /\ base # w /\ base # 0
      BY <1>6, <2>2
    <3>2. fd'[base] = fd[base] /\ size'[base] = size[base] /\ wpc'[base] = wpc[base]
      BY <1>3, <1>4, <3>1
    <3>3. "outdated" \notin disturbed' /\ fd'[base] # 0 => fd'[base] = dir'[Live]
      BY <1>3, <3>1, <3>2 DEF IInv, LiveInv
    <3>4. Sound' => /\ Sound
                    /\ fd'[base] # 0 => size'[base] = Len(data'[fd'[base]].recs)
                    /\ wpc'[base] = "append" => Fits(base, record)'
      BY <1>3, <3>1, <3>2 DEF IInv, LiveInv, Sound, Fits
    <3>5. Sound /\ wpc[base] \in {"create", "compress", "untmp", "prune", "remove", "reopen"}
            => data'[dir'[Live]].recs = <<>>
      BY <1>3, <3>1 DEF IInv, LiveInv
    <3> QED BY <3>1, <3>2, <3>3, <3>4, <3>5 DEF LiveInv
  <2> QED BY <2>1, <2>2
<1>12. ASSUME NEW gz \in BOOLEAN, Orderly(gz)' PROVE OrderInv(gz)'
  <2>1. Orderly(gz)
    BY <1>1, <1>12, Premises DEF Typed
  <2>2. OrderInv(gz)
    BY <2>1 DEF IInv
  <2>3. \A m, n \in Names : InOrder(m, n)'
    <3>1. \A n \in Names : dir'[n] # 0 => \/ data'[dir'[n]].recs = <<>>
                                          \/ dir[n] # 0 /\ data'[dir'[n]].recs = data[dir[n]].recs
      BY <1>3
    <3> QED BY <2>2, <3>1, OrderStays DEF OrderInv
  <2>4. \A n \in BackupNames : dir'[n] = dir[n]
    BY <1>3, NameFacts
  <2>5. gz => \A v \in Writers, n \in Names :
          fd'[v] # 0 /\ dir'[n] = fd'[v] => n = Live \/ (n = Tmp /\ Zipping')
    <3> SUFFICES ASSUME gz = TRUE, NEW v \in Writers, NEW n \in Names,
                        fd'[v] # 0, dir'[n] = fd'[v], n # Live
                 PROVE  n = Tmp /\ Zipping'
      OBVIOUS
    <3>1. v # w
      BY <1>3, NameFacts DEF DiskInv, NoAlias
    <3> QED BY <1>3, <1>9, <2>2, <3>1 DEF OrderInv
  <2>6. gz /\ ~Gzipped' /\ dir'[Tmp] # 0 /\ dir'[Gz] # 0 => Before(Gz, Tmp)'
    BY <1>3, <1>9, <2>2, <2>4, NameFacts DEF OrderInv, Before
  <2> QED BY <2>2, <2>3, <2>4, <2>5, <2>6 DEF OrderInv
<1> QED BY <1>3, <1>5, <1>8, <1>10, <1>12 DEF IInv

(* Steps of time, and none at all.                                           *)
LEMMA IdleStep ==
  ASSUME IInv,
         UNCHANGED <<dir, data, opened, base, wpc, cfg, fd, size, slot, record, doomed, last, disturbed>>
  PROVE  IInv'
<1>1. Typed' /\ DiskInv' /\ Places' /\ LiveInv'
  BY DEF IInv, Typed, DiskInv, NoAlias, Fresh, Unreferenced, Counted, Places, Place, IsRough,
         LiveInv, Sound, Fits
<1>2. ASSUME NEW gz \in BOOLEAN, Orderly(gz)' PROVE OrderInv(gz)'
  <2>1. OrderInv(gz)
    BY <1>2 DEF IInv, Orderly, SameKind
  <2> QED BY <2>1 DEF OrderInv, InOrder, Before, Zipping, Gzipped
<1> QED BY <1>1, <1>2 DEF IInv

-----------------------------------------------------------------------------

LEMMA InitIInv == Init => IInv
<1> SUFFICES ASSUME Init PROVE IInv
  OBVIOUS
<1>1. Typed
  BY FileFacts, Bounds DEF Init, Typed, WriterPC
<1>2. DiskInv
  BY FileFacts DEF Init, DiskInv, NoAlias, Fresh, Counted, Unreferenced, Empty
<1>3. Places
  BY FileFacts DEF Init, Places, Place
<1>4. LiveInv
  BY NameFacts DEF Init, LiveInv
<1>5. \A gz \in BOOLEAN : OrderInv(gz)
  BY NameFacts DEF Init, OrderInv, InOrder
<1> QED BY <1>1, <1>2, <1>3, <1>4, <1>5 DEF IInv

LEMMA NextIInv == IInv /\ [Next]_vars => IInv'
<1> SUFFICES ASSUME IInv, [Next]_vars PROVE IInv'
  OBVIOUS
<1>1. ASSUME NEW w \in Writers, WriterStep(w) PROVE IInv'
  <2>1. CASE Write(w)
    BY <2>1, WriteStep, Bounds DEF Write
  <2>2. ASSUME NEW n \in 0 .. record, AppendRecord(w, n) PROVE IInv'
    BY <2>2, AppendRecordStep
  <2> QED BY <1>1, <2>1, <2>2, CloseFailsStep, DropOldestStep, CreateGzStep, CreateGzFailsStep,
       RemoveTmpStep, PruneStep, RemoveOldStep, ReopenStep, ReopenFailsStep,
       ShiftStep, MoveStep, CompressStep DEF WriterStep
<1>2. opened < MaxWriters => opened + 1 \in Writers
  BY FileFacts, SMTT(30) DEF IInv, Typed, Writers
<1>3. CASE OpenFirst
  BY <1>2, <1>3, OpenStep DEF OpenFirst, Goto, doing
<1>4. CASE OpenNext
  <2>1. base' = base /\ base # 0 /\ opened = base /\ base # opened + 1
    BY <1>4, FileFacts DEF OpenNext, IInv, Typed
  <2> QED BY <1>2, <1>4, <2>1, OpenStep DEF OpenNext, Goto, doing
<1>5. CASE Age
  BY <1>5, IdleStep DEF Age, disk, writer, doing
<1>6. CASE UNCHANGED vars
  BY <1>6, IdleStep DEF vars
<1> QED BY <1>1, <1>3, <1>4, <1>5, <1>6, SwapAndCloseStep, CrashStep DEF Next

LEMMA Inductive == Spec => []IInv
<1>1. Init => IInv
  BY InitIInv
<1>2. IInv /\ [Next]_vars => IInv'
  BY NextIInv
<1> QED BY <1>1, <1>2, PTL DEF Spec

(* The slots read from the oldest to the live file give the records in the   *)
(* order written, with any number of slots and at every step of a rotation,  *)
(* whatever rename or compression fails.                                     *)
THEOREM RotateSlotsInOrder == Spec => []SlotsInOrder
<1>1. IInv => SlotsInOrder
  BY DEF IInv, SlotsInOrder, Orderly, OrderInv
<1> QED BY <1>1, Inductive, PTL

-----------------------------------------------------------------------------
(* Which backups there are.  Their number goes no higher than MaxBackups of  *)
(* a writer that has been in use, and name.1 is there with compression only  *)
(* while it is compressed.                                                   *)
Used(v)   == v \in 1 .. opened /\ (base = 0 \/ v <= base)
Within(n) == n[1] = 1 \/ \E v \in 1 .. opened : Used(v) /\ n[1] <= cfg[v].backups

KeptInv(gz) ==
  /\ \A n \in Kept : n[2] = gz \/ n = Tmp
  /\ \A n \in Kept : Within(n)
  /\ gz /\ disturbed \subseteq {"outdated", "halfpruned"} /\ ~Zipping => dir[Tmp] = 0

KInv == \A gz \in BOOLEAN : SameKind(gz) => KeptInv(gz)

(* Writers only come into use, and compression is as it was.                 *)
LEMMA UsedStays ==
  ASSUME IInv, [Next]_vars
  PROVE  /\ cfg' = cfg /\ opened' \in Nat /\ opened' >= opened /\ opened \in Nat
         /\ disturbed \subseteq disturbed'
         /\ \A v : Used(v) => Used(v)'
         /\ \A gz \in BOOLEAN : SameKind(gz)' => SameKind(gz)
<1>0. opened \in Nat /\ base \in 0 .. opened
  BY FileFacts DEF IInv, Typed
<1>1. cfg' = cfg
  <2>1. ASSUME NEW w \in Writers, WriterStep(w) PROVE cfg' = cfg
    BY <2>1 DEF WriterStep, Write, WriteOr, CloseFails, DropOldest, CreateGz, CreateGzFails, RemoveTmp,
         Prune, PruneThose, RemoveOld, Reopen, ReopenFails, AppendRecord, Shift, ShiftOne, Move, MoveTo,
         Compress
  <2>2. CASE OpenFirst \/ OpenNext \/ SwapAndClose \/ Crash \/ Age \/ UNCHANGED vars
    BY <2>2 DEF OpenFirst, OpenNext, SwapAndClose, Crash, Age, vars, writer
  <2> QED BY <2>1, <2>2 DEF Next
<1>2. disturbed \subseteq disturbed'
  <2>1. ASSUME NEW w \in Writers, WriterStep(w) PROVE disturbed \subseteq disturbed'
    BY <2>1 DEF WriterStep, Write, WriteOr, CloseFails, DropOldest, CreateGz, CreateGzFails, RemoveTmp,
         Prune, PruneThose, RemoveOld, Reopen, ReopenFails, AppendRecord, Shift, ShiftOne, Move, MoveTo,
         Compress, Unless
  <2>2. CASE OpenFirst \/ OpenNext \/ SwapAndClose \/ Age \/ UNCHANGED vars
    BY <2>2 DEF OpenFirst, OpenNext, SwapAndClose, Age, vars, Unless
  <2>3. CASE Crash
    BY <2>3 DEF Crash, Unless
  <2> QED BY <2>1, <2>2, <2>3 DEF Next
<1>3. \/ opened' = opened /\ base' = base
      \/ opened' = opened /\ base' \in {0, opened}
      \/ opened' = opened + 1 /\ base' \in {base, opened + 1}
  <2>1. ASSUME NEW w \in Writers, WriterStep(w) PROVE opened' = opened /\ base' = base
    BY <2>1 DEF WriterStep, Write, WriteOr, CloseFails, DropOldest, CreateGz, CreateGzFails, RemoveTmp,
         Prune, PruneThose, RemoveOld, Reopen, ReopenFails, AppendRecord, Shift, ShiftOne, Move, MoveTo,
         Compress
  <2>2. OpenFirst => opened' = opened + 1 /\ base' = opened + 1
    BY DEF OpenFirst
  <2>3. OpenNext => opened' = opened + 1 /\ base' = base
    BY DEF OpenNext
  <2>4. SwapAndClose => opened' = opened /\ base' = opened
    BY DEF SwapAndClose
  <2>5. Crash => opened' = opened /\ base' = 0
    BY DEF Crash
  <2>6. Age \/ UNCHANGED vars => opened' = opened /\ base' = base
    BY DEF Age, vars
  <2> QED BY <2>1, <2>2, <2>3, <2>4, <2>5, <2>6 DEF Next
<1>4. opened' \in Nat /\ opened' >= opened
  BY <1>0, <1>3
<1>5. \A v : Used(v) => Used(v)'
  BY <1>0, <1>3 DEF Used
<1>6. \A gz \in BOOLEAN : SameKind(gz)' => SameKind(gz)
  BY <1>0, <1>1, <1>4 DEF SameKind
<1> QED BY <1>0, <1>1, <1>2, <1>4, <1>5, <1>6

(* A step that adds no backup.                                               *)
LEMMA KeptFewer ==
  ASSUME IInv, KInv, [Next]_vars, \A n \in BackupNames : dir'[n] # 0 => dir[n] # 0,
         Zipping /\ ~Zipping' => dir'[Tmp] = 0 \/ "failed" \in disturbed' \/ "halfway" \in disturbed'
  PROVE  KInv'
<1> SUFFICES ASSUME NEW gz \in BOOLEAN, SameKind(gz)' PROVE KeptInv(gz)'
  BY DEF KInv
<1>1. /\ KeptInv(gz) /\ cfg' = cfg /\ (\A v : Used(v) => Used(v)') /\ disturbed \subseteq disturbed'
      /\ \A v : Used(v)' => v \in 1 .. opened'
  BY UsedStays DEF KInv, Used
<1>2. \A n \in BackupNames : dir'[n] # 0 => n \in Kept
  BY DEF Kept
<1>3. \A n \in BackupNames : Within(n) => Within(n)'
  BY <1>1 DEF Within
<1>4. gz /\ disturbed' \subseteq {"outdated", "halfpruned"} /\ ~Zipping' => dir'[Tmp] = 0
  <2>1. CASE Zipping
    BY <2>1
  <2>2. CASE ~Zipping
    <3>1. disturbed' \subseteq {"outdated", "halfpruned"} => disturbed \subseteq {"outdated", "halfpruned"}
      BY <1>1
    <3>2. Tmp \in BackupNames
      BY NameFacts
    <3> QED BY <1>1, <2>2, <3>1, <3>2 DEF KeptInv
  <2> QED BY <2>1, <2>2
<1> QED BY <1>1, <1>2, <1>3, <1>4 DEF KeptInv, Kept

(* A step of the base by which a backup takes the name b.                    *)
LEMMA KeptOneMore ==
  ASSUME IInv, KInv, [Next]_vars, base # 0, base' = base, NEW b \in BackupNames,
         \A n \in BackupNames : dir'[n] # 0 => n = b \/ dir[n] # 0,
         b = Tmp \/ b[2] = cfg[base].compress,
         b[1] = 1 \/ b[1] <= cfg[base].backups,
         cfg[base].compress => Zipping' \/ (~Zipping /\ b # Tmp)
  PROVE  KInv'
<1> SUFFICES ASSUME NEW gz \in BOOLEAN, SameKind(gz)' PROVE KeptInv(gz)'
  BY DEF KInv
<1>1. /\ KeptInv(gz) /\ cfg' = cfg /\ (\A v : Used(v) => Used(v)') /\ disturbed \subseteq disturbed'
      /\ \A v : Used(v)' => v \in 1 .. opened'
  BY UsedStays DEF KInv, Used
<1>2. \A n \in BackupNames : dir'[n] # 0 /\ n # b => n \in Kept
  BY DEF Kept
<1>3. \A n \in BackupNames : Within(n) => Within(n)'
  BY <1>1 DEF Within
<1>4. Used(base) /\ cfg[base].compress = gz
  <2>1. base \in 1 .. opened /\ opened \in Nat
    BY UsedStays DEF IInv, Typed
  <2>2. SameKind(gz)
    BY UsedStays
  <2> QED BY <2>1, <2>2 DEF Used, SameKind
<1>5. Within(b)'
  BY <1>1, <1>4 DEF Within
<1>6. gz /\ disturbed' \subseteq {"outdated", "halfpruned"} /\ ~Zipping' => dir'[Tmp] = 0
  <2> SUFFICES ASSUME gz, disturbed' \subseteq {"outdated", "halfpruned"}, ~Zipping' PROVE dir'[Tmp] = 0
    OBVIOUS
  <2>1. ~Zipping /\ b # Tmp /\ disturbed \subseteq {"outdated", "halfpruned"}
    BY <1>1, <1>4
  <2>2. dir[Tmp] = 0 /\ Tmp \in BackupNames
    BY <1>1, <2>1, NameFacts DEF KeptInv
  <2> QED BY <2>1, <2>2
<1> QED BY <1>1, <1>2, <1>3, <1>4, <1>5, <1>6 DEF KeptInv, Kept

(* open() gives no backup a name.                                            *)
LEMMA OpensLive ==
  ASSUME IInv, NEW w, OpenLive(w) PROVE \A n \in BackupNames : dir'[n] = dir[n]
BY NameFacts DEF OpenLive, disk, IInv, Typed, Names

LEMMA StepKInv ==
  ASSUME IInv, KInv, [Next]_vars PROVE KInv'
<1>0. Typed /\ Tmp \in BackupNames /\ Gz \in BackupNames /\ Gz[1] = 1 /\ Gz[2] = TRUE /\ Live \notin BackupNames
  BY NameFacts DEF IInv
<1>1. ASSUME NEW w \in Writers, WriterStep(w) PROVE KInv'
  <2> DEFINE Goes(p) == wpc' = [wpc EXCEPT ![w] = p]
  <2>0. \A p : Goes(p) => wpc'[w] = p
    BY <1>0 DEF Typed
  <2>1. CASE Write(w)
    <3>1. dir' = dir /\ wpc[w] = "idle" /\ base = w
      BY <2>1 DEF Write, WriteOr
    <3> QED BY <3>1, KeptFewer DEF Zipping
  <2>2. ASSUME NEW ok \in Outcomes, DropOldest(w, ok) PROVE KInv'
    <3>1. wpc[w] = "drop" /\ \A n \in BackupNames : dir'[n] \in {0, dir[n]}
      BY <1>0, <2>2 DEF DropOldest, SetDir, Typed, Names
    <3>2. ~Zipping
      BY <3>1, InWrite
    <3> QED BY <3>1, <3>2, KeptFewer
  <2>3. CASE CreateGz(w)
    <3>1. /\ wpc[w] = "create" /\ base' = base /\ Goes("compress")
          /\ \A n \in BackupNames : dir'[n] # 0 => n = Gz \/ dir[n] # 0
      BY <1>0, <2>3 DEF CreateGz, Goto, Gz, Typed, Names
    <3>2. w = base /\ base # 0 /\ cfg[w].compress
      BY <3>1, InWrite DEF IInv, Places, Place
    <3>3. Zipping'
      BY <2>0, <3>1, <3>2 DEF Zipping
    <3> QED BY <1>0, <3>1, <3>2, <3>3, KeptOneMore
  <2>4. ASSUME NEW ok \in Outcomes, RemoveTmp(w, ok) PROVE KInv'
    <3>1. \A n \in BackupNames : dir'[n] \in {0, dir[n]}
      BY <1>0, <2>4 DEF RemoveTmp, SetDir, Typed, Names
    <3>2. dir'[Tmp] = 0 \/ "halfway" \in disturbed'
      BY <1>0, <2>4 DEF RemoveTmp, SetDir, Unless, Outcomes, Typed, Names
    <3> QED BY <3>1, <3>2, KeptFewer
  <2>5. ASSUME NEW ok \in Outcomes, Prune(w, ok) PROVE KInv'
    <3>1. wpc[w] = "prune" /\ dir' = dir
      BY <2>5 DEF Prune, PruneThose, disk
    <3>2. ~Zipping
      BY <3>1, InWrite
    <3> QED BY <3>1, <3>2, KeptFewer
  <2>12. ASSUME NEW ok \in Outcomes, RemoveOld(w, ok) PROVE KInv'
    <3>1. wpc[w] = "remove" /\ \A n \in BackupNames : dir'[n] \in {0, dir[n]}
      BY <1>0, <2>12 DEF RemoveOld, SetDir, Typed, Names
    <3>2. ~Zipping
      BY <3>1, InWrite
    <3> QED BY <3>1, <3>2, KeptFewer
  <2>13. CASE CloseFails(w)
    <3>1. dir' = dir /\ wpc[w] = "idle" /\ base = w
      BY <2>13 DEF CloseFails
    <3> QED BY <3>1, KeptFewer DEF Zipping
  <2>14. CASE CreateGzFails(w)
    <3>1. dir' = dir /\ "failed" \in disturbed'
      BY <2>14 DEF CreateGzFails, Unless, disk
    <3> QED BY <3>1, KeptFewer
  <2>6. CASE Reopen(w)
    <3>1. wpc[w] = "reopen" /\ \A n \in BackupNames : dir'[n] = dir[n]
      BY <2>6, OpensLive DEF Reopen
    <3>2. ~Zipping
      BY <3>1, InWrite
    <3> QED BY <3>1, <3>2, KeptFewer
  <2>7. CASE ReopenFails(w)
    <3>1. wpc[w] = "reopen" /\ dir' = dir
      BY <2>7 DEF ReopenFails, disk
    <3>2. ~Zipping
      BY <3>1, InWrite
    <3> QED BY <3>1, <3>2, KeptFewer
  <2>8. ASSUME NEW m \in 0 .. record, AppendRecord(w, m) PROVE KInv'
    <3>1. wpc[w] = "append" /\ dir' = dir
      BY <2>8 DEF AppendRecord
    <3>2. ~Zipping
      BY <3>1, InWrite
    <3> QED BY <3>1, <3>2, KeptFewer
  <2>9. ASSUME NEW ok \in Outcomes, Shift(w, ok) PROVE KInv'
    <3> DEFINE a == Backup(w, slot[w])
               b == Backup(w, slot[w] + 1)
    <3>1. /\ wpc[w] = "shift" /\ base' = base
          /\ dir' = dir \/ dir' = [dir EXCEPT ![b] = dir[a], ![a] = 0]
      BY <2>9 DEF Shift, ShiftOne, SetDir, Renamed
    <3>2. w = base /\ base # 0 /\ ~Zipping
      BY <3>1, InWrite
    <3>3. /\ cfg[w].backups \in Nat /\ cfg[w].backups <= MaxSlot /\ MaxSlot \in Nat /\ slot[w] \in Nat
          /\ slot[w] \in 1 .. cfg[w].backups - 1
      BY <3>1, ConfigFacts DEF IInv, Typed, Places, Place
    <3>4. /\ b \in BackupNames /\ b[1] = slot[w] + 1 /\ b[2] = cfg[w].compress
      BY <3>3, BackupFacts DEF IInv
    <3> HIDE DEF a, b
    <3>5. \A n \in BackupNames : dir'[n] # 0 => n = b \/ dir[n] # 0
      BY <1>0, <3>1 DEF Typed, Names
    <3>6. b[1] <= cfg[base].backups /\ b # Tmp
      BY <3>2, <3>3, <3>4, NameFacts
    <3> QED BY <3>1, <3>2, <3>4, <3>5, <3>6, KeptOneMore
  <2>10. ASSUME NEW ok \in Outcomes, Move(w, ok) PROVE KInv'
    <3>1. /\ wpc[w] = "move" /\ base' = base
          /\ \/ dir' = dir
             \/ /\ dir' = [dir EXCEPT ![Tmp] = dir[Live], ![Live] = 0]
                /\ cfg[w].compress => Goes("create")
      BY <2>10 DEF Move, MoveTo, SetDir, Renamed, Goto
    <3>2. w = base /\ base # 0 /\ ~Zipping
      BY <3>1, InWrite
    <3>3. CASE dir' = dir
      BY <3>2, <3>3, KeptFewer
    <3>4. CASE dir' = [dir EXCEPT ![Tmp] = dir[Live], ![Live] = 0] /\ (cfg[w].compress => Goes("create"))
      <4>1. \A n \in BackupNames : dir'[n] # 0 => n = Tmp \/ dir[n] # 0
        BY <1>0, <3>4 DEF Typed, Names
      <4>2. cfg[w].compress => Zipping'
        BY <2>0, <3>1, <3>2, <3>4 DEF Zipping
      <4> QED BY <1>0, <3>1, <3>2, <4>1, <4>2, NameFacts, KeptOneMore
    <3> QED BY <3>1, <3>3, <3>4
  <2>11. ASSUME NEW ok \in Outcomes, Compress(w, ok) PROVE KInv'
    <3>1. /\ wpc[w] = "compress" /\ base' = base /\ dir' = dir
          /\ ok => Goes("untmp")
          /\ ~ok => "failed" \in disturbed'
      BY <2>11 DEF Compress, Goto, Unless
    <3>2. w = base /\ base # 0
      BY <3>1, InWrite
    <3>3. ok => Zipping'
      BY <2>0, <3>1, <3>2 DEF Zipping
    <3> QED BY <3>1, <3>3, KeptFewer
  <2> QED BY <1>1, <2>1, <2>2, <2>3, <2>4, <2>5, <2>6, <2>7, <2>8, <2>9, <2>10, <2>11,
          <2>12, <2>13, <2>14 DEF WriterStep
<1>2. CASE OpenFirst
  <2>1. base = 0 /\ \A n \in BackupNames : dir'[n] = dir[n]
    BY <1>2, OpensLive DEF OpenFirst
  <2> QED BY <2>1, KeptFewer DEF Zipping
<1>3. CASE OpenNext
  <2>1. /\ base' = base /\ \A n \in BackupNames : dir'[n] = dir[n]
        /\ wpc' = [wpc EXCEPT ![opened + 1] = "idle"] /\ base # opened + 1
    BY <1>3, OpensLive, FileFacts DEF OpenNext, Goto, IInv, Typed
  <2>2. Zipping => Zipping'
    BY <1>0, <2>1 DEF Zipping, Typed
  <2> QED BY <2>1, <2>2, KeptFewer
<1>4. CASE SwapAndClose
  <2>1. dir' = dir /\ ~Zipping
    BY <1>4 DEF SwapAndClose, Zipping
  <2> QED BY <2>1, KeptFewer
<1>5. CASE Crash
  <2>1. dir' = dir /\ (Zipping => "halfway" \in disturbed')
    BY <1>5 DEF Crash, Zipping, Unless
  <2> QED BY <2>1, KeptFewer
<1>6. CASE Age
  BY <1>6, KeptFewer DEF Age, disk, writer, Zipping
<1>7. CASE UNCHANGED vars
  BY <1>7, KeptFewer DEF vars, Zipping
<1> QED BY <1>1, <1>2, <1>3, <1>4, <1>5, <1>6, <1>7 DEF Next

LEMMA InitKInv == Init => KInv
BY NameFacts DEF Init, KInv, KeptInv, Kept, Names

LEMMA AlwaysKInv == Spec => [](IInv /\ KInv)
<1>1. Init => IInv /\ KInv
  BY InitIInv, InitKInv
<1>2. (IInv /\ KInv) /\ [Next]_vars => (IInv /\ KInv)'
  BY NextIInv, StepKInv
<1> QED BY <1>1, <1>2, PTL DEF Spec

(* Backups of one kind with numbers up to N are no more than N.              *)
LEMMA AtMost ==
  ASSUME NEW N \in Nat, NEW gz \in BOOLEAN, \A n \in Kept : n[2] = gz /\ n[1] <= N
  PROVE  Cardinality(Kept) <= N
<1> DEFINE f == [n \in Kept |-> n[1]]
<1>1. Kept \subseteq BackupNames
  BY DEF Kept
<1>2. \A n \in Kept : n[1] \in 1 .. N
  BY <1>1, NameFacts
<1>3. \A m, n \in Kept : m[1] = n[1] => m = n
  BY <1>1, NameFacts
<1>4. f \in Injection(Kept, 1 .. N)
  BY <1>2, <1>3 DEF Injection, IsInjective
<1>5. IsFiniteSet(1 .. N) /\ Cardinality(1 .. N) = N
  BY FS_Interval
<1> HIDE DEF f
<1> QED BY <1>4, <1>5, FS_Injection

(* A rotation leaves no more backups than MaxBackups.                        *)
THEOREM RotateBackupsBounded == Spec => []BackupsBounded
<1>1. ASSUME IInv, KInv PROVE BackupsBounded
  <2> SUFFICES ASSUME ~Lowered, NEW gz \in BOOLEAN, SameKind(gz),
                      gz => disturbed \subseteq {"outdated", "halfpruned"},
                      base # 0, wpc[base] = "idle", cfg[base].backups > 0
               PROVE  Cardinality(Kept) <= cfg[base].backups
    BY DEF BackupsBounded
  <2>1. /\ base \in 1 .. opened /\ opened \in Nat /\ base \in Writers /\ ~Zipping
        /\ KeptInv(gz) /\ 1 .. opened \subseteq Writers
    BY <1>1, FileFacts DEF IInv, Typed, KInv, Zipping, Writers
  <2>2. \A v \in 1 .. opened : cfg[v].backups \in Nat
    BY <1>1, <2>1, ConfigFacts DEF IInv
  <2>3. ASSUME NEW n \in Kept PROVE n[2] = gz /\ n[1] <= cfg[base].backups
    <3>1. n \in BackupNames /\ dir[n] # 0
      BY <2>3 DEF Kept
    <3>2. n[2] = gz
      BY <2>1, <3>1, NameFacts DEF KeptInv
    <3>3. CASE n[1] = 1
      BY <2>1, <2>2, <3>2, <3>3
    <3>4. ASSUME NEW v \in 1 .. opened, Used(v), n[1] <= cfg[v].backups PROVE n[1] <= cfg[base].backups
      <4>1. v = base \/ v < base
        BY <2>1, <3>4 DEF Used
      <4>2. cfg[v].backups <= cfg[base].backups
        BY <2>1, <2>2, <4>1 DEF Lowered
      <4> QED BY <2>1, <2>2, <3>1, <3>4, <4>2, NameFacts
    <3> QED BY <2>1, <3>2, <3>3, <3>4 DEF KeptInv, Within
  <2> QED BY <2>1, <2>2, <2>3, AtMost
<1> QED BY <1>1, AlwaysKInv, PTL

-----------------------------------------------------------------------------
(* What the names hold: the numbers of the records, and the last change.     *)
Recs(n)  == IF dir[n] = 0 THEN {} ELSE Elements(data[dir[n]].recs)
Stamp(n) == IF dir[n] = 0 THEN 0 ELSE data[dir[n]].mtime
Here(S)  == base # 0 /\ wpc[base] \in S

(* What a step leaves as it was, and what it leaves empty.                   *)
Still(S) == \A n \in S : Recs(n)' = Recs(n) /\ Stamp(n)' = Stamp(n)
Gone(n)  == Recs(n)' = {} /\ Stamp(n)' = 0

LEMMA StoredHere == Stored = UNION {Recs(n) : n \in Names}
<1>1. \A x : x \in Stored <=> \E n \in Names : dir[n] # 0 /\ x \in Elements(data[dir[n]].recs)
  BY DEF Stored
<1>2. \A n : \A x : x \in Recs(n) <=> dir[n] # 0 /\ x \in Elements(data[dir[n]].recs)
  BY DEF Recs
<1>3. \A x : x \in UNION {Recs(n) : n \in Names} <=> \E n \in Names : x \in Recs(n)
  OBVIOUS
<1> QED BY <1>1, <1>2, <1>3

LEMMA StoredThere == Stored' = UNION {Recs(n)' : n \in Names}
<1>1. \A x : x \in Stored' <=> \E n \in Names : dir'[n] # 0 /\ x \in Elements(data'[dir'[n]].recs)
  BY DEF Stored, Elements
<1>2. \A n : \A x : x \in Recs(n)' <=> dir'[n] # 0 /\ x \in Elements(data'[dir'[n]].recs)
  BY DEF Recs, Elements
<1>3. \A x : x \in UNION {Recs(n)' : n \in Names} <=> \E n \in Names : x \in Recs(n)'
  OBVIOUS
<1> QED BY <1>1, <1>2, <1>3

LEMMA Holds ==
  /\ \A n : dir[n] = 0 => Recs(n) = {} /\ Stamp(n) = 0
  /\ \A n : dir'[n] = 0 => Gone(n)
  /\ \A m, n : dir[m] # 0 /\ dir'[n] # 0 /\ data'[dir'[n]].recs = data[dir[m]].recs => Recs(n)' = Recs(m)
  /\ \A m, n : dir[m] # 0 /\ dir'[n] # 0 /\ data'[dir'[n]].mtime = data[dir[m]].mtime => Stamp(n)' = Stamp(m)
  /\ dir'[Live] = 0 => LiveLen' = 0
  /\ dir[Live] = 0 => LiveLen = 0
  /\ dir[Live] # 0 /\ dir'[Live] # 0 /\ data'[dir'[Live]].recs = data[dir[Live]].recs => LiveLen' = LiveLen
<1>1. \A q, r : q = r => Elements(q) = Elements(r)
  OBVIOUS
<1>2. \A n : Recs(n)' = IF dir'[n] = 0 THEN {} ELSE Elements(data'[dir'[n]].recs)
  BY DEF Recs, Elements
<1> QED BY <1>1, <1>2 DEF Recs, Stamp, Gone, LiveLen

LEMMA SameHere ==
  ASSUME NEW n, dir'[n] = dir[n], dir[n] # 0 => data'[dir[n]] = data[dir[n]]
  PROVE  Recs(n)' = Recs(n) /\ Stamp(n)' = Stamp(n)
BY Holds DEF Gone

(* Files take other names, or lose theirs.                                   *)
LEMMA NewNames ==
  ASSUME IInv, NEW d \in [Names -> {0} \union Files], SetDir(d)
  PROVE  /\ dir' = d
         /\ \A n \in Names : d[n] = 0 => Gone(n)
         /\ \A m, n \in Names : d[n] = dir[m] => Recs(n)' = Recs(m) /\ Stamp(n)' = Stamp(m)
         /\ dir'[Live] = dir[Live] => LiveLen' = LiveLen
<1>1. dir' = d /\ data' = Swept(d, fd, data) /\ Live \in Names
  BY NameFacts DEF SetDir
<1>2. \A n \in Names : d[n] # 0 => data'[d[n]] = data[d[n]]
  BY <1>1, SweptFacts DEF Unreferenced
<1>3. \A n \in Names : d[n] = 0 => Gone(n)
  BY <1>1, Holds
<1>4. \A m, n \in Names : d[n] = dir[m] => Recs(n)' = Recs(m) /\ Stamp(n)' = Stamp(m)
  BY <1>1, <1>2, <1>3, Holds DEF Gone
<1>5. dir'[Live] = dir[Live] => LiveLen' = LiveLen
  BY <1>1, <1>2, Holds
<1> QED BY <1>1, <1>3, <1>4, <1>5

(* open() creates at most an empty live file.                                *)
LEMMA NewLive ==
  ASSUME IInv, NEW w \in Writers, fd[w] = 0, OpenLive(w), last' = last
  PROVE  Still(BackupNames) /\ Recs(Live)' = Recs(Live) /\ LiveLen' = LiveLen
<1>1. Typed /\ DiskInv
  BY DEF IInv
<1>2. /\ data' = data
      /\ \A n \in BackupNames : dir'[n] = dir[n]
      /\ dir[Live] # 0 => dir' = dir
      /\ dir[Live] = 0 => data[dir'[Live]].recs = <<>>
  BY <1>1, Opens, NameFacts
<1>3. Still(BackupNames)
  BY <1>2 DEF Still, Recs, Stamp, Elements
<1>4. CASE dir[Live] # 0
  BY <1>2, <1>3, <1>4 DEF Recs, LiveLen, Elements
<1>5. CASE dir[Live] = 0
  <2>1. Elements(data[dir'[Live]].recs) = {} /\ Len(data[dir'[Live]].recs) = 0
    BY <1>2, <1>5 DEF Elements
  <2> QED BY <1>2, <1>3, <1>5, <2>1 DEF Recs, LiveLen, Elements
<1> QED BY <1>4, <1>5

(* Steps that change no name's content but create an empty live file.        *)
Quiet == Still(BackupNames) /\ Recs(Live)' = Recs(Live) /\ LiveLen' = LiveLen /\ last' = last

LEMMA QuietSteps ==
  ASSUME IInv,
         \/ \E w \in Writers : Write(w) \/ CloseFails(w) \/ CreateGzFails(w) \/ Reopen(w) \/ ReopenFails(w)
         \/ \E w \in Writers, ok \in Outcomes : Prune(w, ok)
         \/ OpenFirst \/ OpenNext \/ SwapAndClose \/ Crash \/ Age \/ UNCHANGED vars
  PROVE  Quiet
<1>0. Typed /\ (\A n \in BackupNames : n \in Names) /\ Live \in Names
  BY NameFacts DEF IInv
<1>1. ASSUME dir' = dir, data' = data, last' = last PROVE Quiet
  BY <1>1 DEF Quiet, Still, Recs, Stamp, LiveLen, Elements
<1>2. ASSUME NEW h, dir' = dir, data' = Swept(dir, h, data), last' = last PROVE Quiet
  <2>1. \A n \in Names : dir[n] # 0 => data'[dir[n]] = data[dir[n]]
    <3> SUFFICES ASSUME NEW n \in Names, dir[n] # 0 PROVE data'[dir[n]] = data[dir[n]]
      OBVIOUS
    <3>1. dir[n] \in Files /\ dir[n] \notin Unreferenced(dir, h)
      BY <1>0 DEF Unreferenced, Typed
    <3> QED BY <1>2, <3>1, SweptFacts
  <2>2. \A n \in Names : Recs(n)' = Recs(n) /\ Stamp(n)' = Stamp(n)
    BY <1>2, <2>1, Holds DEF Gone
  <2>3. LiveLen' = LiveLen
    BY <1>0, <1>2, <2>1, Holds
  <2> QED BY <1>0, <1>2, <2>2, <2>3 DEF Quiet, Still
<1>3. opened < MaxWriters => opened + 1 \in Writers /\ fd[opened + 1] = 0
  <2>1. opened \in Nat /\ base \in 0 .. opened /\ MaxWriters \in Nat
    BY <1>0, FileFacts DEF Typed
  <2>2. opened < MaxWriters => opened + 1 \in Writers /\ opened + 1 \notin {base, opened}
    BY <2>1 DEF Writers
  <2> QED BY <2>2 DEF IInv, Places, Place
<1>4. ASSUME NEW w \in Writers, Write(w) PROVE Quiet
  <2>1. dir' = dir /\ last' = last /\ (data' = data \/ data' = Swept(dir, fd', data))
    BY <1>4 DEF Write, WriteOr
  <2> QED BY <1>1, <1>2, <2>1
<1>5. ASSUME NEW w \in Writers, Reopen(w) PROVE Quiet
  <2>1. OpenLive(w) /\ last' = last /\ fd[w] = 0
    BY <1>5, InWrite DEF Reopen
  <2> QED BY <2>1, NewLive DEF Quiet
<1>6. ASSUME NEW w \in Writers, ReopenFails(w) \/ CreateGzFails(w) PROVE Quiet
  BY <1>1, <1>6 DEF ReopenFails, CreateGzFails, disk
<1>13. ASSUME NEW w \in Writers, CloseFails(w) PROVE Quiet
  BY <1>2, <1>13 DEF CloseFails
<1>14. ASSUME NEW w \in Writers, NEW ok \in Outcomes, Prune(w, ok) PROVE Quiet
  BY <1>1, <1>14 DEF Prune, PruneThose, disk
<1>7. CASE OpenFirst
  BY <1>3, <1>7, NewLive DEF Quiet, OpenFirst
<1>8. CASE OpenNext
  BY <1>3, <1>8, NewLive DEF Quiet, OpenNext
<1>9. CASE SwapAndClose
  BY <1>2, <1>9 DEF SwapAndClose
<1>10. CASE Crash
  BY <1>2, <1>10 DEF Crash
<1>11. CASE Age
  BY <1>1, <1>11 DEF Age, disk
<1>12. CASE UNCHANGED vars
  BY <1>1, <1>12 DEF vars
<1> QED BY <1>4, <1>5, <1>6, <1>7, <1>8, <1>9, <1>10, <1>11, <1>12, <1>13, <1>14

LEMMA DropEffect ==
  ASSUME IInv, NEW w \in Writers, DropOldest(w, TRUE)
  PROVE  \E b \in BackupNames :
           /\ b = Backup(w, cfg[w].backups) /\ b[1] = cfg[w].backups /\ b[2] = cfg[w].compress
           /\ Gone(b) /\ Still(Names \ {b}) /\ LiveLen' = LiveLen /\ last' = last
<1>1. wpc[w] = "drop" /\ last' = last
  BY DEF DropOldest
<1>2. cfg[w].backups \in 1 .. MaxSlot + 1
  BY <1>1, ConfigFacts DEF IInv, Places, Place
<1>3. PICK b \in BackupNames : b = Backup(w, cfg[w].backups) /\ b[1] = cfg[w].backups /\ b[2] = cfg[w].compress
  BY <1>2, BackupFacts DEF IInv
<1> DEFINE d == [dir EXCEPT ![b] = 0]
<1>4. SetDir(d)
  BY <1>3 DEF DropOldest
<1>5. b \in Names /\ Live \in Names /\ Live # b
  BY NameFacts
<1>6. d \in [Names -> {0} \union Files] /\ d[b] = 0 /\ \A n \in Names \ {b} : d[n] = dir[n]
  BY <1>5 DEF IInv, Typed
<1> HIDE DEF d
<1>7. Gone(b) /\ Still(Names \ {b}) /\ LiveLen' = LiveLen
  BY <1>4, <1>5, <1>6, NewNames DEF Still
<1> QED BY <1>1, <1>3, <1>7

LEMMA ShiftEffect ==
  ASSUME IInv, NEW w \in Writers, Shift(w, TRUE)
  PROVE  \E a, b \in BackupNames :
           /\ b = Backup(w, slot[w] + 1) /\ a # b
           /\ a[1] = slot[w] /\ b[1] = slot[w] + 1 /\ a[2] = cfg[w].compress
           /\ last' = last /\ LiveLen' = LiveLen
           /\ a = Backup(w, slot[w])
           /\ \/ Recs(a) = {} /\ Still(Names)
              \/ /\ Recs(b)' = Recs(a) /\ Stamp(b)' = Stamp(a) /\ Gone(a)
                 /\ Still(Names \ {a, b})
<1>1. last' = last /\ wpc[w] = "shift"
  BY DEF Shift, ShiftOne
<1>2. slot[w] \in 1 .. MaxSlot + 1 /\ slot[w] + 1 \in 1 .. MaxSlot + 1
  BY <1>1, ConfigFacts DEF IInv, Places, Place
<1>3. PICK a \in BackupNames : a = Backup(w, slot[w]) /\ a[1] = slot[w] /\ a[2] = cfg[w].compress
  BY <1>2, BackupFacts DEF IInv
<1>4. PICK b \in BackupNames : b = Backup(w, slot[w] + 1) /\ b[1] = slot[w] + 1
  BY <1>2, BackupFacts DEF IInv
<1> DEFINE d == [dir EXCEPT ![b] = dir[a], ![a] = 0]
<1>5. SetDir(IF dir[a] = 0 THEN dir ELSE d)
  BY <1>3, <1>4 DEF Shift, ShiftOne, Renamed
<1>6. a \in Names /\ b \in Names /\ Live \in Names /\ Live # a /\ Live # b /\ a # b
  BY <1>2, <1>3, <1>4, NameFacts
<1>7. CASE dir[a] = 0
  <2>1. dir \in [Names -> {0} \union Files]
    BY DEF IInv, Typed
  <2>2. Still(Names) /\ LiveLen' = LiveLen
    BY <1>5, <1>6, <1>7, <2>1, NewNames DEF Still
  <2>3. Recs(a) = {}
    BY <1>7 DEF Recs
  <2> QED BY <1>1, <1>3, <1>4, <1>6, <2>2, <2>3
<1>8. CASE dir[a] # 0
  <2>1. /\ d \in [Names -> {0} \union Files] /\ d[a] = 0 /\ d[b] = dir[a]
        /\ \A n \in Names \ {a, b} : d[n] = dir[n]
    BY <1>6 DEF IInv, Typed
  <2> HIDE DEF d
  <2>2. SetDir(d) /\ dir[Live] = d[Live]
    BY <1>5, <1>6, <1>8, <2>1
  <2>3. /\ Recs(b)' = Recs(a) /\ Stamp(b)' = Stamp(a) /\ Gone(a) /\ LiveLen' = LiveLen
        /\ Still(Names \ {a, b})
    BY <1>6, <2>1, <2>2, NewNames DEF Still
  <2> QED BY <1>1, <1>3, <1>4, <1>6, <2>3
<1> QED BY <1>7, <1>8

LEMMA MoveEffect ==
  ASSUME IInv, NEW w \in Writers, Move(w, TRUE)
  PROVE  /\ last' = last /\ LiveLen' = 0
         /\ \/ Recs(Live) = {} /\ Still(Names)
            \/ /\ Recs(Tmp)' = Recs(Live) /\ Stamp(Tmp)' = Stamp(Live) /\ Gone(Live)
               /\ Still(Names \ {Live, Tmp})
<1> DEFINE d == [dir EXCEPT ![Tmp] = dir[Live], ![Live] = 0]
<1>1. SetDir(IF dir[Live] = 0 THEN dir ELSE d) /\ last' = last
  BY DEF Move, MoveTo, Renamed
<1>2. Live \in Names /\ Tmp \in Names /\ Live # Tmp
  BY NameFacts
<1>3. CASE dir[Live] = 0
  <2>1. dir \in [Names -> {0} \union Files]
    BY DEF IInv, Typed
  <2>2. Still(Names) /\ LiveLen' = LiveLen
    BY <1>1, <1>2, <1>3, <2>1, NewNames DEF Still
  <2> QED BY <1>1, <1>3, <2>2 DEF Recs, LiveLen
<1>4. CASE dir[Live] # 0
  <2>1. /\ d \in [Names -> {0} \union Files] /\ d[Live] = 0 /\ d[Tmp] = dir[Live]
        /\ \A n \in Names \ {Live, Tmp} : d[n] = dir[n]
    BY <1>2 DEF IInv, Typed
  <2> HIDE DEF d
  <2>2. /\ Recs(Tmp)' = Recs(Live) /\ Stamp(Tmp)' = Stamp(Live) /\ Gone(Live)
        /\ Still(Names \ {Live, Tmp}) /\ dir' = d
    BY <1>1, <1>2, <1>4, <2>1, NewNames DEF Still
  <2> QED BY <1>1, <2>1, <2>2 DEF LiveLen
<1> QED BY <1>3, <1>4

LEMMA CreateEffect ==
  ASSUME IInv, NEW w \in Writers, CreateGz(w)
  PROVE  Recs(Gz)' = {} /\ Stamp(Gz)' = last /\ Still(Names \ {Gz}) /\ LiveLen' = LiveLen /\ last' = last
<1> DEFINE new == [recs |-> <<>>, mtime |-> last]
<1>1. Typed /\ DiskInv /\ Live \in Names /\ Gz \in Names /\ Live # Gz /\ 0 \notin Files /\ last' = last
  BY NameFacts, FileFacts DEF IInv, CreateGz
<1>2. PICK f \in Files : /\ dir'[Gz] = f /\ (\A n \in Names \ {Gz} : dir'[n] = dir[n] /\ dir[n] # f)
                         /\ data' = [data EXCEPT ![f] = new]
  <2>1. CASE dir[Gz] # 0
    <3>1. dir' = dir /\ data' = [data EXCEPT ![dir[Gz]] = new]
      BY <2>1 DEF CreateGz, Gz
    <3> HIDE DEF new
    <3> QED BY <1>1, <2>1, <3>1 DEF Typed, DiskInv, NoAlias
  <2>2. CASE dir[Gz] = 0
    <3>1. PICK f \in Unreferenced(dir, fd) :
            dir' = [dir EXCEPT ![Gz] = f] /\ data' = [data EXCEPT ![f] = new]
      BY <2>2 DEF CreateGz, Gz
    <3> HIDE DEF new
    <3> QED BY <1>1, <3>1 DEF Unreferenced, Typed
  <2> QED BY <2>1, <2>2
<1>3. data'[f] = new /\ \A n \in Names \ {Gz} : dir[n] # 0 => data'[dir[n]] = data[dir[n]]
  <2> HIDE DEF new
  <2> QED BY <1>1, <1>2 DEF Typed
<1>4. Recs(Gz)' = {} /\ Stamp(Gz)' = last
  BY <1>1, <1>2, <1>3 DEF Recs, Stamp, Elements
<1>5. Still(Names \ {Gz}) /\ LiveLen' = LiveLen
  <2> HIDE DEF new
  <2>1. \A n \in Names \ {Gz} : Recs(n)' = Recs(n) /\ Stamp(n)' = Stamp(n)
    BY <1>2, <1>3, SameHere
  <2>2. LiveLen' = LiveLen
    BY <1>1, <1>2, <1>3, Holds
  <2> QED BY <2>1, <2>2 DEF Still
<1> QED BY <1>1, <1>4, <1>5

LEMMA CompressEffect ==
  ASSUME IInv, NEW w \in Writers, Compress(w, TRUE)
  PROVE  /\ Recs(Gz) = {} /\ Recs(Gz)' = Recs(Tmp) /\ Stamp(Gz)' = Stamp(Gz)
         /\ Still(Names \ {Gz}) /\ LiveLen' = LiveLen /\ last' = last
<1>1. Typed /\ DiskInv /\ Live \in Names /\ Gz \in Names /\ Tmp \in Names /\ Live # Gz /\ Tmp # Gz /\ 0 \notin Files
  BY NameFacts, FileFacts DEF IInv
<1>2. /\ dir' = dir /\ last' = last /\ wpc[w] = "compress"
      /\ data' = IF dir[Tmp] # 0 THEN [data EXCEPT ![dir[Gz]].recs = data[dir[Tmp]].recs] ELSE data
  BY DEF Compress, Gz
<1>3. dir[Gz] # 0 /\ data[dir[Gz]].recs = <<>> /\ dir[Gz] \in Files
  BY <1>1, <1>2 DEF IInv, Places, Place, Typed
<1>4. Recs(Gz) = {}
  BY <1>3 DEF Recs, Elements
<1>5. CASE dir[Tmp] = 0
  <2>1. Still(Names) /\ LiveLen' = LiveLen
    BY <1>2, <1>5 DEF Still, Recs, Stamp, LiveLen, Elements
  <2> QED BY <1>1, <1>2, <1>4, <1>5, <2>1 DEF Still, Recs
<1>6. CASE dir[Tmp] # 0
  <2>1. /\ data'[dir[Gz]].recs = data[dir[Tmp]].recs /\ data'[dir[Gz]].mtime = data[dir[Gz]].mtime
        /\ \A f \in Files : f # dir[Gz] => data'[f] = data[f]
    <3>1. data[dir[Gz]] \in File
      BY <1>1, <1>3 DEF Typed
    <3> QED BY <1>1, <1>2, <1>3, <1>6, <3>1 DEF Typed, File
  <2>2. \A n \in Names \ {Gz} : dir[n] # 0 => dir[n] # dir[Gz] /\ dir[n] \in Files
    BY <1>1, <1>3 DEF DiskInv, NoAlias, Typed
  <2>3. Recs(Gz)' = Recs(Tmp) /\ Stamp(Gz)' = Stamp(Gz)
    BY <1>2, <1>3, <1>6, <2>1, Holds
  <2>4. Still(Names \ {Gz}) /\ LiveLen' = LiveLen
    <3>1. \A n \in Names \ {Gz} : Recs(n)' = Recs(n) /\ Stamp(n)' = Stamp(n)
      BY <1>2, <2>1, <2>2, SameHere
    <3>2. LiveLen' = LiveLen
      BY <1>1, <1>2, <2>1, <2>2, Holds
    <3> QED BY <3>1, <3>2 DEF Still
  <2> QED BY <1>2, <1>4, <2>3, <2>4
<1> QED BY <1>5, <1>6

LEMMA RemoveTmpEffect ==
  ASSUME IInv, NEW w \in Writers, RemoveTmp(w, TRUE)
  PROVE  Gone(Tmp) /\ Still(Names \ {Tmp}) /\ LiveLen' = LiveLen /\ last' = last
<1> DEFINE d == [dir EXCEPT ![Tmp] = 0]
<1>1. SetDir(d) /\ last' = last
  BY DEF RemoveTmp
<1>2. Tmp \in Names /\ Live \in Names /\ Live # Tmp
  BY NameFacts
<1>3. d \in [Names -> {0} \union Files] /\ d[Tmp] = 0 /\ \A n \in Names \ {Tmp} : d[n] = dir[n]
  BY <1>2 DEF IInv, Typed
<1> HIDE DEF d
<1> QED BY <1>1, <1>2, <1>3, NewNames DEF Still

LEMMA RemoveOldEffect ==
  ASSUME IInv, NEW w \in Writers, RemoveOld(w, TRUE)
  PROVE  \E a \in doomed :
           /\ a \in BackupNames /\ doomed' = doomed \ {a}
           /\ Gone(a) /\ Still(Names \ {a}) /\ LiveLen' = LiveLen /\ last' = last
<1>1. PICK a \in doomed : SetDir([dir EXCEPT ![a] = 0]) /\ doomed' = doomed \ {a}
  BY DEF RemoveOld
<1> DEFINE d == [dir EXCEPT ![a] = 0]
<1>2. a \in BackupNames /\ a \in Names /\ Live \in Names /\ Live # a
  BY NameFacts DEF IInv, Typed
<1>3. d \in [Names -> {0} \union Files] /\ d[a] = 0 /\ \A n \in Names \ {a} : d[n] = dir[n]
  BY <1>2 DEF IInv, Typed
<1>4. SetDir(d) /\ last' = last
  BY <1>1 DEF RemoveOld
<1> HIDE DEF d
<1>5. Gone(a) /\ Still(Names \ {a}) /\ LiveLen' = LiveLen
  BY <1>2, <1>3, <1>4, NewNames DEF Still
<1> QED BY <1>1, <1>2, <1>4, <1>5

LEMMA AppendEffect ==
  ASSUME IInv, NEW w \in Writers, NEW n \in 0 .. record, AppendRecord(w, n), "outdated" \notin disturbed
  PROVE  /\ Recs(Live)' = Recs(Live) \union (last + 1 .. last + n) /\ LiveLen' = LiveLen + n
         /\ Still(BackupNames) /\ last' = last + n
<1> DEFINE f == fd[w]
           q == data[f].recs
           p == data'[f].recs
<1>1. dir' = dir /\ wpc[w] = "append" /\ n \in Nat /\ last \in Nat
  BY DEF AppendRecord, IInv, Typed
<1>2. f # 0 /\ f = dir[Live] /\ f \in Files /\ Typed /\ DiskInv /\ Live \in Names
  <2>1. w = base /\ base # 0 /\ fd[w] # 0
    BY <1>1, InWrite DEF IInv, Places, Place
  <2> QED BY <2>1, NameFacts DEF IInv, LiveInv, Typed
<1>3. /\ last' = last + n /\ q \in Seq(Nat) /\ p \in Seq(Nat) /\ Len(p) = Len(q) + n
      /\ \A i \in 1 .. Len(q) : p[i] = q[i]
      /\ \A i \in 1 .. n : p[Len(q) + i] = last + i
      /\ \A e \in Files : e # f => data'[e] = data[e]
  BY <1>1, AppendFacts
<1>4. \A b \in BackupNames : b \in Names /\ dir[b] # f
  BY <1>2, NameFacts DEF DiskInv, NoAlias
<1>5. /\ Recs(Live)' = Elements(p) /\ Recs(Live) = Elements(q)
      /\ LiveLen' = Len(p) /\ LiveLen = Len(q)
  BY <1>1, <1>2 DEF Recs, Elements, LiveLen
<1>6. Still(BackupNames)
  <2>1. \A b \in BackupNames : dir[b] # 0 => data'[dir[b]] = data[dir[b]]
    BY <1>2, <1>3, <1>4 DEF Typed
  <2> QED BY <1>1, <2>1, Holds DEF Still, Gone
<1> HIDE DEF f, p, q
<1>7. Elements(p) = Elements(q) \union (last + 1 .. last + n)
  <2> DEFINE l == Len(q)
  <2>1. DOMAIN p = 1 .. l + n /\ DOMAIN q = 1 .. l /\ l \in Nat
    BY <1>1, <1>3
  <2>2. \A i \in 1 .. l : p[i] = q[i]
    BY <1>3
  <2>3. \A i \in 1 .. n : p[l + i] = last + i
    BY <1>3
  <2> HIDE DEF l
  <2>4. ASSUME NEW x \in Elements(p) PROVE x \in Elements(q) \union (last + 1 .. last + n)
    <3>1. PICK i \in 1 .. l + n : x = p[i]
      BY <2>1 DEF Elements
    <3>2. CASE i <= l
      BY <1>1, <2>1, <2>2, <3>1, <3>2 DEF Elements
    <3>3. CASE i > l
      <4>1. i - l \in 1 .. n /\ l + (i - l) = i
        BY <1>1, <2>1, <3>3
      <4>2. x = last + (i - l)
        BY <2>3, <3>1, <4>1
      <4> QED BY <1>1, <4>1, <4>2
    <3> QED BY <1>1, <2>1, <3>2, <3>3
  <2>5. ASSUME NEW x \in Elements(q) PROVE x \in Elements(p)
    <3>1. PICK i \in 1 .. l : x = q[i]
      BY <2>1, <2>5 DEF Elements
    <3> QED BY <1>1, <2>1, <2>2, <3>1 DEF Elements
  <2>6. ASSUME NEW x \in last + 1 .. last + n PROVE x \in Elements(p)
    <3>1. PICK i \in 1 .. n : x = last + i
      <4>1. x - last \in 1 .. n /\ x = last + (x - last)
        BY <1>1
      <4> QED BY <4>1
    <3>2. p[l + i] = x
      BY <2>3, <3>1
    <3>3. l + i \in DOMAIN p
      BY <1>1, <2>1
    <3> QED BY <3>2, <3>3 DEF Elements
  <2> QED BY <2>4, <2>5, <2>6
<1> QED BY <1>3, <1>5, <1>6, <1>7

(* The live file gets no longer but by a write.                              *)
LEMMA LiveGrows ==
  ASSUME IInv, [Next]_vars,
         \A w \in Writers, n \in 0 .. record : ~AppendRecord(w, n)
  PROVE  LiveLen' = LiveLen \/ LiveLen' = 0
<1>1. ASSUME NEW w \in Writers, WriterStep(w) PROVE LiveLen' = LiveLen \/ LiveLen' = 0
  <2>1. CASE SetDir(dir)
    <3>1. dir \in [Names -> {0} \union Files]
      BY DEF IInv, Typed
    <3> QED BY <2>1, <3>1, NewNames
  <2>2. CASE dir' = dir /\ data' = data
    BY <2>2 DEF LiveLen
  <2>3. ASSUME NEW ok \in Outcomes, DropOldest(w, ok) PROVE LiveLen' = LiveLen
    <3>1. CASE ok = TRUE
      BY <2>3, <3>1, DropEffect
    <3>2. CASE ok # TRUE
      <4>1. SetDir(dir) /\ dir \in [Names -> {0} \union Files] /\ dir' = dir
        BY <2>3, <3>2 DEF DropOldest, Outcomes, SetDir, IInv, Typed
      <4> QED BY <4>1, NewNames
    <3> QED BY <3>1, <3>2
  <2>4. ASSUME NEW ok \in Outcomes, Shift(w, ok) PROVE LiveLen' = LiveLen
    <3>1. CASE ok = TRUE
      BY <2>4, <3>1, ShiftEffect
    <3>2. CASE ok # TRUE
      <4>1. SetDir(dir) /\ dir \in [Names -> {0} \union Files] /\ dir' = dir
        BY <2>4, <3>2 DEF Shift, ShiftOne, Outcomes, SetDir, IInv, Typed
      <4> QED BY <4>1, NewNames
    <3> QED BY <3>1, <3>2
  <2>5. ASSUME NEW ok \in Outcomes, Move(w, ok) PROVE LiveLen' = LiveLen \/ LiveLen' = 0
    <3>1. CASE ok = TRUE
      BY <2>5, <3>1, MoveEffect
    <3>2. CASE ok # TRUE
      BY <2>1, <2>5, <3>2 DEF Move, MoveTo, Outcomes
    <3> QED BY <3>1, <3>2
  <2>6. ASSUME NEW ok \in Outcomes, Compress(w, ok) PROVE LiveLen' = LiveLen
    <3>1. CASE ok = TRUE
      BY <2>6, <3>1, CompressEffect
    <3>2. CASE ok # TRUE
      BY <2>6, <3>2 DEF Compress, Outcomes, LiveLen
    <3> QED BY <3>1, <3>2
  <2>7. ASSUME NEW ok \in Outcomes, RemoveTmp(w, ok) PROVE LiveLen' = LiveLen
    <3>1. CASE ok = TRUE
      BY <2>7, <3>1, RemoveTmpEffect
    <3>2. CASE ok # TRUE
      <4>1. SetDir(dir) /\ dir \in [Names -> {0} \union Files] /\ dir' = dir
        BY <2>7, <3>2 DEF RemoveTmp, Outcomes, SetDir, IInv, Typed
      <4> QED BY <4>1, NewNames
    <3> QED BY <3>1, <3>2
  <2>8. ASSUME NEW ok \in Outcomes, RemoveOld(w, ok) PROVE LiveLen' = LiveLen
    <3>1. CASE ok = TRUE
      BY <2>8, <3>1, RemoveOldEffect
    <3>2. CASE ok # TRUE
      <4>1. SetDir(dir) /\ dir \in [Names -> {0} \union Files] /\ dir' = dir
        BY <2>8, <3>2 DEF RemoveOld, Outcomes, SetDir, IInv, Typed
      <4> QED BY <4>1, NewNames
    <3> QED BY <3>1, <3>2
  <2>9. CASE \/ Write(w) \/ CloseFails(w) \/ CreateGzFails(w) \/ Reopen(w) \/ ReopenFails(w)
             \/ \E ok \in Outcomes : Prune(w, ok)
    BY <2>9, QuietSteps DEF Quiet
  <2>10. CASE CreateGz(w)
    BY <2>10, CreateEffect
  <2> QED BY <1>1, <2>3, <2>4, <2>5, <2>6, <2>7, <2>8, <2>9, <2>10 DEF WriterStep
<1>2. CASE OpenFirst \/ OpenNext \/ SwapAndClose \/ Crash \/ Age \/ UNCHANGED vars
  BY <1>2, QuietSteps DEF Quiet
<1> QED BY <1>1, <1>2 DEF Next

(* The live file grows beyond MaxSizeMB only by one record that is longer    *)
(* than that, written to an empty file, for records of any length and with   *)
(* any writers and limits one after the other: the writer's count of what    *)
(* the file holds is right wherever the process is stopped and started       *)
(* again.  Excepted are a system call that failed and a writer that was      *)
(* opened beside one that wrote on before it was replaced.                   *)
THEOREM RotateLiveBounded == Spec => LiveBounded
<1> DEFINE Bounded == disturbed \subseteq {"halfway", "halfpruned"} /\ LiveLen' > LiveLen =>
                        LiveLen = 0 \/ cfg[base].units = 0 \/ LiveLen' <= cfg[base].units
<1>1. ASSUME IInv, [Next]_vars PROVE Bounded
  <2> SUFFICES ASSUME disturbed \subseteq {"halfway", "halfpruned"}, LiveLen' > LiveLen
               PROVE  LiveLen = 0 \/ cfg[base].units = 0 \/ LiveLen' <= cfg[base].units
    OBVIOUS
  <2>1. LiveLen \in Nat
    <3>1. dir[Live] # 0 => data[dir[Live]].recs \in Seq(Nat)
      BY <1>1, NameFacts DEF IInv, Typed, File
    <3> QED BY <3>1 DEF LiveLen
  <2>2. PICK w \in Writers, n \in 0 .. record : AppendRecord(w, n)
    BY <1>1, <2>1, LiveGrows
  <2>3. /\ w = base /\ base # 0 /\ fd[base] # 0 /\ wpc[base] = "append"
        /\ record \in Nat /\ cfg[base].units \in Nat /\ size[base] \in Nat
    <3>1. wpc[w] = "append"
      BY <2>2 DEF AppendRecord
    <3>2. w = base /\ base # 0 /\ fd[w] # 0
      BY <1>1, <3>1, InWrite DEF IInv, Places, Place
    <3> QED BY <1>1, <3>1, <3>2, ConfigsKnown DEF IInv, Typed
  <2>4. LiveLen' = LiveLen + n
    BY <1>1, <2>2, AppendEffect
  <2>5. size[base] = LiveLen /\ Fits(base, record)
    BY <1>1, <2>3 DEF IInv, LiveInv, Sound, LiveLen
  <2> QED BY <2>1, <2>3, <2>4, <2>5 DEF Fits
<1>2. ASSUME IInv, [Next]_vars PROVE [Bounded]_vars
  BY <1>1, <1>2
<1> HIDE DEF Bounded
<1>3. Spec => [][Bounded]_vars
  BY <1>2, Inductive, PTL DEF Spec
<1> QED BY <1>3 DEF LiveBounded, Bounded

(* A file was changed last when its last record was written, or later.       *)
Dated ==
  /\ \A f \in Files : /\ data[f].mtime \in 0 .. last
                      /\ \A i \in DOMAIN data[f].recs : data[f].recs[i] \in 1 .. data[f].mtime
  /\ \A w \in Writers : wpc[w] = "compress" => data[dir[Gz]].mtime = last

LEMMA DatedNames ==
  ASSUME IInv, Dated
  PROVE  \A n \in Names : Stamp(n) \in 0 .. last /\ Recs(n) \subseteq 1 .. Stamp(n) /\ Stamp(n) \in Nat
<1>0. last \in Nat
  BY DEF IInv, Typed
<1> SUFFICES ASSUME NEW n \in Names
             PROVE  Stamp(n) \in 0 .. last /\ Recs(n) \subseteq 1 .. Stamp(n) /\ Stamp(n) \in Nat
  OBVIOUS
<1>1. CASE dir[n] = 0
  BY <1>0, <1>1 DEF Stamp, Recs
<1>2. CASE dir[n] # 0
  <2>1. dir[n] \in Files
    BY <1>2 DEF IInv, Typed
  <2>2. \A x \in Elements(data[dir[n]].recs) : x \in 1 .. data[dir[n]].mtime
    BY <2>1 DEF Dated, Elements
  <2> QED BY <1>0, <1>2, <2>1, <2>2 DEF Stamp, Recs, Dated
<1> QED BY <1>1, <1>2

LEMMA DatedStays ==
  ASSUME IInv, Dated, last' = last, \A f \in Files : data'[f] = data[f] \/ data'[f] = Empty,
         \A w \in Writers : wpc'[w] = "compress" => wpc[w] = "compress" /\ dir'[Gz] = dir[Gz] /\ data' = data
  PROVE  Dated'
<1>1. last \in Nat
  BY DEF IInv, Typed
<1> SUFFICES ASSUME NEW f \in Files
             PROVE  /\ data'[f].mtime \in 0 .. last
                    /\ \A i \in DOMAIN data'[f].recs : data'[f].recs[i] \in 1 .. data'[f].mtime
  BY DEF Dated
<1>2. CASE data'[f] = data[f]
  BY <1>2 DEF Dated
<1>3. CASE data'[f] = Empty
  BY <1>1, <1>3 DEF Empty
<1> QED BY <1>2, <1>3

LEMMA SweptOnly ==
  ASSUME NEW d, NEW h, data' = Swept(d, h, data)
  PROVE  \A f \in Files : data'[f] = data[f] \/ data'[f] = Empty
BY SweptFacts

(* No writer is compressing after another step of the writer in use.         *)
LEMMA NotCompressing ==
  ASSUME IInv, NEW w \in Writers, w = base, NEW p, p # "compress", wpc' = [wpc EXCEPT ![w] = p]
  PROVE  \A v \in Writers : wpc'[v] # "compress"
<1> SUFFICES ASSUME NEW v \in Writers, wpc'[v] = "compress" PROVE FALSE
  OBVIOUS
<1>1. v # w /\ wpc[v] = "compress"
  BY DEF IInv, Typed
<1> QED BY <1>1, InWrite

LEMMA StepDated ==
  ASSUME IInv, Dated, [Next]_vars PROVE Dated'
<1>0. Typed /\ last \in Nat /\ 0 \notin Files /\ Gz \in Names
  BY NameFacts, FileFacts DEF IInv, Typed
<1>1. ASSUME NEW w \in Writers, w = base, NEW p, p # "compress", wpc' = [wpc EXCEPT ![w] = p],
             last' = last, data' = data \/ \E d, h : data' = Swept(d, h, data)
      PROVE  Dated'
  BY <1>1, NotCompressing, SweptOnly, DatedStays
<1>2. ASSUME NEW w \in Writers, WriterStep(w) PROVE Dated'
  <2>1. CASE Write(w)
    <3>1. PICK p \in {"drop", "move", "append"} : wpc' = [wpc EXCEPT ![w] = p]
      BY <2>1 DEF Write, WriteOr, Goto
    <3> QED BY <1>1, <2>1, <3>1 DEF Write, WriteOr
  <2>2. ASSUME NEW ok \in Outcomes, DropOldest(w, ok) PROVE Dated'
    <3>1. PICK p \in {"shift", "move"} : wpc' = [wpc EXCEPT ![w] = p]
      BY <2>2 DEF DropOldest, Goto
    <3>2. wpc[w] = "drop" /\ last' = last /\ \E d, h : data' = Swept(d, h, data)
      BY <2>2 DEF DropOldest, SetDir
    <3>3. w = base
      BY <3>2, InWrite
    <3> QED BY <1>1, <3>1, <3>2, <3>3
  <2>3. CASE CreateGz(w)
    <3> DEFINE new == [recs |-> <<>>, mtime |-> last]
    <3>1. wpc[w] = "create" /\ last' = last
      BY <2>3 DEF CreateGz
    <3>2. PICK f \in Files : dir'[Gz] = f /\ data' = [data EXCEPT ![f] = new]
      BY <1>0, <2>3 DEF CreateGz, Gz, Unreferenced, Typed
    <3>3. data'[f] = new /\ \A g \in Files : g # f => data'[g] = data[g]
      <4> HIDE DEF new
      <4> QED BY <1>0, <3>2 DEF Typed
    <3>4. ASSUME NEW g \in Files
          PROVE  /\ data'[g].mtime \in 0 .. last
                 /\ \A i \in DOMAIN data'[g].recs : data'[g].recs[i] \in 1 .. data'[g].mtime
      <4>1. CASE g = f
        BY <1>0, <3>3, <4>1
      <4>2. CASE g # f
        BY <3>3, <4>2 DEF Dated
      <4> QED BY <4>1, <4>2
    <3>5. data'[dir'[Gz]].mtime = last
      BY <3>2, <3>3
    <3> QED BY <3>1, <3>4, <3>5 DEF Dated
  <2>4. ASSUME NEW ok \in Outcomes, RemoveTmp(w, ok) PROVE Dated'
    <3>1. /\ wpc[w] = "untmp" /\ last' = last /\ (\E d, h : data' = Swept(d, h, data))
          /\ wpc' = [wpc EXCEPT ![w] = "prune"]
      BY <2>4 DEF RemoveTmp, SetDir, Goto
    <3>2. w = base
      BY <3>1, InWrite
    <3> QED BY <1>1, <3>1, <3>2
  <2>5. ASSUME NEW ok \in Outcomes, Prune(w, ok) PROVE Dated'
    <3>1. wpc[w] = "prune" /\ last' = last /\ data' = data
      BY <2>5 DEF Prune, PruneThose, disk
    <3>2. PICK p \in {"remove", "reopen"} : wpc' = [wpc EXCEPT ![w] = p]
      BY <2>5 DEF Prune, PruneThose, Goto
    <3>3. w = base
      BY <3>1, InWrite
    <3> QED BY <1>1, <3>1, <3>2, <3>3
  <2>12. ASSUME NEW ok \in Outcomes, RemoveOld(w, ok) PROVE Dated'
    <3>1. wpc[w] = "remove" /\ last' = last /\ \E d, h : data' = Swept(d, h, data)
      BY <2>12 DEF RemoveOld, SetDir
    <3>2. PICK p \in {"remove", "reopen"} : wpc' = [wpc EXCEPT ![w] = p]
      BY <2>12 DEF RemoveOld, Goto
    <3>3. w = base
      BY <3>1, InWrite
    <3> QED BY <1>1, <3>1, <3>2, <3>3
  <2>13. CASE CloseFails(w)
    <3>1. last' = last /\ wpc' = wpc /\ \E d, h : data' = Swept(d, h, data)
      BY <2>13 DEF CloseFails
    <3>2. \A v \in Writers : wpc'[v] # "compress"
      <4>1. w = base /\ wpc[w] = "idle"
        BY <2>13 DEF CloseFails
      <4> QED BY <3>1, <4>1, InWrite
    <3> QED BY <3>1, <3>2, SweptOnly, DatedStays
  <2>14. CASE CreateGzFails(w)
    <3>1. /\ wpc[w] = "create" /\ last' = last /\ data' = data
          /\ wpc' = [wpc EXCEPT ![w] = "prune"]
      BY <2>14 DEF CreateGzFails, disk, Goto
    <3>2. w = base
      BY <3>1, InWrite
    <3> QED BY <1>1, <3>1, <3>2
  <2>6. CASE Reopen(w)
    <3>1. /\ wpc[w] = "reopen" /\ last' = last /\ data' = data
          /\ wpc' = [wpc EXCEPT ![w] = "append"]
      BY <2>6 DEF Reopen, OpenLive, disk, Goto
    <3>2. w = base
      BY <3>1, InWrite
    <3> QED BY <1>1, <3>1, <3>2
  <2>7. CASE ReopenFails(w)
    <3>1. /\ wpc[w] = "reopen" /\ last' = last /\ data' = data
          /\ wpc' = [wpc EXCEPT ![w] = "idle"]
      BY <2>7 DEF ReopenFails, disk, Goto
    <3>2. w = base
      BY <3>1, InWrite
    <3> QED BY <1>1, <3>1, <3>2
  <2>8. ASSUME NEW n \in 0 .. record, AppendRecord(w, n) PROVE Dated'
    <3>1. /\ wpc[w] = "append" /\ last' = last + n /\ wpc' = [wpc EXCEPT ![w] = "idle"]
          /\ n \in Nat /\ last' \in Nat /\ last <= last'
      BY <1>0, <2>8 DEF AppendRecord, Goto, IInv, Typed
    <3>2. w = base
      BY <3>1, InWrite
    <3>3. \A v \in Writers : wpc'[v] # "compress"
      BY <3>1, <3>2, NotCompressing
    <3>4. CASE n = 0
      <4>1. last' = last /\ data' = data
        BY <1>0, <2>8, <3>4 DEF AppendRecord
      <4> QED BY <3>3, <4>1, DatedStays
    <3>5. CASE n # 0
      <4> DEFINE f == fd[w]
                 l == Len(data[f].recs)
      <4>1. /\ f \in Files /\ data[f].recs \in Seq(Nat) /\ data'[f].recs \in Seq(Nat)
            /\ Len(data'[f].recs) = l + n
            /\ \A i \in 1 .. l : data'[f].recs[i] = data[f].recs[i]
            /\ \A i \in 1 .. n : data'[f].recs[l + i] = last + i
            /\ \A g \in Files : g # f => data'[g] = data[g]
        BY <2>8, <3>1, AppendFacts
      <4>2. data'[f].mtime = last'
        <5>1. data' = [data EXCEPT ![f] = [recs |-> @.recs \o [i \in 1 .. n |-> last + i], mtime |-> last']]
          BY <2>8, <3>5 DEF AppendRecord
        <5> QED BY <1>0, <4>1, <5>1 DEF Typed
      <4> HIDE DEF f
      <4>3. /\ DOMAIN data[f].recs = 1 .. l /\ DOMAIN data'[f].recs = 1 .. l + n /\ l \in Nat
        BY <4>1
      <4> HIDE DEF l
      <4>4. \A i \in 1 .. l : data[f].recs[i] \in 1 .. last'
        <5>1. /\ data[f].mtime \in 0 .. last
              /\ \A i \in 1 .. l : data[f].recs[i] \in 1 .. data[f].mtime
          BY <4>1, <4>3 DEF Dated
        <5> QED BY <1>0, <3>1, <5>1
      <4>5. ASSUME NEW i \in 1 .. l + n PROVE data'[f].recs[i] \in 1 .. last'
        <5>1. CASE i <= l
          <6>1. i \in 1 .. l
            BY <3>1, <4>3, <5>1
          <6>2. data'[f].recs[i] = data[f].recs[i]
            BY <4>1, <6>1
          <6> QED BY <4>4, <6>1, <6>2
        <5>2. CASE i > l
          <6>1. i - l \in 1 .. n /\ l + (i - l) = i
            BY <3>1, <4>3, <5>2
          <6>2. data'[f].recs[i] = last + (i - l)
            BY <4>1, <6>1
          <6> QED BY <1>0, <3>1, <6>1, <6>2
        <5> QED BY <3>1, <4>3, <5>1, <5>2
      <4>6. ASSUME NEW g \in Files
            PROVE  /\ data'[g].mtime \in 0 .. last'
                   /\ \A i \in DOMAIN data'[g].recs : data'[g].recs[i] \in 1 .. data'[g].mtime
        <5>1. CASE g = f
          BY <3>1, <4>2, <4>3, <4>5, <5>1
        <5>2. CASE g # f
          BY <1>0, <3>1, <4>1, <5>2 DEF Dated
        <5> QED BY <5>1, <5>2
      <4> QED BY <3>3, <4>6 DEF Dated
    <3> QED BY <3>4, <3>5
  <2>9. ASSUME NEW ok \in Outcomes, Shift(w, ok) PROVE Dated'
    <3>1. PICK p \in {"shift", "move"} : wpc' = [wpc EXCEPT ![w] = p]
      BY <2>9 DEF Shift, ShiftOne, Goto
    <3>2. wpc[w] = "shift" /\ last' = last /\ \E d, h : data' = Swept(d, h, data)
      BY <2>9 DEF Shift, ShiftOne, SetDir
    <3>3. w = base
      BY <3>2, InWrite
    <3> QED BY <1>1, <3>1, <3>2, <3>3
  <2>10. ASSUME NEW ok \in Outcomes, Move(w, ok) PROVE Dated'
    <3>1. PICK p \in {"create", "prune"} : wpc' = [wpc EXCEPT ![w] = p]
      BY <2>10 DEF Move, MoveTo, Goto
    <3>2. wpc[w] = "move" /\ last' = last /\ \E d, h : data' = Swept(d, h, data)
      BY <2>10 DEF Move, MoveTo, SetDir
    <3>3. w = base
      BY <3>2, InWrite
    <3> QED BY <1>1, <3>1, <3>2, <3>3
  <2>11. ASSUME NEW ok \in Outcomes, Compress(w, ok) PROVE Dated'
    <3>1. wpc[w] = "compress" /\ last' = last /\ dir' = dir
      BY <2>11 DEF Compress
    <3>2. PICK p \in {"untmp", "prune"} : wpc' = [wpc EXCEPT ![w] = p]
      BY <2>11 DEF Compress, Goto
    <3>3. w = base /\ dir[Gz] \in Files /\ data[dir[Gz]].mtime = last
      BY <1>0, <3>1, InWrite DEF Dated, IInv, Places, Place, Typed
    <3>4. CASE data' = data
      BY <1>1, <3>1, <3>2, <3>3, <3>4
    <3>5. CASE data' # data
      <4> DEFINE f == dir[Gz]
                 e == dir[Tmp]
      <4>1. e # 0 /\ data' = [data EXCEPT ![f].recs = data[e].recs]
        BY <2>11, <3>5 DEF Compress, Gz
      <4>2. f \in Files /\ e \in Files /\ data[f] \in File
        BY <1>0, <3>3, <4>1, NameFacts DEF Typed
      <4> HIDE DEF f, e
      <4>3. /\ data'[f].recs = data[e].recs /\ data'[f].mtime = data[f].mtime
            /\ \A g \in Files : g # f => data'[g] = data[g]
        BY <1>0, <4>1, <4>2 DEF Typed, File
      <4>4. ASSUME NEW g \in Files
            PROVE  /\ data'[g].mtime \in 0 .. last
                   /\ \A i \in DOMAIN data'[g].recs : data'[g].recs[i] \in 1 .. data'[g].mtime
        <5>1. CASE g = f
          <6>1. \A i \in DOMAIN data[e].recs : data[e].recs[i] \in 1 .. last
            BY <1>0, <4>2 DEF Dated
          <6>2. data[f].mtime = last
            BY <3>3 DEF f
          <6> QED BY <1>0, <4>3, <5>1, <6>1, <6>2
        <5>2. CASE g # f
          BY <4>3, <5>2 DEF Dated
        <5> QED BY <5>1, <5>2
      <4>5. \A v \in Writers : wpc'[v] # "compress"
        BY <3>2, <3>3, NotCompressing
      <4> QED BY <3>1, <4>4, <4>5 DEF Dated
    <3> QED BY <3>4, <3>5
  <2> QED BY <1>2, <2>1, <2>2, <2>3, <2>4, <2>5, <2>6, <2>7, <2>8, <2>9, <2>10, <2>11,
          <2>12, <2>13, <2>14 DEF WriterStep
<1>3. ASSUME NEW w, OpenLive(w), wpc' = [wpc EXCEPT ![w] = "idle"], last' = last PROVE Dated'
  <2>1. data' = data /\ (dir[Gz] # 0 => dir'[Gz] = dir[Gz])
    BY <1>0, <1>3, NameFacts DEF OpenLive, disk, Typed
  <2>2. \A v \in Writers : wpc'[v] = "compress" => wpc[v] = "compress" /\ dir[Gz] # 0
    BY <1>0, <1>3 DEF Typed, IInv, Places, Place
  <2> QED BY <1>3, <2>1, <2>2, DatedStays
<1>4. CASE OpenFirst
  BY <1>3, <1>4 DEF OpenFirst, Goto
<1>5. CASE OpenNext
  BY <1>3, <1>5 DEF OpenNext, Goto
<1>6. CASE SwapAndClose
  <2>1. /\ wpc' = [wpc EXCEPT ![base] = "closed"] /\ last' = last /\ data' = Swept(dir, fd', data)
        /\ base # 0 /\ wpc[base] = "idle"
    BY <1>6 DEF SwapAndClose, Goto
  <2>2. base \in Writers
    BY <2>1, FileFacts DEF IInv, Typed, Writers
  <2> QED BY <1>1, <2>1, <2>2
<1>7. CASE Crash
  <2>1. /\ last' = last /\ data' = Swept(dir, fd', data) /\ \A v \in Writers : wpc'[v] # "compress"
    BY <1>7 DEF Crash
  <2> QED BY <2>1, SweptOnly, DatedStays
<1>8. CASE UNCHANGED <<dir, data, wpc, last>>
  BY <1>8, DatedStays
<1> QED BY <1>2, <1>4, <1>5, <1>6, <1>7, <1>8 DEF Next, Age, disk, writer, vars

LEMMA InitDated == Init => Dated
BY DEF Init, Dated, Empty

-----------------------------------------------------------------------------
(* What a rotation removes.  This speaks of the time before anything has     *)
(* gone wrong, but for a crash in the middle of pruneAge, with compression   *)
(* on or off for good.                                                       *)
Unhurt == disturbed \subseteq {"halfpruned"}

(* An older name's file was last changed before a younger one's records.     *)
Younger == \A m, n \in Names : Older(m, n) => \A y \in Recs(n) : Stamp(m) < y

(* The slot above the next to be shifted is free, as is slot 1 once all are  *)
(* shifted, and name.1.gz is older than what it is made from.                *)
Staged ==
  /\ Here({"shift", "move"}) /\ cfg[base].backups > 0 =>
       \A n \in BackupNames : n[1] = slot[base] + 1 /\ n[2] = cfg[base].compress => Recs(n) = {}
  /\ Here({"move"}) /\ cfg[base].backups > 0 => slot[base] = 0
  /\ Here({"create"}) /\ cfg[base].backups > 0 => Recs(Gz) = {}
  /\ Here({"create"}) => \A x \in Recs(Gz), y \in Recs(Tmp) : x < y
  /\ Here({"untmp"}) => Recs(Tmp) \subseteq Recs(Gz)

(* As much has been written since a unit in slot n as the slots below are    *)
(* worth and, up to the worth of one, the live file holds, but for a file    *)
(* that each crash may have cost; when the live file is full, and n is not   *)
(* yet shifted, as n slots are worth.                                        *)
Units(i) == i * Worth
Share    == IF LiveLen < Worth THEN LiveLen ELSE Worth
Since(x) == last - x + Units(Restarts)
Full(n)  == Here({"drop"}) \/ (Here({"shift"}) /\ n[1] <= slot[base])
Reach(n) == IF Full(n) THEN Units(n[1])
            ELSE Units(n[1] - 1) + (IF base = 0 \/ Here({"shift", "move"}) THEN 0 ELSE Share)

Far ==
  /\ opened = 0 => \A n \in Names : Recs(n) = {}
  /\ base = 0 => opened = 0 \/ IsRough
  /\ \A n \in BackupNames : \A x \in Recs(n) : Since(x) >= Reach(n)

Lost ==
  \A x \in 1 .. last : x > aged /\ x \notin Stored =>
    \E w \in 1 .. opened : Since(x) >= Units(cfg[w].backups)

(* What pruneAge is still to remove is too old, and older than what it       *)
(* leaves.                                                                   *)
Dooms ==
  Here({"remove"}) =>
    \A a \in doomed : /\ Stamp(a) <= aged
                      /\ \A n \in BackupNames \ doomed : Recs(n) # {} => Stamp(a) < Stamp(n)

(* After a unit in file n none is missing, but for those pruneAge took while *)
(* it had n still to remove.                                                 *)
Excused(n) == "halfpruned" \in disturbed \/ (Here({"remove"}) /\ n \in doomed)
Whole ==
  \A n \in Names : \A r \in Recs(n) : \A q \in r .. last : q \in Stored \/ (q <= aged /\ Excused(n))

Removal    == Younger /\ Staged /\ Far /\ Lost /\ Dooms /\ (~Lowered => Whole)
RemovalInv == \A gz \in BOOLEAN : Unhurt /\ SameKind(gz) => Removal

-----------------------------------------------------------------------------

(* A set of numbers has a least one.                                         *)
LEMMA Least ==
  ASSUME NEW S \in SUBSET Nat, S # {} PROVE \E u \in S : \A v \in S : u <= v
<1> DEFINE R == {ss \in Nat \X Nat : ss[1] < ss[2]}
<1>1. IsWellFoundedOn(R, Nat)
  BY NatLessThanWellFounded DEF OpToRel
<1>2. \A x, y \in Nat : y < x => <<y, x>> \in R
  OBVIOUS
<1> HIDE DEF R
<1>3. PICK x \in S : \A y \in S : ~ (<<y, x>> \in R)
  BY <1>1, WFMin
<1>4. \A y \in S : ~(y < x)
  BY <1>2, <1>3
<1> QED BY <1>4

LEMMA WorthFacts ==
  ASSUME IInv
  PROVE  Worth \in Nat /\ Worth >= 1 /\ \A w \in Writers : Worth <= Filled(w)
<1> DEFINE S == {Filled(w) : w \in Writers}
<1>1. \A w \in Writers : Filled(w) \in Nat /\ Filled(w) >= 1
  BY ConfigsKnown, Bounds DEF IInv, Typed, Filled
<1>2. S # {} /\ S \in SUBSET Nat
  <2>1. 1 \in Writers
    BY Bounds DEF Writers
  <2> QED BY <1>1, <2>1
<1>3. PICK u \in S : \A v \in S : u <= v
  <2> HIDE DEF S
  <2> QED BY <1>2, Least
<1>4. \E t \in {Filled(w) : w \in Writers} : \A w \in Writers : t <= Filled(w)
  BY <1>3
<1>5. Worth \in {Filled(w) : w \in Writers} /\ \A w \in Writers : Worth <= Filled(w)
  BY <1>4 DEF Worth
<1> QED BY <1>1, <1>5

LEMMA WorthSame ==
  ASSUME cfg' = cfg
  PROVE  Worth' = Worth /\ \A i : Units(i)' = Units(i)
<1>1. \A w : Filled(w)' = Filled(w)
  BY DEF Filled
<1>2. Worth' = Worth
  BY <1>1 DEF Worth, Filled
<1> QED BY <1>2 DEF Units

LEMMA UnitsFacts ==
  ASSUME IInv
  PROVE  /\ Units(0) = 0
         /\ \A i \in Nat : Units(i) \in Nat /\ Units(i + 1) = Units(i) + Worth
         /\ \A i, j \in Nat : i <= j => Units(i) <= Units(j)
         /\ Worth \in Nat /\ Worth >= 1
<1> DEFINE u == Worth
<1>1. u \in Nat /\ u >= 1
  BY WorthFacts
<1> HIDE DEF u
<1>2. \A i \in Nat : i * u \in Nat
  BY <1>1
<1>3. \A i \in Nat : (i + 1) * u = i * u + u
  BY <1>1
<1>4. ASSUME NEW i \in Nat, NEW j \in Nat, i <= j PROVE i * u <= j * u
  <2>1. PICK k \in Nat : j = i + k
    <3>1. j - i \in Nat /\ j = i + (j - i)
      BY <1>4
    <3> QED BY <3>1
  <2>2. k * u \in Nat /\ i * u \in Nat
    BY <1>2
  <2>3. j * u = i * u + k * u
    BY <1>1, <2>1
  <2> QED BY <2>2, <2>3
<1>5. 0 * u = 0
  BY <1>1
<1>6. \A i : Units(i) = i * u
  BY DEF Units, u
<1> QED BY <1>1, <1>2, <1>3, <1>4, <1>5, <1>6 DEF u

LEMMA ShareFacts ==
  ASSUME IInv, LiveLen \in Nat
  PROVE  Share \in Nat /\ Share <= Worth /\ Share <= LiveLen /\ (LiveLen >= Worth => Share = Worth)
BY WorthFacts DEF Share

LEMMA Grow ==
  ASSUME IInv, aged \in Nat, [Next]_vars
  PROVE  /\ Restarts \in Nat /\ Restarts' \in Nat /\ Units(Restarts)' >= Units(Restarts)
         /\ Units(Restarts) \in Nat /\ Units(Restarts)' \in Nat
         /\ last \in Nat /\ last' \in Nat /\ last' >= last /\ aged' >= aged /\ aged' \in Nat
<1>1. last \in Nat /\ opened \in Nat /\ opened' \in Nat /\ opened' >= opened /\ cfg' = cfg
  BY UsedStays DEF IInv, Typed
<1>2. Restarts \in Nat /\ Restarts' \in Nat /\ Restarts' >= Restarts
  <2>1. IsRough' <=> IsRough
    BY <1>1 DEF IsRough
  <2>2. IsRough /\ opened > 0 => Restarts = opened - 1
    BY DEF Restarts
  <2>3. ~(IsRough /\ opened > 0) => Restarts = 0
    BY DEF Restarts
  <2>4. IsRough /\ opened' > 0 => Restarts' = opened' - 1
    BY <2>1 DEF Restarts
  <2>5. ~(IsRough /\ opened' > 0) => Restarts' = 0
    BY <2>1 DEF Restarts
  <2>6. \A i, j \in Nat : i > 0 /\ j >= i => j > 0 /\ i - 1 \in Nat /\ j - 1 >= i - 1
    OBVIOUS
  <2>7. opened' > 0 => opened' - 1 \in Nat
    <3>1. \A j \in Nat : j > 0 => j - 1 \in Nat
      OBVIOUS
    <3> QED BY <1>1, <3>1
  <2>8. opened > 0 => opened' > 0 /\ opened - 1 \in Nat /\ opened' - 1 >= opened - 1
    BY <1>1, <2>6
  <2>9. CASE IsRough /\ opened > 0
    <3>1. Restarts = opened - 1 /\ Restarts' = opened' - 1
      BY <2>2, <2>4, <2>8, <2>9
    <3> QED BY <2>7, <2>8, <2>9, <3>1
  <2>10. CASE ~(IsRough /\ opened > 0)
    <3>1. Restarts = 0 /\ Restarts' \in Nat
      BY <2>3, <2>4, <2>5, <2>7, <2>10
    <3> QED BY <3>1
  <2> QED BY <2>9, <2>10
<1>3. last' = last \/ \E n \in 0 .. record : last' = last + n
  <2>1. ASSUME NEW w \in Writers, WriterStep(w) PROVE last' = last \/ \E n \in 0 .. record : last' = last + n
    BY <2>1 DEF WriterStep, Write, WriteOr, CloseFails, DropOldest, CreateGz, CreateGzFails, RemoveTmp,
         Prune, PruneThose, RemoveOld, Reopen, ReopenFails, AppendRecord, Shift, ShiftOne, Move, MoveTo,
         Compress
  <2>2. CASE OpenFirst \/ OpenNext \/ SwapAndClose \/ Crash \/ Age \/ UNCHANGED vars
    BY <2>2 DEF OpenFirst, OpenNext, SwapAndClose, Crash, Age, vars
  <2> QED BY <2>1, <2>2 DEF Next
<1>7. last' \in Nat /\ last' >= last
  BY <1>1, <1>3 DEF IInv, Typed
<1>4. aged' = aged \/ aged' \in (aged + 1) .. last
  <2>1. ASSUME NEW w \in Writers, WriterStep(w) PROVE aged' = aged
    BY <2>1 DEF WriterStep, Write, WriteOr, CloseFails, DropOldest, CreateGz, CreateGzFails, RemoveTmp,
         Prune, PruneThose, RemoveOld, Reopen, ReopenFails, AppendRecord, Shift, ShiftOne, Move, MoveTo,
         Compress
  <2>2. CASE OpenFirst \/ OpenNext \/ SwapAndClose \/ Crash \/ Age \/ UNCHANGED vars
    BY <2>2 DEF OpenFirst, OpenNext, SwapAndClose, Crash, Age, vars
  <2> QED BY <2>1, <2>2 DEF Next
<1>5. Units(Restarts)' = Units(Restarts')
  BY <1>1, WorthSame DEF Units
<1>6. Units(Restarts)' >= Units(Restarts) /\ Units(Restarts) \in Nat /\ Units(Restarts)' \in Nat
  <2>1. PICK i \in Nat : i = Restarts
    BY <1>2
  <2>2. PICK j \in Nat : j = Restarts'
    BY <1>2
  <2>3. Units(j) >= Units(i) /\ Units(i) \in Nat /\ Units(j) \in Nat
    BY <1>2, <2>1, <2>2, UnitsFacts
  <2> QED BY <1>5, <2>1, <2>2, <2>3
<1> QED BY <1>1, <1>2, <1>4, <1>6, <1>7

(* Backups in use are of one kind, and the live file is moved and empty      *)
(* before it is opened again.                                                *)
LEMMA Facts ==
  ASSUME IInv, KInv, NEW gz \in BOOLEAN, Unhurt, SameKind(gz)
  PROVE  /\ \A n \in BackupNames : Recs(n) # {} => (n[2] = gz \/ n = Tmp) /\ Within(n)
         /\ gz /\ ~Zipping => Recs(Tmp) = {}
         /\ Here({"create", "compress", "untmp", "prune", "remove", "reopen"}) => Recs(Live) = {} /\ LiveLen = 0
         /\ LiveLen \in Nat
<1>1. \A n \in BackupNames : Recs(n) # {} => n \in Kept
  BY DEF Recs, Kept
<1>2. KeptInv(gz) /\ Sound
  BY DEF KInv, Sound, Unhurt
<1>3. Here({"create", "compress", "untmp", "prune", "remove", "reopen"}) => Recs(Live) = {} /\ LiveLen = 0
  <2>1. Here({"create", "compress", "untmp", "prune", "remove", "reopen"}) /\ dir[Live] # 0
          => data[dir[Live]].recs = <<>>
    BY <1>2 DEF IInv, LiveInv, Here
  <2>2. Elements(<<>>) = {} /\ Len(<<>>) = 0
    BY DEF Elements
  <2>3. \A q : q = <<>> => Elements(q) = {} /\ Len(q) = 0
    BY <2>2
  <2> QED BY <2>1, <2>3 DEF Recs, LiveLen
<1>4. LiveLen \in Nat
  <2>1. dir[Live] # 0 => data[dir[Live]] \in File
    BY NameFacts DEF IInv, Typed
  <2> QED BY <2>1, FileFacts DEF LiveLen
<1>5. gz /\ ~Zipping => dir[Tmp] = 0
  BY <1>2 DEF KeptInv, Unhurt
<1> QED BY <1>1, <1>2, <1>3, <1>4, <1>5 DEF KeptInv, Recs

LEMMA OneName ==
  ASSUME IInv, KInv, NEW gz \in BOOLEAN, Unhurt, SameKind(gz), ~Zipping,
         NEW a \in BackupNames, a[2] = gz, NEW n \in BackupNames, n[1] = a[1], Recs(n) # {}
  PROVE  n = a
<1>1. (n[2] = gz \/ n = Tmp) /\ (gz => n # Tmp)
  BY Facts
<1>2. n[2] = gz
  BY <1>1, NameFacts
<1> QED BY <1>2, NameFacts

LEMMA ReachFacts ==
  ASSUME IInv, KInv, NEW gz \in BOOLEAN, Unhurt, SameKind(gz), NEW n \in BackupNames
  PROVE  /\ Reach(n) \in Nat
         /\ Units(n[1]) = Units(n[1] - 1) + Worth
         /\ Units(n[1]) \in Nat /\ Units(n[1] - 1) \in Nat
         /\ Reach(n) >= Units(n[1] - 1) /\ Reach(n) <= Units(n[1])
<1>1. n[1] - 1 \in Nat /\ n[1] \in Nat /\ n[1] = (n[1] - 1) + 1
  BY NameFacts
<1>2. /\ Units(n[1]) = Units(n[1] - 1) + Worth /\ Worth \in Nat
      /\ Units(n[1]) \in Nat /\ Units(n[1] - 1) \in Nat
  BY <1>1, UnitsFacts
<1>3. Share \in Nat /\ Share <= Worth
  BY Facts, ShareFacts
<1> QED BY <1>2, <1>3 DEF Reach

-----------------------------------------------------------------------------
(* Steps by which names only lose what they hold.                            *)
Fewer == \A n \in Names : Recs(n)' \subseteq Recs(n)

LEMMA YoungerStays ==
  ASSUME IInv, Dated, Younger, Fewer, \A n \in BackupNames : Stamp(n)' = Stamp(n) \/ Stamp(n)' = 0
  PROVE  Younger'
<1> SUFFICES ASSUME NEW m \in Names, NEW n \in Names, Older(m, n), NEW y \in Recs(n)'
             PROVE  Stamp(m)' < y
  BY DEF Younger, Older
<1>1. y \in Recs(n)
  BY DEF Fewer
<1>2. y \in Nat /\ y >= 1 /\ Stamp(m) < y
  BY <1>1, DatedNames DEF Younger
<1>3. m \in BackupNames
  BY NameFacts DEF Older
<1> QED BY <1>2, <1>3

LEMMA FarStays ==
  ASSUME IInv, aged \in Nat, Dated, Far, [Next]_vars, Fewer \/ opened' # 0,
         \A n \in BackupNames : Recs(n)' \subseteq Recs(n),
         base' = 0 => opened' = 0 \/ IsRough,
         \A n \in BackupNames : Reach(n) \in Nat /\ Reach(n)' \in Nat,
         \A n \in BackupNames :
           Recs(n)' # {} => Reach(n)' <= Reach(n) + (Units(Restarts)' - Units(Restarts)) + (last' - last)
  PROVE  Far'
<1>1. ASSUME NEW n \in BackupNames, NEW x \in Recs(n)' PROVE Since(x)' >= Reach(n)'
  <2>1. x \in Recs(n) /\ x \in Nat
    BY DatedNames, NameFacts
  <2>2. Since(x) >= Reach(n)
    BY <2>1 DEF Far
  <2>3. Since(x)' = last' - x + Units(Restarts)' /\ Since(x) = last - x + Units(Restarts)
    BY DEF Since
  <2>4. /\ Reach(n) \in Nat /\ Reach(n)' \in Nat
        /\ Reach(n)' <= Reach(n) + (Units(Restarts)' - Units(Restarts)) + (last' - last)
    OBVIOUS
  <2>5. last \in Nat /\ last' \in Nat /\ Units(Restarts) \in Nat /\ Units(Restarts)' \in Nat
    BY Grow, NextIInv DEF IInv, Typed
  <2> QED BY <2>1, <2>2, <2>3, <2>4, <2>5
<1>2. cfg' = cfg /\ (opened' = 0 => opened = 0)
  BY UsedStays
<1>3. opened' = 0 => \A n \in Names : Recs(n)' = {}
  BY <1>2 DEF Far, Fewer
<1> QED BY <1>1, <1>2, <1>3 DEF Far, IsRough

LEMMA LostStays ==
  ASSUME IInv, aged \in Nat, Lost, [Next]_vars,
         \A x \in Stored : x \in Stored' \/ x <= aged
                           \/ \E w \in 1 .. opened : Since(x) >= Units(cfg[w].backups),
         last' = last \/ \A x \in last + 1 .. last' : x \in Stored'
  PROVE  Lost'
<1> SUFFICES ASSUME NEW x \in 1 .. last', x > aged', x \notin Stored'
             PROVE  \E w \in 1 .. opened' : Since(x)' >= Units(cfg'[w].backups)
  <2>1. cfg' = cfg
    BY UsedStays
  <2>2. \A i : Units(i)' = Units(i)
    BY <2>1, WorthSame
  <2> QED BY <2>1, <2>2 DEF Lost
<1>1. /\ cfg' = cfg /\ opened \in Nat /\ opened' \in Nat /\ opened' >= opened
      /\ last \in Nat /\ last' \in Nat /\ last' >= last /\ aged' >= aged /\ aged' \in Nat
      /\ Units(Restarts)' >= Units(Restarts) /\ Units(Restarts) \in Nat /\ Units(Restarts)' \in Nat
  BY UsedStays, Grow
<1>2. x \in 1 .. last /\ x > aged
  <2>1. last' = last \/ x \notin last + 1 .. last'
    BY <1>1
  <2> QED BY <1>1, <2>1
<1>3. PICK w \in 1 .. opened : Since(x) >= Units(cfg[w].backups)
  <2>1. CASE x \in Stored
    BY <1>1, <1>2, <2>1
  <2>2. CASE x \notin Stored
    BY <1>2, <2>2 DEF Lost
  <2> QED BY <2>1, <2>2
<1>4. Since(x)' >= Since(x) /\ Since(x) \in Int /\ Since(x)' \in Int
  <2>1. Since(x)' = last' - x + Units(Restarts)' /\ Since(x) = last - x + Units(Restarts)
    BY DEF Since
  <2>2. last' \in Nat
    BY <1>1
  <2> QED BY <1>1, <1>2, <2>1, <2>2
<1>5. Units(cfg[w].backups) \in Nat
  <2>1. w \in Writers
    BY <1>1, FileFacts DEF IInv, Typed, Writers
  <2>2. cfg[w].backups \in Nat
    BY <2>1, ConfigFacts DEF IInv
  <2> QED BY <2>2, UnitsFacts
<1>6. Since(x)' >= Units(cfg[w].backups) /\ w \in 1 .. opened'
  BY <1>1, <1>3, <1>4, <1>5
<1> QED BY <1>1, <1>6

(* Records only move from file to file, and what is removed is older than    *)
(* what stays, or was to be removed.                                         *)
LEMMA WholeStays ==
  ASSUME IInv, Dated, aged \in Nat, Whole, [Next]_vars, last' = last,
         \A n \in Names : \A r \in Recs(n)' :
           \E m \in Names : r \in Recs(m) /\ (Excused(m) => Excused(n)'),
         \A x \in Stored, n \in Names : \A r \in Recs(n)' :
           x \notin Stored' => x < r \/ (x <= aged /\ Excused(n)')
  PROVE  Whole'
<1> SUFFICES ASSUME NEW n \in Names, NEW r \in Recs(n)', NEW x \in r .. last, x \notin Stored',
                    ~(x <= aged' /\ Excused(n)')
             PROVE  FALSE
  BY DEF Whole
<1>1. PICK m \in Names : r \in Recs(m) /\ (Excused(m) => Excused(n)')
  OBVIOUS
<1>2. last \in Nat /\ aged' >= aged /\ aged' \in Nat /\ r \in Nat
  BY <1>1, Grow, DatedNames
<1>3. x \in Nat /\ x >= r
  BY <1>2
<1>4. x \in Stored \/ (x <= aged /\ Excused(m))
  BY <1>1 DEF Whole
<1>5. CASE x \in Stored
  <2>1. x < r \/ (x <= aged /\ Excused(n)')
    BY <1>5
  <2>2. x <= aged => x <= aged'
    BY <1>2, <1>3
  <2>3. ~(x < r)
    BY <1>2, <1>3
  <2> QED BY <2>1, <2>2, <2>3
<1>6. CASE x <= aged /\ Excused(m)
  <2>1. x <= aged'
    BY <1>2, <1>3, <1>6
  <2> QED BY <1>1, <1>6, <2>1
<1> QED BY <1>4, <1>5, <1>6

(* Outside of pruneAge, nothing is excused but after a crash there.          *)
LEMMA ExcusedElse ==
  ASSUME IInv, [Next]_vars, ~Here({"remove"}), NEW m, NEW n PROVE Excused(m) => Excused(n)'
<1>1. "halfpruned" \in disturbed => "halfpruned" \in disturbed'
  BY UsedStays
<1> QED BY <1>1 DEF Excused

LEMMA DoomsElse == ~Here({"remove"})' => Dooms'
BY DEF Dooms

LEMMA StoredFacts ==
  ASSUME IInv, Dated
  PROVE  /\ Stored \subseteq 1 .. last /\ Stored \subseteq Nat /\ last \in Nat
         /\ \A x : x \in Stored <=> \E n \in Names : x \in Recs(n)
         /\ \A x : x \in Stored' <=> \E n \in Names : x \in Recs(n)'
<1>1. last \in Nat
  BY DEF IInv, Typed
<1>2. \A n \in Names : Recs(n) \subseteq 1 .. last
  BY <1>1, DatedNames
<1>3. Stored = UNION {Recs(n) : n \in Names}
  BY StoredHere
<1>4. Stored' = UNION {Recs(n)' : n \in Names}
  BY StoredThere
<1>5. \A x : x \in Stored <=> \E n \in Names : x \in Recs(n)
  BY <1>3
<1>6. \A x : x \in Stored' <=> \E n \in Names : x \in Recs(n)'
  BY <1>4
<1>7. \A x \in Stored : x \in 1 .. last
  BY <1>2, <1>5
<1> QED BY <1>1, <1>5, <1>6, <1>7

-----------------------------------------------------------------------------
(* A step from a state in which nothing has gone wrong.                      *)
Ready(gz) ==
  /\ IInv /\ KInv /\ Dated /\ aged \in Nat /\ Removal
  /\ Unhurt /\ SameKind(gz)

LEMMA ReachThere ==
  ASSUME NEW gz \in BOOLEAN, Ready(gz), [Next]_vars, LiveLen' \in Nat, NEW n \in BackupNames
  PROVE  /\ Reach(n)' \in Nat /\ Reach(n)' <= Units(n[1])
         /\ Share' \in Nat /\ Share' <= Worth /\ Share' <= LiveLen'
         /\ Share' = IF LiveLen' < Worth THEN LiveLen' ELSE Worth
         /\ ~Full(n)' => Reach(n)' <= Units(n[1] - 1) + Share'
         /\ ~Full(n)' /\ (base' = 0 \/ Here({"shift", "move"})') => Reach(n)' = Units(n[1] - 1)
<1>0. IInv /\ cfg' = cfg
  BY UsedStays DEF Ready
<1>1. n[1] - 1 \in Nat /\ n[1] \in Nat /\ n[1] = (n[1] - 1) + 1
  BY NameFacts
<1>2. /\ Units(n[1]) = Units(n[1] - 1) + Worth /\ Worth \in Nat
      /\ Units(n[1]) \in Nat /\ Units(n[1] - 1) \in Nat
  BY <1>0, <1>1, UnitsFacts
<1>3. Worth' = Worth /\ Units(n[1])' = Units(n[1]) /\ Units(n[1] - 1)' = Units(n[1] - 1)
  BY <1>0, WorthSame
<1>4. Share' = IF LiveLen' < Worth THEN LiveLen' ELSE Worth
  BY <1>3 DEF Share
<1>5. Share' \in Nat /\ Share' <= Worth /\ Share' <= LiveLen'
  BY <1>2, <1>4
<1>6. Reach(n)' = IF Full(n)' THEN Units(n[1])
                  ELSE Units(n[1] - 1) + (IF base' = 0 \/ Here({"shift", "move"})' THEN 0 ELSE Share')
  BY <1>3 DEF Reach
<1>7. CASE Full(n)'
  <2>1. Reach(n)' = Units(n[1])
    BY <1>6, <1>7
  <2> QED BY <1>2, <1>4, <1>5, <1>7, <2>1
<1>8. CASE ~Full(n)' /\ (base' = 0 \/ Here({"shift", "move"})')
  <2>1. Reach(n)' = Units(n[1] - 1) + 0
    BY <1>6, <1>8
  <2>2. Reach(n)' = Units(n[1] - 1)
    BY <1>2, <2>1
  <2> QED BY <1>2, <1>4, <1>5, <1>8, <2>2
<1>9. CASE ~Full(n)' /\ ~(base' = 0 \/ Here({"shift", "move"})')
  <2>1. Reach(n)' = Units(n[1] - 1) + Share'
    BY <1>6, <1>9
  <2> QED BY <1>2, <1>4, <1>5, <1>9, <2>1
<1> QED BY <1>7, <1>8, <1>9

LEMMA ReachHere ==
  ASSUME NEW gz \in BOOLEAN, Ready(gz), NEW n \in BackupNames
  PROVE  /\ Reach(n) \in Nat /\ Reach(n) >= Units(n[1] - 1) /\ Reach(n) <= Units(n[1])
         /\ Units(n[1]) = Units(n[1] - 1) + Worth
         /\ Units(n[1]) \in Nat /\ Units(n[1] - 1) \in Nat /\ Worth \in Nat
         /\ LiveLen \in Nat /\ Share \in Nat /\ Share <= Worth /\ Share <= LiveLen
         /\ (LiveLen >= Worth => Share = Worth)
         /\ Full(n) => Reach(n) = Units(n[1])
         /\ ~Full(n) /\ base # 0 /\ ~Here({"shift", "move"}) => Reach(n) = Units(n[1] - 1) + Share
<1>1. IInv /\ KInv /\ Unhurt /\ SameKind(gz)
  BY DEF Ready
<1>2. /\ Reach(n) \in Nat /\ Reach(n) >= Units(n[1] - 1) /\ Reach(n) <= Units(n[1])
      /\ Units(n[1]) = Units(n[1] - 1) + Worth
      /\ Units(n[1]) \in Nat /\ Units(n[1] - 1) \in Nat
  BY <1>1, ReachFacts
<1>3. LiveLen \in Nat /\ Share \in Nat /\ Share <= Worth /\ Share <= LiveLen
      /\ (LiveLen >= Worth => Share = Worth)
  BY <1>1, Facts, ShareFacts
<1>4. Full(n) => Reach(n) = Units(n[1])
  BY DEF Reach
<1>5. ~Full(n) /\ base # 0 /\ ~Here({"shift", "move"}) => Reach(n) = Units(n[1] - 1) + Share
  BY DEF Reach
<1>6. Worth \in Nat
  BY <1>1, WorthFacts
<1> QED BY <1>2, <1>3, <1>4, <1>5, <1>6

(* The writer that is in Write goes to its next step.                        *)
LEMMA Turns ==
  ASSUME IInv, NEW w \in Writers, w = base, NEW p, wpc' = [wpc EXCEPT ![w] = p], base' = base
  PROVE  /\ base # 0
         /\ \A S : Here(S) <=> wpc[w] \in S
         /\ \A S : Here(S)' <=> p \in S
<1>1. base # 0 /\ wpc'[base] = p
  BY FileFacts DEF IInv, Typed
<1> QED BY <1>1 DEF Here

LEMMA StagedElse ==
  ASSUME ~Here({"shift", "move"})', ~Here({"move"})', ~Here({"create"})', ~Here({"untmp"})'
  PROVE  Staged'
BY DEF Staged

LEMMA LoweredStays ==
  ASSUME IInv, [Next]_vars, ~Lowered' PROVE ~Lowered
BY UsedStays DEF Lowered

(* Removal is kept by a step that only takes what is old enough.             *)
LEMMA Conclude ==
  ASSUME NEW gz \in BOOLEAN, Ready(gz), [Next]_vars, last' = last, Fewer,
         \A n \in BackupNames : Stamp(n)' = Stamp(n) \/ Stamp(n)' = 0,
         Staged', Dooms',
         base' = 0 => opened' = 0 \/ IsRough,
         LiveLen' \in Nat,
         \A n \in BackupNames :
           Recs(n)' # {} => Reach(n)' <= Reach(n) + (Units(Restarts)' - Units(Restarts)),
         \A x \in Stored : x \in Stored' \/ x <= aged
                           \/ \E w \in 1 .. opened : Since(x) >= Units(cfg[w].backups),
         \A n \in Names : Recs(n)' # {} /\ Excused(n) => Excused(n)',
         ~Lowered => \A x \in Stored, n \in Names : \A r \in Recs(n)' :
                       x \notin Stored' => x < r \/ (x <= aged /\ Excused(n)')
  PROVE  Removal'
<1>1. IInv /\ KInv /\ Dated /\ aged \in Nat /\ Unhurt /\ SameKind(gz)
      /\ Younger /\ Far /\ Lost /\ (~Lowered => Whole)
  BY DEF Ready, Removal
<1>2. Younger'
  BY <1>1, YoungerStays
<1>3. last \in Nat /\ Units(Restarts) \in Nat /\ Units(Restarts)' \in Nat
  BY <1>1, Grow
<1>4. ASSUME NEW n \in BackupNames
      PROVE  /\ Reach(n) \in Nat /\ Reach(n)' \in Nat /\ Recs(n)' \subseteq Recs(n)
             /\ Recs(n)' # {} => Reach(n)' <= Reach(n) + (Units(Restarts)' - Units(Restarts)) + (last' - last)
  <2>1. Reach(n) \in Nat /\ Reach(n)' \in Nat
    BY ReachHere, ReachThere
  <2>2. Recs(n)' \subseteq Recs(n)
    BY NameFacts DEF Fewer
  <2> QED BY <1>3, <2>1, <2>2
<1>5. Far'
  BY <1>1, <1>4, FarStays
<1>6. Lost'
  BY <1>1, LostStays
<1>7. ASSUME NEW n \in Names, NEW r \in Recs(n)'
      PROVE  \E m \in Names : r \in Recs(m) /\ (Excused(m) => Excused(n)')
  BY <1>7 DEF Fewer
<1>8. ~Lowered' => ~Lowered
  BY <1>1, LoweredStays
<1>9. ~Lowered' => Whole'
  <2> SUFFICES ASSUME ~Lowered' PROVE Whole'
    OBVIOUS
  <2>1. Whole /\ \A x \in Stored, n \in Names : \A r \in Recs(n)' :
                   x \notin Stored' => x < r \/ (x <= aged /\ Excused(n)')
    BY <1>1, <1>8
  <2> QED BY <1>1, <1>7, <2>1, WholeStays
<1> QED BY <1>2, <1>5, <1>6, <1>9 DEF Removal

(* A step that changes no file's content.                                    *)
LEMMA QuietConcludes ==
  ASSUME NEW gz \in BOOLEAN, Ready(gz), [Next]_vars, Quiet, Staged', Dooms',
         base' = 0 => opened' = 0 \/ IsRough,
         \A n \in Names : Excused(n) => Excused(n)',
         \A n \in BackupNames :
           Recs(n) # {} => Reach(n)' <= Reach(n) + (Units(Restarts)' - Units(Restarts))
  PROVE  Removal'
<1>1. IInv /\ KInv /\ Dated /\ Unhurt /\ SameKind(gz)
  BY DEF Ready
<1>2. \A n \in Names : Recs(n)' = Recs(n)
  BY NameFacts DEF Quiet, Still
<1>3. Fewer /\ (\A n \in BackupNames : Stamp(n)' = Stamp(n)) /\ last' = last
  BY <1>2 DEF Quiet, Still, Fewer
<1>4. LiveLen' \in Nat
  BY <1>1, Facts DEF Quiet
<1>5. \A x \in Stored : x \in Stored'
  BY <1>1, <1>2, StoredFacts
<1>6. \A n \in BackupNames :
        Recs(n)' # {} => Reach(n)' <= Reach(n) + (Units(Restarts)' - Units(Restarts))
  BY <1>2, NameFacts
<1> QED BY <1>3, <1>4, <1>5, <1>6, Conclude

LEMMA RestartsSame ==
  ASSUME cfg' = cfg, opened' = opened PROVE Units(Restarts)' = Units(Restarts)
<1>1. IsRough' <=> IsRough
  BY DEF IsRough
<1>2. \A z : (IF z /\ opened' > 0 THEN opened' - 1 ELSE 0) = (IF z /\ opened > 0 THEN opened - 1 ELSE 0)
  OBVIOUS
<1>3. Restarts' = Restarts
  BY <1>1, <1>2 DEF Restarts
<1> QED BY <1>3, WorthSame DEF Units

LEMMA StagedSame ==
  ASSUME Staged, Quiet, \A S : Here(S)' <=> Here(S), base' = base, slot' = slot, cfg' = cfg
  PROVE  Staged'
<1>1. \A n \in Names : Recs(n)' = Recs(n)
  BY NameFacts DEF Quiet, Still
<1>2. Tmp \in Names /\ Gz \in Names /\ \A n \in BackupNames : n \in Names
  BY NameFacts
<1> QED BY <1>1, <1>2 DEF Staged

(* What is doomed stays so, or nothing is doomed.                            *)
LEMMA DoomedSame ==
  ASSUME NEW gz \in BOOLEAN, Ready(gz), [Next]_vars, Quiet, \A S : Here(S)' <=> Here(S), doomed' = doomed
  PROVE  Dooms' /\ \A n \in Names : Excused(n) => Excused(n)'
<1>1. IInv /\ Dated /\ aged \in Nat /\ Dooms
  BY DEF Ready, Removal
<1>2. "halfpruned" \in disturbed => "halfpruned" \in disturbed'
  BY <1>1, UsedStays
<1>3. \A n \in Names : Excused(n) => Excused(n)'
  BY <1>2 DEF Excused
<1>4. aged' >= aged /\ aged' \in Nat
  BY <1>1, Grow
<1>5. \A n \in BackupNames : Recs(n)' = Recs(n) /\ Stamp(n)' = Stamp(n)
  BY DEF Quiet, Still
<1>6. doomed \subseteq BackupNames
  BY <1>1 DEF IInv, Typed
<1>7. \A n \in BackupNames : Stamp(n) \in Nat
  BY <1>1, DatedNames, NameFacts
<1>8. Dooms'
  <2> SUFFICES ASSUME Here({"remove"})', NEW a \in doomed
               PROVE  /\ Stamp(a)' <= aged'
                      /\ \A n \in BackupNames \ doomed : Recs(n)' # {} => Stamp(a)' < Stamp(n)'
    BY DEF Dooms
  <2>1. Here({"remove"})
    OBVIOUS
  <2>2. /\ Stamp(a) <= aged
        /\ \A n \in BackupNames \ doomed : Recs(n) # {} => Stamp(a) < Stamp(n)
    BY <1>1, <2>1 DEF Dooms
  <2>3. a \in BackupNames /\ Stamp(a)' = Stamp(a) /\ Stamp(a) \in Nat
    BY <1>5, <1>6, <1>7
  <2>4. Stamp(a)' <= aged'
    BY <1>1, <1>4, <2>2, <2>3
  <2> QED BY <1>5, <2>2, <2>3, <2>4
<1> QED BY <1>3, <1>8

LEMMA NotDoomed ==
  ASSUME NEW gz \in BOOLEAN, Ready(gz), [Next]_vars, ~Here({"remove"}), ~Here({"remove"})'
  PROVE  Dooms' /\ \A m, n : Excused(m) => Excused(n)'
BY ExcusedElse, DoomsElse DEF Ready

(* The same turn of the same writer, or one to a part of Write at which      *)
(* names reach as far.                                                       *)
LEMMA ReachSame ==
  ASSUME NEW gz \in BOOLEAN, Ready(gz), [Next]_vars, LiveLen' = LiveLen, NEW n \in BackupNames,
         Full(n)' <=> Full(n), base' = 0 <=> base = 0,
         Here({"shift", "move"})' <=> Here({"shift", "move"})
  PROVE  Reach(n)' = Reach(n)
<1>1. cfg' = cfg
  BY UsedStays DEF Ready
<1>2. Worth' = Worth /\ Units(n[1])' = Units(n[1]) /\ Units(n[1] - 1)' = Units(n[1] - 1)
  BY <1>1, WorthSame
<1>3. Share' = Share
  BY <1>2 DEF Share
<1> QED BY <1>2, <1>3 DEF Reach

(* The file that is rotated is worth as much as any.                         *)
LEMMA FullEnough ==
  ASSUME NEW gz \in BOOLEAN, Ready(gz), NEW w \in Writers, w = base, wpc[w] = "idle", fd[w] # 0,
         NEW n \in 1 .. Longest, Exceeds(w, n)
  PROVE  Share = Worth
<1>1. IInv /\ KInv /\ Unhurt /\ SameKind(gz) /\ base # 0
  BY FileFacts DEF Ready
<1>2. Sound
  BY <1>1 DEF Sound, Unhurt
<1>3. fd[w] = dir[Live] /\ size[w] = Len(data[fd[w]].recs) /\ size[w] \in Nat
  BY <1>1, <1>2 DEF IInv, LiveInv, Typed, Unhurt
<1>4. LiveLen = size[w]
  BY <1>3 DEF LiveLen
<1>5. Worth <= Filled(w) /\ Worth \in Nat
  BY <1>1, WorthFacts
<1>6. cfg[w].units \in Nat /\ Longest \in Nat
  BY <1>1, ConfigsKnown, Bounds DEF IInv, Typed
<1>7. Filled(w) <= size[w] /\ Filled(w) \in Nat
  BY <1>3, <1>6 DEF Filled, Exceeds
<1> QED BY <1>1, <1>3, <1>4, <1>5, <1>7, ShareFacts

LEMMA WriteRemoval ==
  ASSUME NEW gz \in BOOLEAN, Ready(gz), [Next]_vars, NEW w \in Writers, Write(w) PROVE Removal'
<1>1. /\ w = base /\ wpc[w] = "idle" /\ fd[w] # 0 /\ base' = base /\ opened' = opened /\ cfg' = cfg
      /\ \/ /\ \E n \in 1 .. Longest : Exceeds(w, n)
            /\ Goto(w, IF cfg[w].backups > 0 THEN "drop" ELSE "move")
         \/ Goto(w, "append")
  BY DEF Write, WriteOr
<1>2. IInv /\ Unhurt /\ SameKind(gz) /\ KInv
  BY DEF Ready
<1>3. Quiet
  BY <1>2, QuietSteps
<1>4. Units(Restarts)' = Units(Restarts) /\ Units(Restarts) \in Nat
  BY <1>1, <1>2, RestartsSame, Grow DEF Ready
<1>5. base # 0 /\ \A S : Here(S) <=> "idle" \in S
  BY <1>1, <1>2, FileFacts DEF Here
<1>6. LiveLen \in Nat /\ LiveLen' = LiveLen
  BY <1>2, <1>3, Facts DEF Quiet
<1>7. CASE Goto(w, "append")
  <2>1. \A S : Here(S)' <=> "append" \in S
    BY <1>1, <1>2, <1>7, Turns DEF Goto
  <2>2. Staged'
    BY <2>1, StagedElse
  <2>3. Dooms' /\ \A n \in Names : Excused(n) => Excused(n)'
    BY <1>5, <2>1, NotDoomed
  <2>4. ASSUME NEW n \in BackupNames PROVE Reach(n)' <= Reach(n) + (Units(Restarts)' - Units(Restarts))
    <3>1. Full(n)' <=> Full(n)
      BY <1>5, <2>1 DEF Full
    <3>2. Reach(n)' = Reach(n)
      BY <1>1, <1>5, <1>6, <2>1, <3>1, ReachSame
    <3> QED BY <1>4, <3>2, ReachHere
  <2> QED BY <1>1, <1>3, <1>5, <2>2, <2>3, <2>4, QuietConcludes
<1>8. CASE (\E n \in 1 .. Longest : Exceeds(w, n)) /\ Goto(w, "drop")
  <2>1. \A S : Here(S)' <=> "drop" \in S
    BY <1>1, <1>2, <1>8, Turns DEF Goto
  <2>2. Staged'
    BY <2>1, StagedElse
  <2>3. Dooms' /\ \A n \in Names : Excused(n) => Excused(n)'
    BY <1>5, <2>1, NotDoomed
  <2>4. Share = Worth
    BY <1>1, <1>8, FullEnough
  <2>5. ASSUME NEW n \in BackupNames PROVE Reach(n)' <= Reach(n) + (Units(Restarts)' - Units(Restarts))
    <3>1. ~Full(n) /\ ~Here({"shift", "move"})
      BY <1>5 DEF Full
    <3>2. Reach(n) = Units(n[1] - 1) + Worth
      BY <1>5, <2>4, <3>1, ReachHere
    <3>3. Reach(n)' <= Units(n[1]) /\ Reach(n)' \in Nat
      BY <1>6, ReachThere
    <3>4. Units(n[1]) = Units(n[1] - 1) + Worth /\ Units(n[1]) \in Nat
      BY ReachHere
    <3> QED BY <1>4, <3>2, <3>3, <3>4
  <2> QED BY <1>1, <1>3, <1>5, <2>2, <2>3, <2>5, QuietConcludes
<1>9. CASE ~(cfg[w].backups > 0) /\ Goto(w, "move")
  <2>1. \A S : Here(S)' <=> "move" \in S
    BY <1>1, <1>2, <1>9, Turns DEF Goto
  <2>2. Staged'
    BY <1>1, <1>9, <2>1 DEF Staged
  <2>3. Dooms' /\ \A n \in Names : Excused(n) => Excused(n)'
    BY <1>5, <2>1, NotDoomed
  <2>4. ASSUME NEW n \in BackupNames PROVE Reach(n)' <= Reach(n) + (Units(Restarts)' - Units(Restarts))
    <3>1. ~Full(n)' /\ Here({"shift", "move"})'
      BY <2>1 DEF Full
    <3>2. Reach(n)' = Units(n[1] - 1)
      BY <1>6, <3>1, ReachThere
    <3> QED BY <1>4, <3>2, ReachHere
  <2> QED BY <1>1, <1>3, <1>5, <2>2, <2>3, <2>4, QuietConcludes
<1>10. CASE cfg[w].backups > 0
  BY <1>1, <1>7, <1>8, <1>10
<1>11. CASE ~(cfg[w].backups > 0)
  BY <1>1, <1>7, <1>9, <1>11
<1> QED BY <1>10, <1>11

LEMMA ReopenRemoval ==
  ASSUME NEW gz \in BOOLEAN, Ready(gz), [Next]_vars, NEW w \in Writers, Reopen(w) PROVE Removal'
<1>1. /\ wpc[w] = "reopen" /\ wpc' = [wpc EXCEPT ![w] = "append"]
      /\ base' = base /\ opened' = opened /\ cfg' = cfg
  BY DEF Reopen, Goto
<1>2. IInv
  BY DEF Ready
<1>3. Quiet
  BY <1>2, QuietSteps
<1>4. w = base
  BY <1>1, <1>2, InWrite
<1>5. base # 0 /\ (\A S : Here(S) <=> "reopen" \in S) /\ \A S : Here(S)' <=> "append" \in S
  BY <1>1, <1>2, <1>4, Turns
<1>6. Staged'
  BY <1>5, StagedElse
<1>7. Dooms' /\ \A n \in Names : Excused(n) => Excused(n)'
  BY <1>5, NotDoomed
<1>8. ASSUME NEW n \in BackupNames PROVE Reach(n)' <= Reach(n) + (Units(Restarts)' - Units(Restarts))
  <2>1. Full(n)' <=> Full(n)
    BY <1>5 DEF Full
  <2>2. Reach(n)' = Reach(n)
    BY <1>1, <1>3, <1>5, <2>1, ReachSame DEF Quiet
  <2>3. Units(Restarts)' = Units(Restarts) /\ Units(Restarts) \in Nat
    BY <1>1, <1>2, RestartsSame, Grow DEF Ready
  <2> QED BY <2>2, <2>3, ReachHere
<1> QED BY <1>1, <1>3, <1>5, <1>6, <1>7, <1>8, QuietConcludes

LEMMA OpenFirstRemoval ==
  ASSUME NEW gz \in BOOLEAN, Ready(gz), [Next]_vars, OpenFirst PROVE Removal'
<1>1. /\ base = 0 /\ wpc' = [wpc EXCEPT ![opened + 1] = "idle"] /\ opened < MaxWriters
      /\ base' = opened + 1 /\ opened' = opened + 1 /\ cfg' = cfg
  BY DEF OpenFirst, Goto
<1>2. IInv /\ Unhurt /\ SameKind(gz) /\ KInv
  BY DEF Ready
<1>3. Quiet
  BY <1>2, QuietSteps
<1>4. opened \in Nat /\ opened + 1 \in Writers /\ opened + 1 # 0
  <2>1. opened \in Nat /\ MaxWriters \in Nat
    BY <1>2, FileFacts DEF IInv, Typed
  <2> QED BY <1>1, <2>1 DEF Writers
<1>5. (\A S : ~Here(S)) /\ \A S : Here(S)' <=> "idle" \in S
  BY <1>1, <1>2, <1>4 DEF Here, IInv, Typed
<1>6. Staged'
  BY <1>5, StagedElse
<1>7. Dooms' /\ \A n \in Names : Excused(n) => Excused(n)'
  BY <1>5, NotDoomed
<1>8. ASSUME NEW n \in BackupNames, Recs(n) # {}
      PROVE  Reach(n)' <= Reach(n) + (Units(Restarts)' - Units(Restarts))
  <2>1. opened # 0 /\ IsRough
    BY <1>1, <1>8, NameFacts DEF Ready, Removal, Far
  <2>2. Units(Restarts)' = Units(Restarts) + Worth /\ Units(Restarts) \in Nat
    <3>1. IsRough'
      BY <1>1, <2>1 DEF IsRough
    <3>2. \A i \in Nat : i # 0 => i > 0 /\ i + 1 > 0 /\ (i + 1) - 1 = i /\ i - 1 \in Nat /\ (i - 1) + 1 = i
      OBVIOUS
    <3>3. Restarts = opened - 1 /\ Restarts' = opened
      BY <1>1, <1>4, <2>1, <3>1, <3>2 DEF Restarts
    <3>4. opened - 1 \in Nat /\ (opened - 1) + 1 = opened
      BY <1>4, <2>1, <3>2
    <3>5. Units(opened) = Units(opened - 1) + Worth /\ Units(opened - 1) \in Nat
      BY <1>2, <3>4, UnitsFacts
    <3>6. Units(Restarts)' = Units(opened)
      BY <1>1, <3>3, WorthSame DEF Units
    <3> QED BY <3>3, <3>5, <3>6
  <2>3. Reach(n)' <= Units(n[1]) /\ Reach(n)' \in Nat
    BY <1>2, <1>3, Facts, ReachThere DEF Quiet
  <2> QED BY <2>2, <2>3, ReachHere
<1> QED BY <1>1, <1>3, <1>4, <1>6, <1>7, <1>8, QuietConcludes

LEMMA OpenNextRemoval ==
  ASSUME NEW gz \in BOOLEAN, Ready(gz), [Next]_vars, OpenNext PROVE Removal'
<1>1. /\ base # 0 /\ opened = base /\ wpc' = [wpc EXCEPT ![opened + 1] = "idle"]
      /\ base' = base /\ cfg' = cfg /\ slot' = slot /\ opened' = opened + 1 /\ ~IsRough
      /\ doomed' = doomed
  BY DEF OpenNext, Goto, doing
<1>2. IInv
  BY DEF Ready
<1>3. Quiet
  BY <1>2, QuietSteps
<1>4. base \in Writers /\ base # opened + 1
  BY <1>1, <1>2, FileFacts DEF IInv, Typed, Writers
<1>5. \A S : Here(S)' <=> Here(S)
  BY <1>1, <1>2, <1>4 DEF Here, IInv, Typed
<1>6. Staged'
  BY <1>1, <1>3, <1>5, StagedSame DEF Ready, Removal
<1>7. Dooms' /\ \A n \in Names : Excused(n) => Excused(n)'
  BY <1>1, <1>3, <1>5, DoomedSame
<1>8. Restarts = 0 /\ Restarts' = 0
  <2>1. ~IsRough'
    BY <1>1 DEF IsRough
  <2> QED BY <1>1, <2>1 DEF Restarts
<1>9. Units(Restarts)' = Units(Restarts) /\ Units(Restarts) \in Nat
  <2>1. Units(Restarts)' = Units(0) /\ Units(Restarts) = Units(0)
    BY <1>1, <1>8, WorthSame DEF Units
  <2> QED BY <1>2, <2>1, UnitsFacts
<1>10. ASSUME NEW n \in BackupNames PROVE Reach(n)' <= Reach(n) + (Units(Restarts)' - Units(Restarts))
  <2>1. Full(n)' <=> Full(n)
    BY <1>1, <1>5 DEF Full
  <2>2. Reach(n)' = Reach(n)
    BY <1>1, <1>3, <1>5, <2>1, ReachSame DEF Quiet
  <2> QED BY <1>9, <2>2, ReachHere
<1> QED BY <1>1, <1>3, <1>6, <1>7, <1>10, QuietConcludes

LEMMA SwapAndCloseRemoval ==
  ASSUME NEW gz \in BOOLEAN, Ready(gz), [Next]_vars, SwapAndClose PROVE Removal'
<1>1. /\ base # 0 /\ opened > base /\ wpc[base] = "idle" /\ wpc' = [wpc EXCEPT ![base] = "closed"]
      /\ base' = opened /\ cfg' = cfg /\ opened' = opened
  BY DEF SwapAndClose, Goto
<1>2. IInv
  BY DEF Ready
<1>3. Quiet
  BY <1>2, QuietSteps
<1>4. opened \in Writers /\ opened # 0 /\ opened # base /\ wpc[opened] = "idle"
  <2>1. opened \in Nat /\ opened \in 0 .. MaxWriters /\ base \in Nat /\ Places
    BY <1>2, FileFacts DEF IInv, Typed
  <2>2. opened \in Writers /\ opened # 0 /\ opened # base
    BY <1>1, <2>1, FileFacts DEF Writers
  <2> QED BY <1>1, <2>1, <2>2 DEF Places, Place
<1>5. (\A S : Here(S) <=> "idle" \in S) /\ \A S : Here(S)' <=> "idle" \in S
  BY <1>1, <1>2, <1>4 DEF Here, IInv, Typed
<1>6. Staged'
  BY <1>5, StagedElse
<1>7. Dooms' /\ \A n \in Names : Excused(n) => Excused(n)'
  BY <1>5, NotDoomed
<1>8. ASSUME NEW n \in BackupNames PROVE Reach(n)' <= Reach(n) + (Units(Restarts)' - Units(Restarts))
  <2>1. Full(n)' <=> Full(n)
    BY <1>5 DEF Full
  <2>2. Reach(n)' = Reach(n)
    BY <1>1, <1>3, <1>4, <1>5, <2>1, ReachSame DEF Quiet
  <2>3. Units(Restarts)' = Units(Restarts) /\ Units(Restarts) \in Nat
    BY <1>1, <1>2, RestartsSame, Grow DEF Ready
  <2> QED BY <2>2, <2>3, ReachHere
<1> QED BY <1>1, <1>3, <1>4, <1>6, <1>7, <1>8, QuietConcludes

LEMMA CrashRemoval ==
  ASSUME NEW gz \in BOOLEAN, Ready(gz), [Next]_vars, Crash PROVE Removal'
<1>1. IsRough /\ base' = 0 /\ cfg' = cfg /\ opened' = opened
  BY DEF Crash
<1>2. IInv /\ Unhurt /\ SameKind(gz) /\ KInv
  BY DEF Ready
<1>3. Quiet
  BY <1>2, QuietSteps
<1>4. \A S : ~Here(S)'
  BY <1>1 DEF Here
<1>5. Staged'
  BY <1>4, StagedElse
<1>6. Dooms' /\ \A n \in Names : Excused(n) => Excused(n)'
  <2>1. CASE Here({"remove"})
    <3>1. "halfpruned" \in disturbed'
      BY <2>1 DEF Crash, Here, Unless
    <3> QED BY <1>4, <3>1, DoomsElse DEF Excused
  <2>2. CASE ~Here({"remove"})
    BY <1>4, <2>2, NotDoomed
  <2> QED BY <2>1, <2>2
<1>7. ASSUME NEW n \in BackupNames PROVE Reach(n)' <= Reach(n) + (Units(Restarts)' - Units(Restarts))
  <2>1. ~Full(n)'
    BY <1>4 DEF Full
  <2>2. Reach(n)' = Units(n[1] - 1)
    BY <1>1, <1>2, <1>3, <2>1, Facts, ReachThere DEF Quiet
  <2>3. Units(Restarts)' = Units(Restarts) /\ Units(Restarts) \in Nat
    BY <1>1, <1>2, RestartsSame, Grow DEF Ready
  <2> QED BY <2>2, <2>3, ReachHere
<1> QED BY <1>1, <1>3, <1>5, <1>6, <1>7, QuietConcludes

LEMMA RestRemoval ==
  ASSUME NEW gz \in BOOLEAN, Ready(gz), [Next]_vars, Age \/ UNCHANGED vars PROVE Removal'
<1>1. /\ base' = base /\ wpc' = wpc /\ slot' = slot /\ cfg' = cfg /\ opened' = opened /\ doomed' = doomed
  BY DEF Age, vars, writer, doing
<1>2. IInv
  BY DEF Ready
<1>3. Quiet
  BY <1>2, QuietSteps
<1>4. \A S : Here(S)' <=> Here(S)
  BY <1>1 DEF Here
<1>5. Staged'
  BY <1>1, <1>3, <1>4, StagedSame DEF Ready, Removal
<1>6. Dooms' /\ \A n \in Names : Excused(n) => Excused(n)'
  BY <1>1, <1>3, <1>4, DoomedSame
<1>7. Units(Restarts)' = Units(Restarts) /\ Units(Restarts) \in Nat
  BY <1>1, <1>2, RestartsSame, Grow DEF Ready
<1>8. ASSUME NEW n \in BackupNames PROVE Reach(n)' <= Reach(n) + (Units(Restarts)' - Units(Restarts))
  <2>1. Full(n)' <=> Full(n)
    BY <1>1, <1>4 DEF Full
  <2>2. Reach(n)' = Reach(n)
    BY <1>1, <1>3, <1>4, <2>1, ReachSame DEF Quiet
  <2> QED BY <1>7, <2>2, ReachHere
<1>9. base' = 0 => opened' = 0 \/ IsRough
  BY <1>1 DEF Ready, Removal, Far
<1> QED BY <1>3, <1>5, <1>6, <1>8, <1>9, QuietConcludes

LEMMA WithinBase ==
  ASSUME NEW gz \in BOOLEAN, Ready(gz), ~Lowered, base # 0, NEW n \in BackupNames, Recs(n) # {}
  PROVE  n[1] = 1 \/ n[1] <= cfg[base].backups
<1>1. IInv /\ KInv /\ Unhurt /\ SameKind(gz)
  BY DEF Ready
<1>2. Within(n)
  BY <1>1, Facts
<1>3. base \in 1 .. opened /\ opened \in Nat /\ 1 .. opened \subseteq Writers
  BY <1>1, FileFacts DEF IInv, Typed, Writers
<1>4. \A v \in 1 .. opened : cfg[v].backups \in Nat
  BY <1>1, <1>3, ConfigFacts DEF IInv
<1>5. ASSUME NEW v \in 1 .. opened, Used(v), n[1] <= cfg[v].backups PROVE n[1] <= cfg[base].backups
  <2>1. v = base \/ v < base
    BY <1>3, <1>5 DEF Used
  <2>2. cfg[v].backups <= cfg[base].backups
    BY <1>3, <1>4, <2>1 DEF Lowered
  <2> QED BY <1>3, <1>4, <1>5, <2>2, NameFacts
<1> QED BY <1>2, <1>5 DEF Within

(* What a rotation with MaxBackups = 0 removes is no loss.                   *)
LEMMA NoneKept ==
  ASSUME NEW gz \in BOOLEAN, Ready(gz), base # 0, cfg[base].backups = 0, NEW x \in Stored
  PROVE  \E w \in 1 .. opened : Since(x) >= Units(cfg[w].backups)
<1>1. IInv /\ Dated /\ aged \in Nat
  BY DEF Ready
<1>2. base \in 1 .. opened
  BY <1>1, FileFacts DEF IInv, Typed
<1>3. x \in 1 .. last /\ last \in Nat
  BY <1>1, StoredFacts
<1>4. Restarts \in Nat
  <2>1. opened \in Nat
    BY <1>1 DEF IInv, Typed
  <2> QED BY <2>1 DEF Restarts
<1>5. Units(Restarts) \in Nat /\ Units(0) = 0
  BY <1>1, <1>4, UnitsFacts
<1>6. Since(x) >= 0
  BY <1>3, <1>5 DEF Since
<1> QED BY <1>2, <1>5, <1>6

LEMMA DropRemoval ==
  ASSUME NEW gz \in BOOLEAN, Ready(gz), [Next]_vars, NEW w \in Writers, DropOldest(w, TRUE) PROVE Removal'
<1>1. /\ wpc[w] = "drop" /\ base' = base /\ opened' = opened /\ cfg' = cfg
      /\ slot' = [slot EXCEPT ![w] = cfg[w].backups - 1]
      /\ wpc' = [wpc EXCEPT ![w] = IF cfg[w].backups > 1 THEN "shift" ELSE "move"]
  BY DEF DropOldest, Goto
<1>2. /\ IInv /\ KInv /\ Dated /\ Unhurt /\ SameKind(gz) /\ aged \in Nat
      /\ Younger /\ Far
  BY DEF Ready, Removal
<1>3. w = base /\ base # 0 /\ base \in 1 .. opened /\ cfg[w].compress = gz /\ ~Zipping
  BY <1>1, <1>2, InWrite
<1>4. cfg[w].backups \in Nat /\ cfg[w].backups > 0 /\ slot'[w] = cfg[w].backups - 1
  BY <1>1, <1>2, ConfigFacts DEF IInv, Typed, Places, Place
<1>5. PICK b \in BackupNames : /\ b[1] = cfg[w].backups /\ b[2] = cfg[w].compress
                               /\ Gone(b) /\ Still(Names \ {b}) /\ LiveLen' = LiveLen /\ last' = last
  BY <1>2, DropEffect
<1>6. \A S : Here(S) <=> "drop" \in S
  BY <1>1, <1>2, <1>3, Turns
<1>7. \A S : Here(S)' <=> (IF cfg[w].backups > 1 THEN "shift" ELSE "move") \in S
  BY <1>1, <1>2, <1>3, Turns
<1>8. Fewer /\ \A n \in BackupNames : Stamp(n)' = Stamp(n) \/ Stamp(n)' = 0
  BY <1>5, NameFacts DEF Fewer, Still, Gone
<1>9. Staged'
  <2>1. ASSUME NEW n \in BackupNames, n[1] = slot'[base'] + 1, n[2] = cfg'[base'].compress PROVE Recs(n)' = {}
    <3>1. n = b
      BY <1>1, <1>3, <1>4, <1>5, <2>1, NameFacts
    <3> QED BY <1>5, <3>1 DEF Gone
  <2>2. Here({"move"})' => slot'[base'] = 0
    BY <1>1, <1>3, <1>4, <1>7
  <2>3. ~Here({"create"})' /\ ~Here({"untmp"})'
    BY <1>7
  <2> QED BY <2>1, <2>2, <2>3 DEF Staged
<1>10. LiveLen' \in Nat
  BY <1>2, <1>5, Facts
<1>11. ASSUME NEW n \in BackupNames PROVE Reach(n)' <= Reach(n) + (Units(Restarts)' - Units(Restarts))
  <2>1. Full(n)
    BY <1>6 DEF Full
  <2>2. Reach(n) = Units(n[1]) /\ Units(n[1]) \in Nat
    BY <2>1, ReachHere
  <2>3. Reach(n)' <= Units(n[1]) /\ Reach(n)' \in Nat
    BY <1>10, ReachThere
  <2>4. Units(Restarts)' = Units(Restarts) /\ Units(Restarts) \in Nat
    BY <1>1, <1>2, RestartsSame, Grow
  <2> QED BY <2>2, <2>3, <2>4
<1>12. ASSUME NEW x \in Stored, x \notin Stored' PROVE x \in Recs(b)
  <2>1. PICK n \in Names : x \in Recs(n)
    BY <1>2, <1>12, StoredFacts
  <2>2. x \notin Recs(n)'
    BY <1>2, <1>12, StoredFacts
  <2> QED BY <1>5, <2>1, <2>2 DEF Still
<1>13. ASSUME NEW x \in Recs(b) PROVE \E v \in 1 .. opened : Since(x) >= Units(cfg[v].backups)
  <2>1. Full(b)
    BY <1>6 DEF Full
  <2>2. Since(x) >= Units(cfg[w].backups)
    BY <1>2, <1>5, <2>1, ReachHere DEF Far
  <2> QED BY <1>3, <2>2
<1>14. ASSUME ~Lowered, NEW x \in Recs(b), NEW n \in Names, NEW r \in Recs(n)' PROVE x < r
  <2>2. n # b /\ r \in Recs(n)
    BY <1>5, <1>14 DEF Gone, Still
  <2>3. Older(b, n)
    <3>1. CASE n = Live
      BY <1>4, <1>5, <3>1, NameFacts DEF Older
    <3>2. CASE n # Live
      <4>1. n \in BackupNames /\ Recs(n) # {}
        BY <2>2, <3>2, NameFacts
      <4>2. n[1] = 1 \/ n[1] <= cfg[w].backups
        BY <1>3, <1>14, <4>1, WithinBase
      <4>3. n[1] # b[1]
        BY <1>2, <1>3, <1>5, <2>2, <4>1, OneName
      <4> QED BY <1>4, <1>5, <4>1, <4>2, <4>3, NameFacts DEF Older
    <3> QED BY <3>1, <3>2
  <2>4. b \in Names
    BY NameFacts
  <2>5. Stamp(b) < r /\ x \in 1 .. Stamp(b) /\ Stamp(b) \in Nat
    BY <1>2, <2>2, <2>3, <2>4, DatedNames DEF Younger
  <2>6. r \in Nat
    BY <1>2, <2>2, DatedNames
  <2> QED BY <2>5, <2>6
<1>15. Dooms' /\ \A n \in Names : Excused(n) => Excused(n)'
  BY <1>6, <1>7, NotDoomed
<1>16. ~Lowered => \A x \in Stored, n \in Names : \A r \in Recs(n)' : x \notin Stored' => x < r
  BY <1>12, <1>14
<1>17. \A x \in Stored : x \in Stored' \/ \E v \in 1 .. opened : Since(x) >= Units(cfg[v].backups)
  BY <1>12, <1>13
<1> QED BY <1>1, <1>3, <1>5, <1>8, <1>9, <1>10, <1>11, <1>15, <1>16, <1>17, Conclude

LEMMA RemoveTmpRemoval ==
  ASSUME NEW gz \in BOOLEAN, Ready(gz), [Next]_vars, NEW w \in Writers, RemoveTmp(w, TRUE) PROVE Removal'
<1>1. /\ wpc[w] = "untmp" /\ base' = base /\ opened' = opened /\ cfg' = cfg
      /\ wpc' = [wpc EXCEPT ![w] = "prune"]
  BY DEF RemoveTmp, Goto
<1>2. /\ IInv /\ KInv /\ Dated /\ Unhurt /\ SameKind(gz) /\ aged \in Nat /\ Staged
  BY DEF Ready, Removal
<1>3. w = base /\ base # 0
  BY <1>1, <1>2, InWrite
<1>4. (\A S : Here(S) <=> "untmp" \in S) /\ \A S : Here(S)' <=> "prune" \in S
  BY <1>1, <1>2, <1>3, Turns
<1>5. Gone(Tmp) /\ Still(Names \ {Tmp}) /\ LiveLen' = LiveLen /\ last' = last
  BY <1>2, RemoveTmpEffect
<1>6. Fewer /\ \A n \in BackupNames : Stamp(n)' = Stamp(n) \/ Stamp(n)' = 0
  BY <1>5, NameFacts DEF Fewer, Still, Gone
<1>7. Staged'
  BY <1>4, StagedElse
<1>8. LiveLen' \in Nat
  BY <1>2, <1>5, Facts
<1>9. ASSUME NEW n \in BackupNames PROVE Reach(n)' <= Reach(n) + (Units(Restarts)' - Units(Restarts))
  <2>3. Full(n)' <=> Full(n)
    BY <1>4 DEF Full
  <2>1. Reach(n)' = Reach(n)
    BY <1>1, <1>4, <1>5, <2>3, ReachSame
  <2>2. Units(Restarts)' = Units(Restarts) /\ Units(Restarts) \in Nat
    BY <1>1, <1>2, RestartsSame, Grow
  <2> QED BY <2>1, <2>2, ReachHere
<1>10. ASSUME NEW x \in Stored PROVE x \in Stored'
  <2>1. PICK n \in Names : x \in Recs(n)
    BY <1>2, <1>10, StoredFacts
  <2>2. PICK m \in Names \ {Tmp} : x \in Recs(m)
    <3>1. Recs(Tmp) \subseteq Recs(Gz) /\ Gz \in Names \ {Tmp}
      BY <1>2, <1>4, NameFacts DEF Staged
    <3> QED BY <2>1, <3>1
  <2>3. x \in Recs(m)'
    BY <1>5, <2>2 DEF Still
  <2> QED BY <1>2, <2>3, StoredFacts
<1>11. Dooms' /\ \A n \in Names : Excused(n) => Excused(n)'
  BY <1>4, NotDoomed
<1> QED BY <1>1, <1>3, <1>5, <1>6, <1>7, <1>8, <1>9, <1>10, <1>11, Conclude

(* pruneAge has seen what is too old: nothing is removed yet.                *)
LEMMA PruneRemoval ==
  ASSUME NEW gz \in BOOLEAN, Ready(gz), [Next]_vars, NEW w \in Writers, NEW ok \in Outcomes, Prune(w, ok)
  PROVE  Removal'
<1> DEFINE names == {n \in Kept : cfg[w].age /\ ok /\ data[dir[n]].mtime <= aged}
           p     == IF names = {} THEN "reopen" ELSE "remove"
<1>1. /\ wpc[w] = "prune" /\ base' = base /\ opened' = opened /\ cfg' = cfg
      /\ wpc' = [wpc EXCEPT ![w] = p] /\ doomed' = names
      /\ dir' = dir /\ data' = data /\ aged' = aged
  BY DEF Prune, PruneThose, Goto, disk
<1>2. IInv /\ Dated /\ aged \in Nat
  BY DEF Ready
<1>3. Quiet
  BY <1>2, QuietSteps
<1>4. p \in {"reopen", "remove"}
  OBVIOUS
<1>5. \A a \in names : Stamp(a) <= aged
  BY DEF Kept, Stamp
<1>6. ASSUME NEW a \in names, NEW n \in BackupNames \ names, Recs(n) # {} PROVE Stamp(a) < Stamp(n)
  <2>1. dir[n] # 0
    BY <1>6 DEF Recs
  <2>2. ~(Stamp(n) <= aged)
    BY <1>6, <2>1 DEF Kept, Stamp
  <2>3. a \in BackupNames
    BY DEF Kept
  <2>4. Stamp(n) \in Nat /\ Stamp(a) \in Nat
    BY <1>2, <2>3, DatedNames, NameFacts
  <2> QED BY <1>2, <1>5, <2>2, <2>4
<1>7. names \subseteq BackupNames
  BY DEF Kept
<1> HIDE DEF names, p
<1>8. w = base /\ base # 0
  BY <1>1, <1>2, InWrite
<1>9. (\A S : Here(S) <=> "prune" \in S) /\ \A S : Here(S)' <=> p \in S
  BY <1>1, <1>2, <1>8, Turns
<1>10. Staged'
  BY <1>4, <1>9, StagedElse
<1>11. \A n \in BackupNames : Recs(n)' = Recs(n) /\ Stamp(n)' = Stamp(n)
  BY <1>3 DEF Quiet, Still
<1>12. Dooms'
  BY <1>1, <1>5, <1>6, <1>7, <1>11 DEF Dooms
<1>13. \A n \in Names : Excused(n) => Excused(n)'
  BY <1>2, <1>9, ExcusedElse
<1>14. ASSUME NEW n \in BackupNames PROVE Reach(n)' <= Reach(n) + (Units(Restarts)' - Units(Restarts))
  <2>1. Full(n)' <=> Full(n)
    BY <1>4, <1>9 DEF Full
  <2>2. Here({"shift", "move"})' <=> Here({"shift", "move"})
    BY <1>4, <1>9
  <2>3. Reach(n)' = Reach(n)
    BY <1>1, <1>3, <2>1, <2>2, ReachSame DEF Quiet
  <2>4. Units(Restarts)' = Units(Restarts) /\ Units(Restarts) \in Nat
    BY <1>1, <1>2, RestartsSame, Grow
  <2> QED BY <2>3, <2>4, ReachHere
<1> QED BY <1>1, <1>3, <1>8, <1>10, <1>12, <1>13, <1>14, QuietConcludes

(* It removes one of them, which is older than what is not to go.            *)
LEMMA RemoveOldRemoval ==
  ASSUME NEW gz \in BOOLEAN, Ready(gz), [Next]_vars, NEW w \in Writers, RemoveOld(w, TRUE) PROVE Removal'
<1> DEFINE p == IF doomed' = {} THEN "reopen" ELSE "remove"
<1>1. /\ wpc[w] = "remove" /\ base' = base /\ opened' = opened /\ cfg' = cfg
      /\ wpc' = [wpc EXCEPT ![w] = p] /\ aged' = aged
  BY DEF RemoveOld, Goto
<1>2. /\ IInv /\ KInv /\ Dated /\ Unhurt /\ SameKind(gz) /\ aged \in Nat /\ Younger /\ Dooms
      /\ doomed \subseteq BackupNames
  BY DEF Ready, Removal, IInv, Typed
<1>3. p \in {"reopen", "remove"} /\ (doomed' # {} => p = "remove")
  OBVIOUS
<1> HIDE DEF p
<1>4. w = base /\ base # 0 /\ ~Zipping
  BY <1>1, <1>2, InWrite
<1>5. (\A S : Here(S) <=> "remove" \in S) /\ \A S : Here(S)' <=> p \in S
  BY <1>1, <1>2, <1>4, Turns
<1>6. PICK a \in doomed : /\ a \in BackupNames /\ doomed' = doomed \ {a}
                          /\ Gone(a) /\ Still(Names \ {a}) /\ LiveLen' = LiveLen /\ last' = last
  BY <1>2, RemoveOldEffect
<1>7. ASSUME NEW n \in Names PROVE Recs(n)' = (IF n = a THEN {} ELSE Recs(n)) /\ (n # a => Stamp(n)' = Stamp(n))
  BY <1>6 DEF Still, Gone
<1>8. Fewer /\ \A n \in BackupNames : Stamp(n)' = Stamp(n) \/ Stamp(n)' = 0
  BY <1>6, <1>7, NameFacts DEF Fewer, Gone
<1>9. Staged'
  BY <1>3, <1>5, StagedElse
<1>10. LiveLen' \in Nat
  BY <1>2, <1>6, Facts
<1>11. ASSUME NEW n \in BackupNames PROVE Reach(n)' <= Reach(n) + (Units(Restarts)' - Units(Restarts))
  <2>1. Full(n)' <=> Full(n)
    BY <1>3, <1>5 DEF Full
  <2>2. Here({"shift", "move"})' <=> Here({"shift", "move"})
    BY <1>3, <1>5
  <2>3. Reach(n)' = Reach(n)
    BY <1>1, <1>6, <2>1, <2>2, ReachSame
  <2>4. Units(Restarts)' = Units(Restarts) /\ Units(Restarts) \in Nat
    BY <1>1, <1>2, RestartsSame, Grow
  <2> QED BY <2>3, <2>4, ReachHere
<1>12. /\ \A d \in doomed : Stamp(d) <= aged
       /\ \A d \in doomed : \A n \in BackupNames \ doomed : Recs(n) # {} => Stamp(d) < Stamp(n)
  BY <1>2, <1>5 DEF Dooms
<1>13. Dooms'
  <2> SUFFICES ASSUME NEW d \in doomed'
               PROVE  /\ Stamp(d)' <= aged'
                      /\ \A n \in BackupNames \ doomed' : Recs(n)' # {} => Stamp(d)' < Stamp(n)'
    BY DEF Dooms
  <2>1. d \in doomed /\ d # a /\ d \in Names
    BY <1>2, <1>6, NameFacts
  <2>2. Stamp(d)' = Stamp(d) /\ Stamp(d)' <= aged'
    BY <1>1, <1>7, <1>12, <2>1
  <2>3. ASSUME NEW n \in BackupNames \ doomed', Recs(n)' # {} PROVE Stamp(d)' < Stamp(n)'
    <3>1. n # a /\ n \in Names
      BY <1>7, <2>3, NameFacts
    <3>2. n \in BackupNames \ doomed /\ Recs(n) # {} /\ Stamp(n)' = Stamp(n)
      BY <1>6, <1>7, <2>3, <3>1
    <3> QED BY <1>12, <2>1, <2>2, <3>2
  <2> QED BY <2>2, <2>3
<1>14. ASSUME NEW n \in Names, n \in doomed, n # a PROVE Excused(n)'
  <2>1. n \in doomed' /\ Here({"remove"})'
    BY <1>3, <1>5, <1>6, <1>14
  <2> QED BY <2>1 DEF Excused
<1>15. ASSUME NEW n \in Names, Recs(n)' # {}, Excused(n) PROVE Excused(n)'
  <2>1. n # a
    BY <1>7, <1>15
  <2>2. "halfpruned" \in disturbed => "halfpruned" \in disturbed'
    BY <1>2, UsedStays
  <2> QED BY <1>14, <1>15, <2>1, <2>2 DEF Excused
<1>16. ASSUME NEW x \in Stored, x \notin Stored' PROVE x \in Recs(a) /\ x \in Nat /\ x <= Stamp(a) /\ Stamp(a) \in Nat
  <2>1. PICK n \in Names : x \in Recs(n)
    BY <1>2, <1>16, StoredFacts
  <2>2. x \notin Recs(n)'
    BY <1>2, <1>16, StoredFacts
  <2>3. n = a
    BY <1>7, <2>1, <2>2
  <2>4. x \in 1 .. Stamp(a) /\ Stamp(a) \in Nat
    BY <1>2, <2>1, <2>3, DatedNames
  <2> QED BY <2>1, <2>3, <2>4
<1>17. ASSUME NEW x \in Stored, x \notin Stored' PROVE x <= aged
  BY <1>2, <1>6, <1>12, <1>16, <1>17
<1>18. ASSUME NEW x \in Stored, NEW n \in Names, NEW r \in Recs(n)', x \notin Stored'
       PROVE  x < r \/ (x <= aged /\ Excused(n)')
  <2>1. n # a /\ r \in Recs(n) /\ a \in Names
    BY <1>6, <1>7, <1>18, NameFacts
  <2>2. r \in Nat /\ r \in 1 .. Stamp(n) /\ Stamp(n) \in Nat
    BY <1>2, <2>1, DatedNames
  <2>3. x \in Recs(a) /\ x \in Nat /\ x <= Stamp(a) /\ Stamp(a) \in Nat
    BY <1>16, <1>18
  <2>4. CASE n \in doomed
    BY <1>14, <1>17, <1>18, <2>1, <2>4
  <2>5. CASE n \notin doomed
    <3>1. Older(a, n) => x < r
      <4>1. Older(a, n) => Stamp(a) < r
        BY <1>2, <2>1 DEF Younger
      <4> QED BY <2>2, <2>3, <4>1
    <3>2. CASE n = Live
      BY <1>6, <3>1, <3>2, NameFacts DEF Older
    <3>3. CASE n # Live
      <4>1. n \in BackupNames \ doomed /\ Recs(n) # {}
        BY <2>1, <2>5, <3>3, NameFacts
      <4>2. Stamp(a) < Stamp(n)
        BY <1>6, <1>12, <4>1
      <4>3. ~Older(n, a)
        <5>1. Older(n, a) => Stamp(n) < x
          BY <1>2, <2>1, <2>3 DEF Younger
        <5> QED BY <2>2, <2>3, <4>2, <5>1
      <4>4. n[1] # a[1]
        <5>1. \A k \in BackupNames : Recs(k) # {} => k[2] = gz
          BY <1>2, <1>4, Facts, NameFacts
        <5>2. n[2] = gz /\ a[2] = gz /\ (n[1] = a[1] => n = a)
          BY <1>6, <2>3, <4>1, <5>1, NameFacts
        <5> QED BY <2>1, <5>2
      <4>5. Older(a, n)
        BY <1>6, <4>1, <4>3, <4>4, NameFacts DEF Older
      <4> QED BY <3>1, <4>5
    <3> QED BY <3>2, <3>3
  <2> QED BY <2>4, <2>5
<1> QED BY <1>1, <1>4, <1>6, <1>8, <1>9, <1>10, <1>11, <1>13, <1>15, <1>17, <1>18, Conclude

ShiftsTo(w, p) ==
  /\ wpc[w] = "shift" /\ base' = base /\ opened' = opened /\ cfg' = cfg
  /\ slot' = [slot EXCEPT ![w] = @ - 1]
  /\ wpc' = [wpc EXCEPT ![w] = p]
  /\ p = IF slot[w] > 1 THEN "shift" ELSE "move"

LEMMA ShiftedOn ==
  ASSUME NEW gz \in BOOLEAN, Ready(gz), NEW w \in Writers, NEW p, ShiftsTo(w, p)
  PROVE  ~Here({"remove"}) /\ ~Here({"remove"})'
<1>1. IInv /\ wpc[w] = "shift" /\ base' = base /\ wpc' = [wpc EXCEPT ![w] = p]
  BY DEF Ready, ShiftsTo
<1>2. p \in {"shift", "move"}
  BY DEF ShiftsTo
<1>3. w = base
  BY <1>1, InWrite
<1>4. (\A S : Here(S) <=> wpc[w] \in S) /\ \A S : Here(S)' <=> p \in S
  BY <1>1, <1>3, Turns
<1> QED BY <1>1, <1>2, <1>4

LEMMA ShiftStaged ==
  ASSUME IInv, NEW w \in Writers, NEW p, ShiftsTo(w, p),
         NEW a \in BackupNames, a[1] = slot[w], a[2] = cfg[w].compress, Recs(a)' = {}
  PROVE  Staged'
<1>1. w = base /\ base # 0
  BY InWrite DEF ShiftsTo
<1>2. slot[w] \in Nat /\ slot[w] >= 1 /\ slot'[w] = slot[w] - 1
  BY ConfigFacts DEF ShiftsTo, IInv, Typed, Places, Place
<1>3. \A S : Here(S)' <=> p \in S
  BY <1>1, Turns DEF ShiftsTo
<1>4. ASSUME NEW n \in BackupNames, n[1] = slot'[base'] + 1, n[2] = cfg'[base'].compress PROVE Recs(n)' = {}
  <2>1. n = a
    BY <1>1, <1>2, <1>4, NameFacts DEF ShiftsTo
  <2> QED BY <2>1
<1>5. Here({"move"})' => slot'[base'] = 0
  BY <1>1, <1>2, <1>3 DEF ShiftsTo
<1>6. ~Here({"create"})' /\ ~Here({"untmp"})'
  BY <1>3 DEF ShiftsTo
<1> QED BY <1>4, <1>5, <1>6 DEF Staged

(* The shifted slot is not reached any more; the others are as they were.    *)
LEMMA ShiftReach ==
  ASSUME NEW gz \in BOOLEAN, Ready(gz), [Next]_vars, NEW w \in Writers, NEW p, ShiftsTo(w, p),
         LiveLen' = LiveLen
  PROVE  /\ \A n \in BackupNames : Reach(n)' <= Reach(n) + (Units(Restarts)' - Units(Restarts))
         /\ \A n \in BackupNames : n[1] = slot[w] => Reach(n) = Units(slot[w])
         /\ \A n \in BackupNames : n[1] = slot[w] + 1 => Reach(n)' = Units(slot[w])
         /\ Units(Restarts)' = Units(Restarts)
         /\ LiveLen' \in Nat
<1>0. IInv /\ KInv /\ aged \in Nat /\ Unhurt /\ SameKind(gz)
  BY DEF Ready
<1>1. w = base /\ base # 0 /\ wpc[w] = "shift"
  BY <1>0, InWrite DEF ShiftsTo
<1>2. slot[w] \in Nat /\ slot[w] >= 1 /\ slot'[w] = slot[w] - 1
  BY <1>0, ConfigFacts DEF ShiftsTo, IInv, Typed, Places, Place
<1>3. (\A S : Here(S) <=> "shift" \in S) /\ \A S : Here(S)' <=> p \in S
  BY <1>0, <1>1, Turns DEF ShiftsTo
<1>4. LiveLen' \in Nat
  BY <1>0, Facts
<1>5. Units(Restarts)' = Units(Restarts) /\ Units(Restarts) \in Nat
  BY <1>0, RestartsSame, Grow DEF ShiftsTo
<1>6. p \in {"shift", "move"} /\ Here({"shift", "move"})' /\ ~Here({"drop"})' /\ (base' = base)
  BY <1>3 DEF ShiftsTo
<1>7. ASSUME NEW n \in BackupNames
      PROVE  /\ Full(n) <=> n[1] <= slot[w]
             /\ Full(n)' => n[1] <= slot[w] - 1
  BY <1>1, <1>2, <1>3, <1>6 DEF Full
<1>8. ASSUME NEW n \in BackupNames PROVE Reach(n)' <= Reach(n) + (Units(Restarts)' - Units(Restarts))
  <2>1. CASE Full(n)
    <3>1. Reach(n) = Units(n[1]) /\ Units(n[1]) \in Nat
      BY <2>1, ReachHere
    <3>2. Reach(n)' <= Units(n[1]) /\ Reach(n)' \in Nat
      BY <1>4, ReachThere
    <3> QED BY <1>5, <3>1, <3>2
  <2>2. CASE ~Full(n)
    <3>1. ~Full(n)'
      BY <1>2, <1>7, <2>2, NameFacts
    <3>2. Reach(n)' = Units(n[1] - 1)
      BY <1>4, <1>6, <3>1, ReachThere
    <3> QED BY <1>5, <3>2, ReachHere
  <2> QED BY <2>1, <2>2
<1>9. ASSUME NEW n \in BackupNames, n[1] = slot[w] PROVE Reach(n) = Units(slot[w])
  BY <1>2, <1>7, <1>9, ReachHere
<1>10. ASSUME NEW n \in BackupNames, n[1] = slot[w] + 1 PROVE Reach(n)' = Units(slot[w])
  <2>1. ~Full(n)' /\ n[1] - 1 = slot[w]
    BY <1>2, <1>7, <1>10
  <2> QED BY <1>4, <1>6, <2>1, ReachThere
<1> QED BY <1>4, <1>5, <1>8, <1>9, <1>10

LEMMA ShiftRemoval ==
  ASSUME NEW gz \in BOOLEAN, Ready(gz), [Next]_vars, NEW w \in Writers, Shift(w, TRUE) PROVE Removal'
<1>1. PICK p : ShiftsTo(w, p)
  BY DEF Shift, ShiftOne, Goto, ShiftsTo
<1>2. /\ IInv /\ KInv /\ Dated /\ Unhurt /\ SameKind(gz) /\ aged \in Nat
      /\ Younger /\ Far /\ Staged /\ Lost /\ (~Lowered => Whole)
  BY DEF Ready, Removal
<1>3. /\ w = base /\ base # 0 /\ cfg[w].compress = gz /\ ~Zipping /\ base' = base /\ cfg' = cfg
      /\ (\A S : Here(S) <=> "shift" \in S)
  <2>1. wpc[w] = "shift" /\ base' = base /\ cfg' = cfg /\ wpc' = [wpc EXCEPT ![w] = p]
    BY <1>1 DEF ShiftsTo
  <2>2. w = base /\ base # 0 /\ cfg[w].compress = gz /\ ~Zipping
    BY <1>2, <2>1, InWrite
  <2> QED BY <1>2, <2>1, <2>2, Turns
<1>4. slot[w] \in Nat /\ slot[w] >= 1 /\ cfg[w].backups > 0
  BY <1>1, <1>2, ConfigFacts DEF ShiftsTo, IInv, Typed, Places, Place
<1>5. PICK a \in BackupNames, b \in BackupNames :
        /\ a # b /\ a[1] = slot[w] /\ b[1] = slot[w] + 1 /\ a[2] = cfg[w].compress
        /\ b = Backup(w, slot[w] + 1)
        /\ last' = last /\ LiveLen' = LiveLen
        /\ \/ Recs(a) = {} /\ Still(Names)
           \/ /\ Recs(b)' = Recs(a) /\ Stamp(b)' = Stamp(a) /\ Gone(a)
              /\ Still(Names \ {a, b})
  BY <1>2, ShiftEffect
<1>6. a \in Names /\ b \in Names /\ b[2] = cfg[w].compress
  BY <1>5, NameFacts DEF Backup
<1>7. Recs(a)' = {}
  BY <1>5, <1>6 DEF Still, Gone
<1>8. Staged'
  BY <1>1, <1>2, <1>5, <1>7, ShiftStaged
<1>9. /\ \A n \in BackupNames : Reach(n)' <= Reach(n) + (Units(Restarts)' - Units(Restarts))
      /\ Reach(a) = Units(slot[w]) /\ Reach(b)' = Units(slot[w])
      /\ Units(Restarts)' = Units(Restarts)
      /\ LiveLen' \in Nat
  BY <1>1, <1>5, ShiftReach
<1>10. CASE Recs(a) = {} /\ Still(Names)
  <2>1. Quiet
    BY <1>5, <1>10, NameFacts DEF Quiet, Still
  <2>2. Dooms' /\ \A n \in Names : Excused(n) => Excused(n)'
    BY <1>1, <1>3, ShiftedOn, NotDoomed
  <2> QED BY <1>3, <1>8, <1>9, <2>1, <2>2, QuietConcludes
<1>11. CASE Recs(b)' = Recs(a) /\ Stamp(b)' = Stamp(a) /\ Gone(a) /\ Still(Names \ {a, b})
  <2>1. Recs(b) = {}
    <3>1. Here({"shift", "move"}) /\ cfg[base].backups > 0
      BY <1>3, <1>4
    <3> QED BY <1>2, <1>3, <1>5, <1>6, <3>1 DEF Staged
  <2>2. ASSUME NEW n \in Names \ {a, b} PROVE Recs(n)' = Recs(n) /\ Stamp(n)' = Stamp(n)
    BY <1>11, <2>2 DEF Still
  <2>3. Younger'
    <3> SUFFICES ASSUME NEW m \in Names, NEW n \in Names, Older(m, n), NEW y \in Recs(n)'
                 PROVE  Stamp(m)' < y
      BY DEF Younger, Older
    <3>1. n # a /\ m \in BackupNames
      BY <1>7, NameFacts DEF Older
    <3>2. PICK k \in Names : y \in Recs(k) /\ (n = b => k = a) /\ (n # b => k = n)
      BY <1>6, <1>11, <2>2, <3>1
    <3>3. y \in Nat /\ y >= 1
      BY <1>2, <3>2, DatedNames
    <3>4. CASE m = a
      BY <1>11, <3>3, <3>4 DEF Gone
    <3>5. CASE m = b
      <4>1. n # b /\ k = n
        BY <1>4, <1>5, <3>2, <3>5 DEF Older
      <4>2. Older(a, n)
        <5>1. n = Live \/ n[1] # a[1]
          <6>1. CASE n \in BackupNames /\ n[1] = a[1]
            BY <1>2, <1>3, <1>5, <3>1, <3>2, <4>1, <6>1, OneName
          <6> QED BY <6>1, NameFacts
        <5>2. n[1] < slot[w] + 1 /\ n[1] \in Nat
          BY <1>4, <1>5, <3>5, NameFacts DEF Older
        <5> QED BY <1>4, <1>5, <5>1, <5>2, NameFacts DEF Older
      <4>3. Stamp(a) < y
        BY <1>2, <1>6, <3>2, <4>1, <4>2 DEF Younger
      <4> QED BY <1>11, <3>5, <4>3
    <3>6. CASE m \notin {a, b}
      <4>1. Older(m, k)
        <5>1. m[1] \in Nat /\ n[1] \in Nat
          BY <3>1, NameFacts
        <5> QED BY <1>4, <1>5, <3>2, <5>1 DEF Older
      <4>2. Stamp(m) < y
        BY <1>2, <3>2, <4>1 DEF Younger
      <4> QED BY <2>2, <3>6, <4>2
    <3> QED BY <3>4, <3>5, <3>6
  <2>4. Far'
    <3>1. ASSUME NEW n \in BackupNames, NEW x \in Recs(n)' PROVE Since(x)' >= Reach(n)'
      <4>1. Since(x)' = Since(x)
        BY <1>5, <1>9 DEF Since
      <4>2. CASE n = b
        <5>1. Since(x) >= Reach(a)
          BY <1>2, <1>11, <3>1, <4>2 DEF Far
        <5> QED BY <1>9, <4>1, <4>2, <5>1
      <4>3. CASE n # b
        <5>1. n # a /\ n \in Names
          BY <1>7, <3>1, NameFacts
        <5>2. x \in Recs(n)
          BY <2>2, <3>1, <4>3, <5>1
        <5>3. Since(x) >= Reach(n)
          BY <1>2, <5>2 DEF Far
        <5>4. Reach(n)' <= Reach(n) /\ Reach(n) \in Nat /\ Reach(n)' \in Nat
          <6>1. Reach(n) \in Nat /\ Reach(n)' \in Nat
            BY <1>9, ReachHere, ReachThere
          <6>2. Units(Restarts) \in Nat
            BY <1>2, Grow
          <6> QED BY <1>9, <6>1, <6>2
        <5>5. Since(x) \in Int
          <6>1. last \in Nat /\ x \in Nat /\ Units(Restarts) \in Nat
            BY <1>2, <5>1, <5>2, Grow, DatedNames
          <6> QED BY <6>1 DEF Since
        <5> QED BY <4>1, <5>3, <5>4, <5>5
      <4> QED BY <4>2, <4>3
    <3>2. opened' # 0 /\ base' # 0
      BY <1>1, <1>2, <1>3, FileFacts DEF ShiftsTo, IInv, Typed
    <3> QED BY <3>1, <3>2 DEF Far
  <2>5. \A x : x \in Stored' <=> x \in Stored
    <3>1. ASSUME NEW x \in Stored PROVE x \in Stored'
      <4>1. PICK n \in Names : x \in Recs(n)
        BY <1>2, <3>1, StoredFacts
      <4>2. n # b
        BY <2>1, <4>1
      <4>3. \E m \in Names : x \in Recs(m)'
        BY <1>6, <1>11, <2>2, <4>1, <4>2
      <4> QED BY <1>2, <4>3, StoredFacts
    <3>2. ASSUME NEW x \in Stored' PROVE x \in Stored
      <4>1. PICK n \in Names : x \in Recs(n)'
        BY <1>2, <3>2, StoredFacts
      <4>2. \E m \in Names : x \in Recs(m)
        BY <1>6, <1>7, <1>11, <2>2, <4>1
      <4> QED BY <1>2, <4>2, StoredFacts
    <3> QED BY <3>1, <3>2
  <2>6. Lost'
    BY <1>2, <1>5, <2>5, LostStays
  <2>7. Dooms' /\ \A m, n : Excused(m) => Excused(n)'
    BY <1>1, <1>3, ShiftedOn, NotDoomed
  <2>8. ~Lowered' => Whole'
    <3>1. ~Lowered' => ~Lowered
      BY <1>2, LoweredStays
    <3>2. ASSUME NEW n \in Names, NEW r \in Recs(n)' PROVE \E m \in Names : r \in Recs(m)
      BY <1>6, <1>7, <1>11, <2>2, <3>2
    <3>3. Whole => Whole'
      BY <1>2, <1>5, <2>5, <2>7, <3>2, WholeStays
    <3> QED BY <1>2, <3>1, <3>3
  <2> QED BY <1>8, <2>3, <2>4, <2>6, <2>7, <2>8 DEF Removal
<1> QED BY <1>5, <1>10, <1>11

(* The live file is moved: what name.1 holds was nothing, or more than       *)
(* MaxBackups = 0 asks to keep.                                              *)
LEMMA MoveTakes ==
  ASSUME NEW gz \in BOOLEAN, Ready(gz), NEW w \in Writers, Here({"move"}), w = base,
         cfg[w].compress = gz, ~Zipping
  PROVE  /\ Recs(Tmp) # {} => cfg[w].backups = 0 /\ ~gz
         /\ cfg[w].backups > 0 /\ gz => Recs(Gz) = {}
<1>1. IInv /\ KInv /\ Dated /\ Unhurt /\ SameKind(gz) /\ Staged
  BY DEF Ready, Removal
<1>2. gz => Recs(Tmp) = {}
  BY <1>1, Facts
<1>3. cfg[w].backups > 0 => \A n \in BackupNames : n[1] = 1 /\ n[2] = gz => Recs(n) = {}
  <2>1. cfg[w].backups > 0 => slot[w] = 0
    BY <1>1 DEF Staged
  <2>2. Here({"shift", "move"})
    BY DEF Here
  <2> QED BY <1>1, <2>1, <2>2 DEF Staged
<1>4. cfg[w].backups \in Nat
  BY <1>1, ConfigFacts DEF IInv
<1> QED BY <1>2, <1>3, <1>4, NameFacts

LEMMA MoveRemoval ==
  ASSUME NEW gz \in BOOLEAN, Ready(gz), [Next]_vars, NEW w \in Writers, Move(w, TRUE) PROVE Removal'
<1>1. /\ wpc[w] = "move" /\ base' = base /\ opened' = opened /\ cfg' = cfg /\ slot' = slot
  BY DEF Move, MoveTo
<1>2. PICK p \in {"create", "prune"} : wpc' = [wpc EXCEPT ![w] = p] /\ (p = "prune" \/ cfg[w].compress)
  <2> DEFINE zips == cfg[w].compress /\ dir[Live] # 0
  <2>1. Goto(w, IF zips THEN "create" ELSE "prune")
    BY DEF Move, MoveTo
  <2>2. zips => cfg[w].compress
    OBVIOUS
  <2> HIDE DEF zips
  <2>3. CASE zips
    <3>1. Goto(w, "create")
      BY <2>1, <2>3
    <3> QED BY <2>2, <2>3, <3>1 DEF Goto
  <2>4. CASE ~zips
    <3>1. Goto(w, "prune")
      BY <2>1, <2>4
    <3> QED BY <3>1 DEF Goto
  <2> QED BY <2>3, <2>4
<1>3. /\ IInv /\ KInv /\ Dated /\ Unhurt /\ SameKind(gz) /\ aged \in Nat
      /\ Younger /\ Far /\ Staged /\ Lost /\ (~Lowered => Whole)
  BY DEF Ready, Removal
<1>4. w = base /\ base # 0 /\ cfg[w].compress = gz /\ ~Zipping
  BY <1>1, <1>3, InWrite
<1>5. (\A S : Here(S) <=> "move" \in S) /\ \A S : Here(S)' <=> p \in S
  BY <1>1, <1>2, <1>3, <1>4, Turns
<1>6. /\ last' = last /\ LiveLen' = 0
      /\ \/ Recs(Live) = {} /\ Still(Names)
         \/ /\ Recs(Tmp)' = Recs(Live) /\ Stamp(Tmp)' = Stamp(Live) /\ Gone(Live)
            /\ Still(Names \ {Live, Tmp})
  BY <1>3, MoveEffect
<1>7. Live \in Names /\ Tmp \in Names /\ Gz \in Names \ {Live, Tmp} /\ Live # Tmp
  BY NameFacts
<1>8. /\ Recs(Tmp) # {} => cfg[w].backups = 0 /\ ~gz
      /\ cfg[w].backups > 0 /\ gz => Recs(Gz) = {}
  BY <1>4, <1>5, MoveTakes
<1>9. /\ Recs(Gz)' = Recs(Gz) /\ Stamp(Gz)' = Stamp(Gz)
      /\ Recs(Tmp)' = Recs(Live) \/ (Recs(Tmp)' = Recs(Tmp) /\ Recs(Live) = {})
      /\ Recs(Live)' = {}
  BY <1>6, <1>7 DEF Still, Gone
<1>10. ASSUME NEW n \in Names \ {Live, Tmp} PROVE Recs(n)' = Recs(n) /\ Stamp(n)' = Stamp(n)
  BY <1>6 DEF Still
<1>11. Staged'
  <2>1. ASSUME Here({"create"})' PROVE gz
    BY <1>2, <1>4, <1>5, <2>1
  <2>2. ASSUME Here({"create"})', NEW x \in Recs(Gz)', NEW y \in Recs(Tmp)' PROVE x < y
    <3>1. y \in Recs(Live) /\ x \in Recs(Gz)
      BY <1>8, <1>9, <2>1, <2>2
    <3>2. Stamp(Gz) < y /\ Gz \in Names /\ Live \in Names
      BY <1>3, <1>7, <3>1, NameFacts DEF Younger, Older
    <3>3. x \in 1 .. Stamp(Gz) /\ Stamp(Gz) \in Nat /\ y \in 1 .. Stamp(Live) /\ Stamp(Live) \in Nat
      BY <1>3, <3>1, <3>2, DatedNames
    <3> QED BY <3>2, <3>3
  <2>3. ASSUME Here({"create"})', cfg'[base'].backups > 0 PROVE Recs(Gz)' = {}
    BY <1>1, <1>4, <1>8, <1>9, <2>1, <2>3
  <2>4. ~Here({"shift", "move"})' /\ ~Here({"move"})' /\ ~Here({"untmp"})'
    BY <1>2, <1>5
  <2> QED BY <2>2, <2>3, <2>4 DEF Staged
<1>12. Units(Restarts)' = Units(Restarts) /\ Units(Restarts) \in Nat /\ last \in Nat
  BY <1>1, <1>3, RestartsSame, Grow
<1>13. Younger'
  <2> SUFFICES ASSUME NEW m \in Names, NEW n \in Names, Older(m, n), NEW y \in Recs(n)'
               PROVE  Stamp(m)' < y
    BY DEF Younger, Older
  <2>1. m \in BackupNames /\ n # Live
    BY <1>9, NameFacts DEF Older
  <2>2. m \notin {Live, Tmp}
    BY <2>1, NameFacts DEF Older
  <2>3. Stamp(m)' = Stamp(m)
    BY <1>10, <2>2
  <2>4. CASE n = Tmp /\ Recs(Tmp)' = Recs(Live)
    <3>1. Older(m, Live)
      BY <2>1, NameFacts DEF Older
    <3> QED BY <1>3, <1>7, <2>3, <2>4, <3>1 DEF Younger
  <2>5. CASE ~(n = Tmp /\ Recs(Tmp)' = Recs(Live))
    <3>1. y \in Recs(n)
      BY <1>9, <1>10, <2>1, <2>5
    <3> QED BY <1>3, <2>3, <3>1 DEF Younger
  <2> QED BY <2>4, <2>5
<1>14. Far'
  <2>1. ASSUME NEW n \in BackupNames, NEW x \in Recs(n)' PROVE Since(x)' >= Reach(n)'
    <3>1. Since(x)' = Since(x)
      BY <1>6, <1>12 DEF Since
    <3>2. ~Full(n)'
      BY <1>2, <1>5 DEF Full
    <3>3. Reach(n)' <= Units(n[1] - 1) /\ Reach(n)' \in Nat /\ Units(n[1] - 1) \in Nat
      <4>1. LiveLen' \in Nat /\ LiveLen' = 0
        BY <1>6
      <4>2. /\ Reach(n)' <= Units(n[1] - 1) + Share' /\ Reach(n)' \in Nat
            /\ Share' \in Nat /\ Share' <= LiveLen'
        BY <3>2, <4>1, ReachThere
      <4>3. Share' = 0
        BY <4>1, <4>2
      <4> QED BY <4>2, <4>3, ReachHere
    <3>4. CASE n = Tmp /\ Recs(Tmp)' = Recs(Live)
      <4>1. x \in Recs(Live)
        BY <2>1, <3>4
      <4>2. x \in Nat /\ x <= last
        BY <1>3, <1>7, <4>1, <1>12, DatedNames
      <4>3. Since(x) >= 0 /\ Since(x) \in Nat
        BY <1>12, <4>2 DEF Since
      <4>4. n[1] - 1 = 0 /\ Units(0) = 0
        BY <1>3, <3>4, NameFacts, UnitsFacts
      <4> QED BY <3>1, <3>3, <4>3, <4>4
    <3>5. CASE ~(n = Tmp /\ Recs(Tmp)' = Recs(Live))
      <4>1. x \in Recs(n) /\ n \in Names
        BY <1>9, <1>10, <2>1, <3>5, NameFacts
      <4>2. Since(x) >= Reach(n)
        BY <1>3, <4>1 DEF Far
      <4>3. Since(x) \in Int /\ Reach(n) \in Nat /\ Reach(n) >= Units(n[1] - 1)
        <5>1. x \in Nat
          BY <1>3, <4>1, DatedNames
        <5>2. Since(x) \in Int
          BY <1>12, <5>1 DEF Since
        <5> QED BY <5>2, ReachHere
      <4> QED BY <3>1, <3>3, <4>2, <4>3
    <3> QED BY <3>4, <3>5
  <2>2. opened' # 0 /\ base' # 0
    BY <1>1, <1>3, <1>4, FileFacts DEF IInv, Typed
  <2> QED BY <2>1, <2>2 DEF Far
<1>15. ASSUME NEW x \in Stored PROVE x \in Stored' \/ x \in Recs(Tmp)
  <2>1. PICK n \in Names : x \in Recs(n)
    BY <1>3, <1>15, StoredFacts
  <2>2. CASE n = Live
    <3>1. x \in Recs(Tmp)'
      BY <1>9, <2>1, <2>2
    <3> QED BY <1>3, <1>7, <3>1, StoredFacts
  <2>3. CASE n \notin {Live, Tmp}
    <3>1. x \in Recs(n)'
      BY <1>10, <2>1, <2>3
    <3> QED BY <1>3, <3>1, StoredFacts
  <2> QED BY <2>1, <2>2, <2>3
<1>16. ASSUME NEW n \in Names, NEW r \in Recs(n)' PROVE \E m \in Names : r \in Recs(m)
  BY <1>7, <1>9, <1>10, <1>16
<1>19. Dooms' /\ \A m, n : Excused(m) => Excused(n)'
  BY <1>2, <1>5, NotDoomed
<1>17. Lost'
  <2>1. ASSUME NEW x \in Stored, x \notin Stored'
        PROVE  \E v \in 1 .. opened : Since(x) >= Units(cfg[v].backups)
    <3>1. cfg[base].backups = 0
      BY <1>4, <1>8, <1>15, <2>1
    <3> QED BY <1>4, <2>1, <3>1, NoneKept
  <2> QED BY <1>3, <1>6, <2>1, LostStays
<1>18. ~Lowered' => Whole'
  <2> SUFFICES ASSUME ~Lowered' PROVE Whole'
    OBVIOUS
  <2>1. ~Lowered /\ Whole
    BY <1>3, LoweredStays
  <2>2. ASSUME NEW x \in Stored, NEW n \in Names, NEW r \in Recs(n)', x \notin Stored' PROVE x < r
    <3>1. x \in Recs(Tmp) /\ cfg[w].backups = 0 /\ ~gz
      BY <1>8, <1>15, <2>2
    <3>2. x \notin Recs(Tmp)'
      BY <1>3, <1>7, <2>2, StoredFacts
    <3>3. Recs(Tmp)' = Recs(Live)
      BY <1>9, <3>1, <3>2
    <3>5. n = Tmp
      <4>1. CASE n = Live
        BY <1>9, <2>2, <4>1
      <4>2. CASE n \notin {Live, Tmp}
        <5>1. n \in BackupNames /\ Recs(n) # {}
          BY <1>10, <2>2, <4>2, NameFacts
        <5>2. n[1] = 1 \/ n[1] <= cfg[base].backups
          BY <1>4, <2>1, <5>1, WithinBase
        <5>3. n[1] = 1
          BY <1>4, <3>1, <5>1, <5>2, NameFacts
        <5> QED BY <1>3, <1>4, <3>1, <5>1, <5>3, OneName, NameFacts
      <4> QED BY <4>1, <4>2
    <3>6. r \in Recs(Live) /\ Older(Tmp, Live)
      BY <2>2, <3>3, <3>5, NameFacts DEF Older
    <3>7. Stamp(Tmp) < r /\ x \in 1 .. Stamp(Tmp) /\ Stamp(Tmp) \in Nat
      BY <1>3, <1>7, <3>1, <3>6, DatedNames DEF Younger
    <3>8. r \in 1 .. Stamp(Live) /\ Stamp(Live) \in Nat
      BY <1>3, <1>7, <3>6, DatedNames
    <3> QED BY <3>7, <3>8
  <2> QED BY <1>3, <1>6, <1>16, <1>19, <2>1, <2>2, WholeStays
<1> QED BY <1>11, <1>13, <1>14, <1>17, <1>18, <1>19 DEF Removal

LEMMA CreateGzRemoval ==
  ASSUME NEW gz \in BOOLEAN, Ready(gz), [Next]_vars, NEW w \in Writers, CreateGz(w) PROVE Removal'
<1>1. /\ wpc[w] = "create" /\ base' = base /\ opened' = opened /\ cfg' = cfg
      /\ wpc' = [wpc EXCEPT ![w] = "compress"]
  BY DEF CreateGz, Goto
<1>2. /\ IInv /\ KInv /\ Dated /\ Unhurt /\ SameKind(gz) /\ aged \in Nat
      /\ Younger /\ Far /\ Staged /\ Lost /\ (~Lowered => Whole)
  BY DEF Ready, Removal
<1>3. w = base /\ base # 0
  BY <1>1, <1>2, InWrite
<1>4. (\A S : Here(S) <=> "create" \in S) /\ \A S : Here(S)' <=> "compress" \in S
  BY <1>1, <1>2, <1>3, Turns
<1>5. Recs(Gz)' = {} /\ Stamp(Gz)' = last /\ Still(Names \ {Gz}) /\ LiveLen' = LiveLen /\ last' = last
  BY <1>2, CreateEffect
<1>6. Gz \in Names /\ Live \in Names /\ Tmp \in Names /\ Live # Gz
  BY NameFacts
<1>7. Recs(Live) = {} /\ LiveLen \in Nat
  BY <1>2, <1>4, Facts
<1>8. ASSUME NEW n \in Names \ {Gz} PROVE Recs(n)' = Recs(n) /\ Stamp(n)' = Stamp(n)
  BY <1>5 DEF Still
<1>9. Staged'
  BY <1>4, StagedElse
<1>10. Fewer
  BY <1>5, <1>8 DEF Fewer
<1>11. Younger'
  <2> SUFFICES ASSUME NEW m \in Names, NEW n \in Names, Older(m, n), NEW y \in Recs(n)'
               PROVE  Stamp(m)' < y
    BY DEF Younger, Older
  <2>1. n # Gz /\ y \in Recs(n)
    BY <1>5, <1>8
  <2>2. m # Gz
    BY <1>7, <2>1, NameFacts DEF Older
  <2> QED BY <1>2, <1>8, <2>1, <2>2 DEF Younger
<1>12. Units(Restarts)' = Units(Restarts) /\ Units(Restarts) \in Nat /\ last \in Nat
  BY <1>1, <1>2, RestartsSame, Grow
<1>13. Far'
  <2>1. ASSUME NEW n \in BackupNames
        PROVE  /\ Recs(n)' \subseteq Recs(n) /\ Reach(n) \in Nat /\ Reach(n)' \in Nat
               /\ Reach(n)' <= Reach(n) + (Units(Restarts)' - Units(Restarts)) + (last' - last)
    <3>4. Full(n)' <=> Full(n)
      BY <1>4 DEF Full
    <3>1. Reach(n)' = Reach(n)
      BY <1>1, <1>4, <1>5, <3>4, ReachSame
    <3>2. Reach(n) \in Nat
      BY ReachHere
    <3>3. Recs(n)' \subseteq Recs(n)
      BY <1>10, NameFacts DEF Fewer
    <3> QED BY <1>5, <1>12, <3>1, <3>2, <3>3
  <2> QED BY <1>1, <1>2, <1>3, <1>10, <2>1, FarStays
<1>14. ASSUME NEW x \in Stored PROVE x \in Stored' \/ x \in Recs(Gz)
  <2>1. PICK n \in Names : x \in Recs(n)
    BY <1>2, <1>14, StoredFacts
  <2>2. CASE n # Gz
    <3>1. x \in Recs(n)'
      BY <1>8, <2>1, <2>2
    <3> QED BY <1>2, <3>1, StoredFacts
  <2> QED BY <2>1, <2>2
<1>15. ASSUME NEW n \in Names, NEW r \in Recs(n)' PROVE \E m \in Names : r \in Recs(m)
  BY <1>10, <1>15 DEF Fewer
<1>19. Dooms' /\ \A m, n : Excused(m) => Excused(n)'
  BY <1>4, NotDoomed
<1>16. Recs(Gz) # {} => cfg[base].backups = 0
  <2>1. cfg[base].backups \in Nat
    BY <1>2, <1>3, ConfigFacts DEF IInv
  <2>2. Here({"create"})
    BY <1>4
  <2> QED BY <1>2, <2>1, <2>2 DEF Staged
<1>17. Lost'
  <2>1. ASSUME NEW x \in Stored, x \notin Stored'
        PROVE  \E v \in 1 .. opened : Since(x) >= Units(cfg[v].backups)
    BY <1>3, <1>14, <1>16, <2>1, NoneKept
  <2> QED BY <1>2, <1>5, <2>1, LostStays
<1>18. ~Lowered' => Whole'
  <2> SUFFICES ASSUME ~Lowered' PROVE Whole'
    OBVIOUS
  <2>1. ~Lowered /\ Whole
    BY <1>2, LoweredStays
  <2>2. ASSUME NEW x \in Stored, NEW n \in Names, NEW r \in Recs(n)', x \notin Stored' PROVE x < r
    <3>1. x \in Recs(Gz) /\ cfg[base].backups = 0
      BY <1>14, <1>16, <2>2
    <3>3. n # Gz /\ r \in Recs(n)
      BY <1>5, <1>8, <2>2
    <3>4. n = Tmp
      <4>1. n \in BackupNames /\ Recs(n) # {}
        BY <1>7, <3>3, NameFacts
      <4>2. n[1] = 1 \/ n[1] <= 0
        BY <1>3, <2>1, <3>1, <4>1, WithinBase
      <4> QED BY <3>3, <4>1, <4>2, NameFacts
    <3>5. Here({"create"})
      BY <1>4
    <3> QED BY <1>2, <3>1, <3>3, <3>4, <3>5 DEF Staged
  <2> QED BY <1>2, <1>5, <1>15, <1>19, <2>1, <2>2, WholeStays
<1> QED BY <1>9, <1>11, <1>13, <1>17, <1>18, <1>19 DEF Removal

LEMMA CompressRemoval ==
  ASSUME NEW gz \in BOOLEAN, Ready(gz), [Next]_vars, NEW w \in Writers, Compress(w, TRUE) PROVE Removal'
<1>1. /\ wpc[w] = "compress" /\ base' = base /\ opened' = opened /\ cfg' = cfg
      /\ wpc' = [wpc EXCEPT ![w] = "untmp"]
  BY DEF Compress, Goto
<1>2. /\ IInv /\ KInv /\ Dated /\ Unhurt /\ SameKind(gz) /\ aged \in Nat
      /\ Younger /\ Far /\ Lost /\ (~Lowered => Whole)
  BY DEF Ready, Removal
<1>3. w = base /\ base # 0
  BY <1>1, <1>2, InWrite
<1>4. (\A S : Here(S) <=> "compress" \in S) /\ \A S : Here(S)' <=> "untmp" \in S
  BY <1>1, <1>2, <1>3, Turns
<1>5. /\ Recs(Gz) = {} /\ Recs(Gz)' = Recs(Tmp) /\ Stamp(Gz)' = Stamp(Gz)
      /\ Still(Names \ {Gz}) /\ LiveLen' = LiveLen /\ last' = last
  BY <1>2, CompressEffect
<1>6. Gz \in Names /\ Live \in Names /\ Tmp \in Names \ {Gz} /\ Live # Gz
  BY NameFacts
<1>7. Recs(Live) = {}
  BY <1>2, <1>4, Facts
<1>8. ASSUME NEW n \in Names \ {Gz} PROVE Recs(n)' = Recs(n) /\ Stamp(n)' = Stamp(n)
  BY <1>5 DEF Still
<1>9. Staged'
  <2>1. Recs(Tmp)' \subseteq Recs(Gz)'
    BY <1>5, <1>6, <1>8
  <2>2. ~Here({"shift", "move"})' /\ ~Here({"move"})' /\ ~Here({"create"})'
    BY <1>4
  <2> QED BY <2>1, <2>2 DEF Staged
<1>10. \A n \in Names : Stamp(n)' = Stamp(n)
  BY <1>5, <1>8
<1>11. Younger'
  <2> SUFFICES ASSUME NEW m \in Names, NEW n \in Names, Older(m, n), NEW y \in Recs(n)'
               PROVE  Stamp(m)' < y
    BY DEF Younger, Older
  <2>1. CASE n = Gz
    <3>1. Older(m, Tmp) /\ y \in Recs(Tmp)
      BY <1>5, <2>1, NameFacts DEF Older
    <3> QED BY <1>2, <1>6, <1>10, <3>1 DEF Younger
  <2>2. CASE n # Gz
    BY <1>2, <1>8, <1>10, <2>2 DEF Younger
  <2> QED BY <2>1, <2>2
<1>12. Units(Restarts)' = Units(Restarts) /\ Units(Restarts) \in Nat /\ last \in Nat
  BY <1>1, <1>2, RestartsSame, Grow
<1>13. Far'
  <2>1. ASSUME NEW n \in BackupNames PROVE Reach(n)' = Reach(n)
    <3>1. Full(n)' <=> Full(n)
      BY <1>4 DEF Full
    <3> QED BY <1>1, <1>4, <1>5, <3>1, ReachSame
  <2>2. Reach(Gz) = Reach(Tmp)
    <3>1. ~Full(Gz) /\ ~Full(Tmp) /\ ~Here({"shift", "move"})
      BY <1>4 DEF Full
    <3> QED BY <1>3, <3>1, NameFacts DEF Reach
  <2>3. ASSUME NEW n \in BackupNames, NEW x \in Recs(n)' PROVE Since(x)' >= Reach(n)'
    <3>1. Since(x)' = Since(x)
      BY <1>5, <1>12 DEF Since
    <3>2. PICK k \in BackupNames : x \in Recs(k) /\ Reach(k) = Reach(n)
      BY <1>5, <1>8, <2>2, <2>3, NameFacts
    <3>3. Since(x) >= Reach(k)
      BY <1>2, <3>2 DEF Far
    <3> QED BY <2>1, <3>1, <3>2, <3>3
  <2>4. opened' # 0 /\ base' # 0
    BY <1>1, <1>2, <1>3, FileFacts DEF IInv, Typed
  <2> QED BY <2>3, <2>4 DEF Far
<1>14. \A x : x \in Stored' <=> x \in Stored
  <2>1. ASSUME NEW x, NEW n \in Names, x \in Recs(n) PROVE \E m \in Names : x \in Recs(m)'
    BY <1>5, <1>6, <1>8, <2>1
  <2>2. ASSUME NEW x, NEW n \in Names, x \in Recs(n)' PROVE \E m \in Names : x \in Recs(m)
    BY <1>5, <1>6, <1>8, <2>2
  <2> QED BY <1>2, <2>1, <2>2, StoredFacts
<1>15. Lost'
  BY <1>2, <1>5, <1>14, LostStays
<1>16. Dooms' /\ \A m, n : Excused(m) => Excused(n)'
  BY <1>4, NotDoomed
<1>17. ~Lowered' => Whole'
  <2>1. ~Lowered' => ~Lowered
    BY <1>2, LoweredStays
  <2>2. ASSUME NEW n \in Names, NEW r \in Recs(n)' PROVE \E m \in Names : r \in Recs(m)
    BY <1>5, <1>6, <1>8, <2>2
  <2>3. Whole => Whole'
    BY <1>2, <1>5, <1>14, <1>16, <2>2, WholeStays
  <2> QED BY <1>2, <2>1, <2>3
<1> QED BY <1>9, <1>11, <1>13, <1>15, <1>16, <1>17 DEF Removal

LEMMA AppendRecordRemoval ==
  ASSUME NEW gz \in BOOLEAN, Ready(gz), [Next]_vars, NEW w \in Writers, NEW k \in 0 .. record,
         AppendRecord(w, k)
  PROVE  Removal'
<1>1. /\ wpc[w] = "append" /\ base' = base /\ opened' = opened /\ cfg' = cfg
      /\ wpc' = [wpc EXCEPT ![w] = "idle"]
  BY DEF AppendRecord, Goto
<1>2. /\ IInv /\ KInv /\ Dated /\ Unhurt /\ SameKind(gz) /\ aged \in Nat
      /\ Younger /\ Far /\ Lost /\ (~Lowered => Whole)
  BY DEF Ready, Removal
<1>3. w = base /\ base # 0
  BY <1>1, <1>2, InWrite
<1>4. (\A S : Here(S) <=> "append" \in S) /\ \A S : Here(S)' <=> "idle" \in S
  BY <1>1, <1>2, <1>3, Turns
<1>5. /\ Recs(Live)' = Recs(Live) \union (last + 1 .. last + k) /\ LiveLen' = LiveLen + k
      /\ Still(BackupNames) /\ last' = last + k
  BY <1>2, AppendEffect DEF Unhurt
<1>6. LiveLen \in Nat /\ LiveLen' \in Nat /\ k \in Nat /\ last \in Nat
  <2>1. LiveLen \in Nat
    BY <1>2, Facts
  <2>2. record \in Nat /\ last \in Nat
    BY <1>2 DEF IInv, Typed
  <2> QED BY <1>5, <2>1, <2>2
<1>7. ASSUME NEW n \in BackupNames PROVE Recs(n)' = Recs(n) /\ Stamp(n)' = Stamp(n)
  BY <1>5 DEF Still
<1>8. Staged'
  BY <1>4, StagedElse
<1>9. Dooms' /\ \A m, n : Excused(m) => Excused(n)'
  BY <1>4, NotDoomed
<1>10. Units(Restarts)' = Units(Restarts) /\ Units(Restarts) \in Nat
  BY <1>1, <1>2, RestartsSame, Grow
<1>11. ASSUME NEW n \in Names, NEW y \in Recs(n)' PROVE y \in Recs(n) \/ (n = Live /\ y \in last + 1 .. last + k)
  BY <1>5, <1>7, <1>11, NameFacts
<1>12. Younger'
  <2> SUFFICES ASSUME NEW m \in Names, NEW n \in Names, Older(m, n), NEW y \in Recs(n)'
               PROVE  Stamp(m)' < y
    BY DEF Younger, Older
  <2>1. m \in BackupNames /\ Stamp(m)' = Stamp(m) /\ Stamp(m) \in 0 .. last
    BY <1>2, <1>7, NameFacts, DatedNames DEF Older
  <2>2. CASE y \in last + 1 .. last + k
    BY <1>6, <2>1, <2>2
  <2>3. CASE y \in Recs(n)
    BY <1>2, <2>1, <2>3 DEF Younger
  <2> QED BY <1>11, <2>2, <2>3
<1>13. Far'
  <2>1. ASSUME NEW n \in BackupNames
        PROVE  /\ Recs(n)' \subseteq Recs(n) /\ Reach(n) \in Nat /\ Reach(n)' \in Nat
               /\ Reach(n)' <= Reach(n) + (Units(Restarts)' - Units(Restarts)) + (last' - last)
    <3>1. ~Full(n) /\ ~Here({"shift", "move"}) /\ ~Full(n)'
      BY <1>4 DEF Full
    <3>2. Reach(n) = Units(n[1] - 1) + Share /\ Units(n[1] - 1) \in Nat /\ Reach(n) \in Nat
      BY <1>3, <3>1, ReachHere
    <3>3. Reach(n)' <= Units(n[1] - 1) + Share' /\ Reach(n)' \in Nat /\ Share' \in Nat
      BY <1>6, <3>1, ReachThere
    <3>4. Share' <= Share + k
      <4>1. Share' = IF LiveLen' < Worth THEN LiveLen' ELSE Worth
        BY <1>6, ReachThere
      <4>2. Share = IF LiveLen < Worth THEN LiveLen ELSE Worth
        BY DEF Share
      <4>3. Worth \in Nat
        BY <1>2, WorthFacts
      <4> QED BY <1>5, <1>6, <4>1, <4>2, <4>3
    <3>5. Share \in Nat
      BY ReachHere
    <3> QED BY <1>5, <1>6, <1>7, <1>10, <3>2, <3>3, <3>4, <3>5
  <2>2. opened' # 0 /\ base' # 0
    BY <1>1, <1>2, <1>3, FileFacts DEF IInv, Typed
  <2> QED BY <1>2, <2>1, <2>2, FarStays
<1>14. \A x \in Stored : x \in Stored'
  <2>1. \A n \in Names : Recs(n) \subseteq Recs(n)'
    BY <1>5, <1>7, NameFacts
  <2> QED BY <1>2, <2>1, StoredFacts
<1>15. \A x \in last + 1 .. last' : x \in Stored'
  BY <1>2, <1>5, NameFacts, StoredFacts
<1>16. Lost'
  BY <1>2, <1>14, <1>15, LostStays
<1>17. ~Lowered' => Whole'
  <2> SUFFICES ASSUME ~Lowered', NEW n \in Names, NEW r \in Recs(n)', NEW q \in r .. last', q \notin Stored'
               PROVE  q <= aged' /\ Excused(n)'
    BY DEF Whole
  <2>1. Whole
    BY <1>2, LoweredStays
  <2>2. q \notin last + 1 .. last + k /\ q \notin Stored
    BY <1>5, <1>14, <1>15
  <2>3. r \in Nat /\ (r \in Recs(n) \/ r \in last + 1 .. last + k)
    <3>1. r \in Recs(n) \/ r \in last + 1 .. last + k
      BY <1>11
    <3>2. r \in Recs(n) => r \in Nat
      BY <1>2, DatedNames
    <3> QED BY <1>6, <3>1, <3>2
  <2>4. q \in r .. last + k
    BY <1>5
  <2>5. q \in r .. last /\ r \in Recs(n)
    BY <1>6, <2>2, <2>3, <2>4
  <2>6. q <= aged /\ Excused(n)
    BY <2>1, <2>2, <2>5 DEF Whole
  <2>7. aged' >= aged /\ aged' \in Nat
    BY <1>2, Grow
  <2>8. q <= aged'
    BY <1>2, <1>6, <2>3, <2>5, <2>6, <2>7
  <2> QED BY <1>9, <2>6, <2>8
<1> QED BY <1>8, <1>9, <1>12, <1>13, <1>16, <1>17 DEF Removal

-----------------------------------------------------------------------------

LEMMA StepRemovalInv ==
  ASSUME IInv, KInv, Dated, aged \in Nat, RemovalInv, [Next]_vars PROVE RemovalInv'
<1> SUFFICES ASSUME NEW gz \in BOOLEAN, Unhurt', SameKind(gz)' PROVE Removal'
  BY DEF RemovalInv
<1>1. Unhurt /\ SameKind(gz)
  BY UsedStays DEF Unhurt
<1>2. Ready(gz)
  BY <1>1 DEF RemovalInv, Ready
<1>3. "failed" \notin disturbed' /\ "halfway" \notin disturbed'
  BY DEF Unhurt
<1>4. ASSUME NEW w \in Writers, NEW ok \in Outcomes,
             \/ DropOldest(w, ok) \/ Shift(w, ok) \/ Move(w, ok) \/ Compress(w, ok)
             \/ RemoveTmp(w, ok) \/ RemoveOld(w, ok)
      PROVE  Removal'
  <2>1. ok \in BOOLEAN
    BY DEF Outcomes
  <2>2. ok = TRUE
    BY <1>3, <1>4, <2>1
       DEF DropOldest, Shift, ShiftOne, Move, MoveTo, Compress, RemoveTmp, RemoveOld, Unless
  <2> QED BY <1>2, <1>4, <2>2, DropRemoval, ShiftRemoval, MoveRemoval, CompressRemoval,
             RemoveTmpRemoval, RemoveOldRemoval
<1>5. ASSUME NEW w \in Writers, WriterStep(w) PROVE Removal'
  <2>1. ~ReopenFails(w) /\ ~CloseFails(w) /\ ~CreateGzFails(w)
    BY <1>3 DEF ReopenFails, CloseFails, CreateGzFails, Unless
  <2> QED BY <1>2, <1>4, <1>5, <2>1, WriteRemoval, CreateGzRemoval, PruneRemoval, ReopenRemoval,
             AppendRecordRemoval
          DEF WriterStep
<1> QED BY <1>2, <1>5, OpenFirstRemoval, OpenNextRemoval, SwapAndCloseRemoval, CrashRemoval, RestRemoval DEF Next

LEMMA InitRemovalInv == Init => RemovalInv /\ Dated /\ aged \in Nat
<1> SUFFICES ASSUME Init PROVE RemovalInv /\ Dated /\ aged \in Nat
  OBVIOUS
<1>1. \A n \in Names : Recs(n) = {}
  BY DEF Init, Recs
<1>2. Dated /\ aged \in Nat /\ last = 0 /\ base = 0 /\ opened = 0
  BY InitDated DEF Init
<1>3. Stored = {}
  BY <1>1, StoredHere
<1>4. Younger
  BY <1>1 DEF Younger
<1>5. Staged
  BY <1>2 DEF Staged, Here
<1>6. Far
  BY <1>1, <1>2, NameFacts DEF Far
<1>7. Lost /\ Whole /\ Dooms
  BY <1>1, <1>2, <1>3 DEF Lost, Whole, Dooms, Here
<1> QED BY <1>2, <1>4, <1>5, <1>6, <1>7 DEF RemovalInv, Removal

LEMMA AlwaysRemoval == Spec => [](IInv /\ KInv /\ Dated /\ aged \in Nat /\ RemovalInv)
<1> DEFINE All == IInv /\ KInv /\ Dated /\ aged \in Nat /\ RemovalInv
<1>1. Init => All
  BY InitIInv, InitKInv, InitRemovalInv
<1>2. All /\ [Next]_vars => All'
  <2> SUFFICES ASSUME All, [Next]_vars PROVE All'
    OBVIOUS
  <2>1. IInv' /\ KInv'
    BY NextIInv, StepKInv
  <2>2. Dated'
    BY StepDated
  <2>3. aged' \in Nat
    BY Grow
  <2>4. RemovalInv'
    BY StepRemovalInv
  <2> QED BY <2>1, <2>2, <2>3, <2>4
<1> HIDE DEF All
<1>3. Spec => []All
  BY <1>1, <1>2, PTL DEF Spec
<1> QED BY <1>3 DEF All

(* The files hold every unit since the first one that they hold, except,     *)
(* while pruneAge removes one name after the other or after a crash in its   *)
(* middle, units older than MaxAgeDays (rotate.go:82-142).                   *)
THEOREM RotateNoHole == Spec => []NoHole
<1>1. ASSUME IInv, RemovalInv PROVE NoHole
  <2> SUFFICES ASSUME Undisturbed, ~Lowered, NEW r \in Stored, NEW q \in r .. last, q \notin Stored
               PROVE  q <= aged /\ ("halfpruned" \in disturbed \/ \E w \in Writers : wpc[w] = "remove")
    BY DEF NoHole
  <2>1. Whole
    BY <1>1 DEF RemovalInv, Undisturbed, Unhurt, Removal
  <2>2. PICK n \in Names : r \in Recs(n)
    BY StoredHere
  <2>3. q <= aged /\ Excused(n)
    BY <2>1, <2>2 DEF Whole
  <2>4. Here({"remove"}) => base \in Writers /\ wpc[base] = "remove"
    BY <1>1, FileFacts DEF Here, IInv, Typed, Writers
  <2> QED BY <2>3, <2>4 DEF Excused
<1> QED BY <1>1, AlwaysRemoval, PTL

(* No unit is removed while it is among the newest that MaxBackups files are *)
(* sure to hold, less one file for every restart (rotate.go:55-142).         *)
THEOREM RotateRetention == Spec => []Retention
<1>1. ASSUME IInv, aged \in Nat, RemovalInv PROVE Retention
  <2> SUFFICES ASSUME Undisturbed, NEW r \in 1 .. last, r > aged, r \notin Stored,
                      \A w \in 1 .. opened : last - r + Restarts * Worth < cfg[w].backups * Worth
               PROVE  FALSE
    BY DEF Retention
  <2>1. PICK w \in 1 .. opened : Since(r) >= Units(cfg[w].backups)
    BY <1>1 DEF RemovalInv, Undisturbed, Unhurt, Removal, Lost
  <2>2. Since(r) < Units(cfg[w].backups)
    BY <2>1 DEF Since, Units
  <2>3. Units(cfg[w].backups) \in Nat
    <3>1. w \in Writers /\ opened \in Nat
      BY <1>1, FileFacts DEF IInv, Typed, Writers
    <3> QED BY <1>1, <3>1, ConfigFacts, UnitsFacts DEF IInv
  <2>4. Since(r) \in Int
    <3>1. last \in Nat /\ opened \in Nat
      BY <1>1 DEF IInv, Typed
    <3>2. Restarts \in Nat
      BY <3>1 DEF Restarts
    <3>3. Units(Restarts) \in Nat
      BY <1>1, <3>2, UnitsFacts
    <3> QED BY <3>1, <3>3 DEF Since
  <2> QED BY <2>1, <2>2, <2>3, <2>4
<1> QED BY <1>1, AlwaysRemoval, PTL

-----------------------------------------------------------------------------
(* The rest of the type: no file is longer, and no writer takes the live     *)
(* file to be longer, than has been written; and a record that is to be      *)
(* written is one that may be.                                               *)
Counters ==
  /\ \A f \in Files : Len(data[f].recs) <= last
  /\ \A w \in Writers : /\ size[w] <= last /\ slot[w] <= MaxSlot
                        /\ wpc[w] \in {"none", "idle", "closed"} \/ last + record <= MaxWritten
  /\ record <= Longest /\ last <= MaxWritten /\ aged \in Nat /\ aged <= last

LEMMA InitCounters == Init => Counters
<1> SUFFICES ASSUME Init PROVE Counters
  OBVIOUS
<1>1. /\ last = 0 /\ aged = 0 /\ \A f \in Files : Len(data[f].recs) = 0
      /\ \A w \in Writers : size[w] = 0 /\ slot[w] = 0 /\ wpc[w] = "none"
  BY FileFacts DEF Init
<1>2. record = 0
  BY DEF Init
<1> QED BY <1>1, <1>2, Bounds DEF Counters

(* Steps that write nothing and count nothing. *)
LEMMA CountersKept ==
  ASSUME IInv, Counters, last' = last, aged' = aged, record' <= Longest,
         \A f \in Files : data'[f] = data[f] \/ data'[f].recs = <<>>,
         \A w \in Writers : /\ size'[w] = size[w] \/ size'[w] <= last
                            /\ slot'[w] = slot[w] \/ slot'[w] <= MaxSlot
                            /\ wpc'[w] \in {"none", "idle", "closed"} \/ last + record' <= MaxWritten
  PROVE  Counters'
<1>1. last \in Nat
  BY DEF IInv, Typed
<1>2. ASSUME NEW f \in Files PROVE Len(data'[f].recs) <= last
  <2>1. CASE data'[f] = data[f]
    BY <2>1 DEF Counters
  <2>2. CASE data'[f].recs = <<>>
    BY <1>1, <2>2
  <2> QED BY <1>2, <2>1, <2>2
<1> QED BY <1>1, <1>2 DEF Counters

LEMMA StepCounters ==
  ASSUME IInv, Counters, [Next]_vars PROVE Counters'
<1>0. Typed /\ DiskInv /\ last \in Nat /\ 0 \notin Files /\ 0 \notin Writers
  BY FileFacts DEF IInv, Typed
<1>1. Typed => last \in Nat /\ record \in Nat /\ wpc \in [Writers -> WriterPC] /\ size \in [Writers -> Nat] /\ slot \in [Writers -> Nat]
  BY DEF Typed
(* The writer in use moves on in a rotation. *)
<1>2. ASSUME NEW w \in Writers, wpc[w] \notin {"none", "idle", "closed"}, NEW p, wpc' = [wpc EXCEPT ![w] = p],
             last' = last, aged' = aged, size' = size, record' = record,
             \A f \in Files : data'[f] = data[f] \/ data'[f].recs = <<>>,
             slot'[w] <= MaxSlot, \A v \in Writers : v # w => slot'[v] = slot[v]
      PROVE  Counters'
  <2>1. \A v \in Writers : v # w => wpc'[v] = wpc[v]
    BY <1>0, <1>1, <1>2
  <2>2. last + record <= MaxWritten /\ record <= Longest
    BY <1>2 DEF Counters
  <2>3. \A v \in Writers : slot'[v] = slot[v] \/ slot'[v] <= MaxSlot
    BY <1>2
  <2> QED BY <1>2, <2>2, <2>3, CountersKept
<1>3. \A d, h : data' = Swept(d, h, data) => \A f \in Files : data'[f] = data[f] \/ data'[f].recs = <<>>
  BY SweptFacts, FileFacts
<1>4. ASSUME NEW w \in Writers, Write(w) PROVE Counters'
  <2>1. /\ last' = last /\ aged' = aged /\ size' = size /\ slot' = slot
        /\ \A f \in Files : data'[f] = data[f] \/ data'[f].recs = <<>>
    BY <1>3, <1>4 DEF Write, WriteOr
  <2>2. last + record' <= MaxWritten /\ record' <= Longest
    BY <1>4, Bounds DEF Write, WriteOr
  <2> QED BY <2>1, <2>2, CountersKept
(* A call fails: what is counted stays. *)
<1>21. ASSUME NEW w \in Writers, CloseFails(w) PROVE Counters'
  <2>1. /\ last' = last /\ aged' = aged /\ size' = size /\ slot' = slot /\ wpc' = wpc /\ record' = record
        /\ \A f \in Files : data'[f] = data[f] \/ data'[f].recs = <<>>
    BY <1>3, <1>21 DEF CloseFails, doing
  <2> QED BY <2>1, CountersKept DEF Counters
<1>22. ASSUME NEW w \in Writers, CreateGzFails(w) PROVE Counters'
  BY <1>2, <1>22 DEF CreateGzFails, disk, doing, Goto, Counters
<1>5. ASSUME NEW w \in Writers, NEW ok \in Outcomes, DropOldest(w, ok) PROVE Counters'
  <2>1. cfg[w].backups - 1 <= MaxSlot
    BY <1>0, ConfigFacts
  <2>2. slot'[w] = cfg[w].backups - 1 /\ \A v \in Writers : v # w => slot'[v] = slot[v]
    BY <1>0, <1>1, <1>5 DEF DropOldest
  <2>3. PICK p : wpc' = [wpc EXCEPT ![w] = p]
    BY <1>5 DEF DropOldest, Goto
  <2> QED BY <1>2, <1>3, <1>5, <2>1, <2>2, <2>3 DEF DropOldest, SetDir, doing
<1>6. ASSUME NEW w \in Writers, CreateGz(w) PROVE Counters'
  <2>1. \A f \in Files : data'[f] = data[f] \/ data'[f].recs = <<>>
    <3> DEFINE new == [recs |-> <<>>, mtime |-> last]
    <3>1. PICK f \in Files : data' = [data EXCEPT ![f] = new]
      BY <1>0, <1>6, NameFacts DEF CreateGz, Gz, Unreferenced, Typed
    <3>2. \A g \in Files : data'[g] = data[g] \/ data'[g] = new
      <4> HIDE DEF new
      <4> QED BY <1>0, <3>1 DEF Typed
    <3> QED BY <3>2
  <2> QED BY <1>2, <1>6, <2>1 DEF CreateGz, doing, Goto, Counters
<1>7. ASSUME NEW w \in Writers, NEW ok \in Outcomes, RemoveTmp(w, ok) PROVE Counters'
  <2>1. PICK p : wpc' = [wpc EXCEPT ![w] = p]
    BY <1>7 DEF RemoveTmp, Goto
  <2> QED BY <1>2, <1>3, <1>7, <2>1 DEF RemoveTmp, SetDir, doing, Counters
<1>23. ASSUME NEW w \in Writers, NEW ok \in Outcomes, Prune(w, ok) PROVE Counters'
  <2>1. PICK p : wpc' = [wpc EXCEPT ![w] = p]
    BY <1>23 DEF Prune, PruneThose, Goto
  <2> QED BY <1>2, <1>23, <2>1 DEF Prune, PruneThose, disk, Counters
<1>24. ASSUME NEW w \in Writers, NEW ok \in Outcomes, RemoveOld(w, ok) PROVE Counters'
  <2>1. PICK p : wpc' = [wpc EXCEPT ![w] = p]
    BY <1>24 DEF RemoveOld, Goto
  <2>2. \A f \in Files : data'[f] = data[f] \/ data'[f].recs = <<>>
    BY <1>3, <1>24 DEF RemoveOld, SetDir
  <2> QED BY <1>2, <1>24, <2>1, <2>2 DEF RemoveOld, Counters
(* A file is opened: the writer knows its length. *)
<1>8. ASSUME NEW w \in Writers, OpenLive(w), fd[w] = 0, last' = last, aged' = aged, slot' = slot,
             record' = record,
             \A v \in Writers : wpc'[v] \in {"none", "idle", "closed"} \/ last + record <= MaxWritten
      PROVE  Counters'
  <2>1. data' = data /\ fd'[w] \in Files /\ size'[w] = Len(data[fd'[w]].recs)
    BY <1>0, <1>8, Opens
  <2>2. \A v \in Writers : v # w => size'[v] = size[v]
    BY <1>0, <1>1, <1>8 DEF OpenLive
  <2>3. \A v \in Writers : size'[v] = size[v] \/ size'[v] <= last
    BY <2>1, <2>2 DEF Counters
  <2>4. record' <= Longest
    BY <1>8 DEF Counters
  <2> QED BY <1>8, <2>1, <2>3, <2>4, CountersKept
<1>9. ASSUME NEW w \in Writers, Reopen(w) PROVE Counters'
  <2>1. fd[w] = 0
    BY <1>9, InWrite DEF Reopen
  <2>2. last + record <= MaxWritten
    BY <1>9 DEF Reopen, Counters
  <2> QED BY <1>8, <1>9, <2>1, <2>2 DEF Reopen, doing
<1>10. ASSUME NEW w \in Writers, ReopenFails(w) PROVE Counters'
  <2>1. /\ last' = last /\ aged' = aged /\ size' = size /\ slot' = slot /\ data' = data /\ record' = 0
        /\ wpc[w] = "reopen" /\ wpc' = [wpc EXCEPT ![w] = "idle"]
    BY <1>10 DEF ReopenFails, disk, Goto
  <2>2. w = base
    BY <2>1, InWrite
  <2>3. \A v \in Writers : wpc'[v] \in {"none", "idle", "closed"}
    BY <1>0, <1>1, <2>1, <2>2, InWrite
  <2> QED BY <2>1, <2>3, Bounds, CountersKept
<1>11. ASSUME NEW w \in Writers, NEW n \in 0 .. record, AppendRecord(w, n) PROVE Counters'
  <2>1. /\ wpc[w] = "append" /\ last' = last + n /\ wpc' = [wpc EXCEPT ![w] = "idle"]
        /\ size' = [size EXCEPT ![w] = @ + n] /\ record' = 0
        /\ slot' = slot /\ aged' = aged
    BY <1>11 DEF AppendRecord, Goto
  <2>2. w = base /\ fd[w] \in Files
    BY <1>0, <2>1, InWrite DEF IInv, Places, Place, Typed
  <2>3. n \in Nat /\ last + record <= MaxWritten /\ record \in Nat /\ n <= record
    <3>1. last + record <= MaxWritten
      BY <2>1 DEF Counters
    <3> QED BY <1>0, <1>1, <3>1
  <2>4. /\ Len(data'[fd[w]].recs) = Len(data[fd[w]].recs) + n
        /\ \A e \in Files : e # fd[w] => data'[e] = data[e]
    BY <1>0, <1>11, <2>1, <2>2, <2>3, AppendFacts
  <2>5. \A g \in Files : Len(data[g].recs) \in Nat /\ Len(data[g].recs) <= last
    BY <1>0 DEF Typed, File, Counters
  <2>6. \A g \in Files : Len(data'[g].recs) <= last + n
    BY <1>0, <2>2, <2>3, <2>4, <2>5
  <2>7. last + n <= MaxWritten /\ aged <= last + n /\ aged \in Nat
    BY <1>0, <2>3, Bounds DEF Counters
  <2>8. \A v \in Writers : wpc'[v] \in {"none", "idle", "closed"}
    BY <1>0, <1>1, <2>1, <2>2, InWrite
  <2>9. \A v \in Writers : size'[v] <= last + n
    BY <1>0, <1>1, <2>1, <2>3 DEF Counters
  <2> QED BY <2>1, <2>6, <2>7, <2>8, <2>9, Bounds DEF Counters
<1>12. ASSUME NEW w \in Writers, NEW ok \in Outcomes, Shift(w, ok) PROVE Counters'
  <2>1. slot'[w] = slot[w] - 1 /\ \A v \in Writers : v # w => slot'[v] = slot[v]
    BY <1>0, <1>1, <1>12 DEF Shift, ShiftOne
  <2>2. slot'[w] <= MaxSlot
    BY <1>0, <1>1, <2>1, Bounds DEF Counters
  <2>3. PICK p : wpc' = [wpc EXCEPT ![w] = p]
    BY <1>12 DEF Shift, ShiftOne, Goto
  <2> QED BY <1>2, <1>3, <1>12, <2>1, <2>2, <2>3 DEF Shift, ShiftOne, SetDir, doing
<1>13. ASSUME NEW w \in Writers, NEW ok \in Outcomes, Move(w, ok) PROVE Counters'
  <2>1. PICK p : wpc' = [wpc EXCEPT ![w] = p]
    BY <1>13 DEF Move, MoveTo, Goto
  <2> QED BY <1>2, <1>3, <1>13, <2>1 DEF Move, MoveTo, SetDir, doing, Counters
<1>14. ASSUME NEW w \in Writers, NEW ok \in Outcomes, Compress(w, ok) PROVE Counters'
  <2>1. /\ wpc[w] = "compress" /\ last' = last /\ last + record' <= MaxWritten /\ aged' = aged
        /\ slot' = slot /\ size' = size /\ record' = record /\ record' <= Longest
    BY <1>14 DEF Compress, doing, Counters
  <2>2. dir[Gz] \in Files
    BY <1>0, <2>1, NameFacts DEF IInv, Places, Place, Typed
  <2>3. CASE data' = data
    BY <2>1, <2>3, CountersKept
  <2>4. CASE data' # data
    <3> DEFINE f == dir[Gz]
               e == dir[Tmp]
    <3>1. e # 0 /\ data' = [data EXCEPT ![f].recs = data[e].recs]
      BY <1>14, <2>4 DEF Compress, Gz
    <3>2. f \in Files /\ e \in Files /\ data[f] \in File
      BY <1>0, <2>2, <3>1, NameFacts DEF Typed
    <3> HIDE DEF f, e
    <3>3. \A g \in Files : data'[g].recs = IF g = f THEN data[e].recs ELSE data[g].recs
      BY <1>0, <3>1, <3>2 DEF Typed, File
    <3>4. \A g \in Files : Len(data'[g].recs) <= last
      BY <3>2, <3>3 DEF Counters
    <3> QED BY <2>1, <3>4 DEF Counters
  <2> QED BY <2>3, <2>4
<1>15. CASE OpenFirst \/ OpenNext
  <2> DEFINE w == opened + 1
  <2>1. w \in Writers /\ OpenLive(w) /\ wpc' = [wpc EXCEPT ![w] = "idle"]
    <3>1. opened \in Nat /\ MaxWriters \in Nat /\ opened < MaxWriters
      BY <1>0, <1>15, FileFacts DEF OpenFirst, OpenNext, Typed
    <3>2. w \in Writers
      BY <3>1 DEF Writers
    <3> QED BY <1>15, <3>2 DEF OpenFirst, OpenNext, Goto
  <2>2. fd[w] = 0
    BY <1>0, <1>15, <2>1 DEF IInv, Places, Place, OpenFirst, OpenNext, Typed, Writers
  <2> HIDE DEF w
  <2>3. \A v \in Writers : wpc'[v] \in {"none", "idle", "closed"} \/ last + record <= MaxWritten
    BY <1>0, <1>1, <2>1 DEF Counters
  <2>4. last' = last /\ aged' = aged /\ slot' = slot /\ record' = record
    BY <1>15 DEF OpenFirst, OpenNext, doing
  <2> QED BY <1>8, <2>1, <2>2, <2>3, <2>4
<1>16. CASE SwapAndClose
  <2>1. \A v \in Writers : wpc'[v] = wpc[v] \/ wpc'[v] = "closed"
    BY <1>0, <1>1, <1>16 DEF SwapAndClose, Goto
  <2>2. \A v \in Writers : wpc'[v] \in {"none", "idle", "closed"} \/ last + record <= MaxWritten
    BY <2>1 DEF Counters
  <2>3. record' = record /\ record' <= Longest
    BY <1>16 DEF SwapAndClose, doing, Counters
  <2> QED BY <1>3, <1>16, <2>2, <2>3, CountersKept DEF SwapAndClose
<1>17. CASE Crash
  <2>1. \A v \in Writers : wpc'[v] \in {"none", "idle", "closed"}
    BY <1>17 DEF Crash
  <2>2. record' = 0 /\ record' <= Longest
    BY <1>17, Bounds DEF Crash
  <2> QED BY <1>3, <1>17, <2>1, <2>2, CountersKept DEF Crash
<1>18. CASE Age
  BY <1>0, <1>18, Bounds DEF Age, disk, writer, doing, Counters
<1>19. CASE UNCHANGED vars
  BY <1>19 DEF vars, Counters
<1>20. ASSUME NEW w \in Writers, WriterStep(w) PROVE Counters'
  BY <1>4, <1>5, <1>6, <1>7, <1>9, <1>10, <1>11, <1>12, <1>13, <1>14, <1>20, <1>21, <1>22, <1>23, <1>24
     DEF WriterStep
<1> QED BY <1>15, <1>16, <1>17, <1>18, <1>19, <1>20 DEF Next

LEMMA SeqIn ==
  ASSUME NEW q \in Seq(Nat), NEW S, \A i \in DOMAIN q : q[i] \in S
  PROVE  q \in Seq(S)
<1>1. \A i \in 1 .. Len(q) : q[i] \in S
  OBVIOUS
<1> QED BY <1>1

(* No variable leaves its type: the loop variable of a rotation is a slot,   *)
(* a writer takes the live file to be no longer than what has been written,  *)
(* and no file holds a unit that was not written (TypeOK; rotate.go:19-142). *)
THEOREM RotateTypeOK == Spec => []TypeOK
<1>1. ASSUME IInv, Dated, Counters PROVE TypeOK
  <2>1. /\ Typed /\ last \in Nat /\ last <= MaxWritten /\ aged \in Nat /\ aged <= last
        /\ record \in Nat /\ record <= Longest
    BY <1>1 DEF IInv, Typed, Counters
  <2>2. ASSUME NEW f \in Files PROVE data[f] \in [recs : Seq(1 .. MaxWritten), mtime : 0 .. MaxWritten]
    <3>1. data[f] \in File /\ data[f].mtime \in 0 .. last
          /\ \A i \in DOMAIN data[f].recs : data[f].recs[i] \in 1 .. data[f].mtime
      BY <1>1, <2>1 DEF Typed, Dated
    <3>2. data[f].recs \in Seq(Nat) /\ \A i \in DOMAIN data[f].recs : data[f].recs[i] \in 1 .. MaxWritten
      BY <2>1, <3>1, Bounds DEF File
    <3>3. data[f].recs \in Seq(1 .. MaxWritten)
      BY <3>2, SeqIn
    <3>4. data[f].mtime \in 0 .. MaxWritten
      BY <2>1, <3>1, Bounds
    <3> QED BY <3>1, <3>3, <3>4 DEF File
  <2>3. data \in [Files -> [recs : Seq(1 .. MaxWritten), mtime : 0 .. MaxWritten]]
    BY <2>1, <2>2 DEF Typed
  <2>4. /\ size \in [Writers -> 0 .. MaxWritten] /\ slot \in [Writers -> 0 .. MaxSlot]
        /\ last \in 0 .. MaxWritten /\ aged \in 0 .. MaxWritten /\ record \in 0 .. Longest
    BY <1>1, <2>1, Bounds DEF Typed, Counters
  <2>5. opened \in 0 .. MaxWriters /\ base \in 0 .. MaxWriters
    BY <2>1, Bounds DEF Typed
  <2> QED BY <2>1, <2>3, <2>4, <2>5 DEF Typed, TypeOK
<1>2. Init => IInv /\ Dated /\ Counters
  BY InitIInv, InitDated, InitCounters
<1>3. IInv /\ Dated /\ Counters /\ [Next]_vars => (IInv /\ Dated /\ Counters)'
  BY NextIInv, StepDated, StepCounters
<1> QED BY <1>1, <1>2, <1>3, PTL DEF Spec

=============================================================================

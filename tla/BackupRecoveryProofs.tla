------------------------- MODULE BackupRecoveryProofs -------------------------
(***************************************************************************)
(* Theorems about BackupRecovery, for any files, number of backups and     *)
(* restores, and number of failed commands, power cuts and lost hosts.     *)
(***************************************************************************)
EXTENDS BackupRecovery, TLAPS

Whole(c) == c.rows \subseteq c.files \union c.lost

\* What a backup under way has is as good as an archive.
WorkWhole ==
  /\ bk = "copy" => work.rows \subseteq files \union work.lost
  /\ bk = "seal" => Whole(work)
  /\ bk \in {"copy", "seal"} => made < MaxBackups

\* So is what a restore has unpacked.
SourceWhole ==
  rs \in {"close", "config", "db", "data", "open"} => Whole(src)

\* Between the database and the data of a restore, the rows have their files
\* in the directory or in the archive; at all other times, and if the web
\* server runs, in the directory.
SiteWhole ==
  /\ rs # "data" \/ web = "up" => rows \subseteq files \union lost
  /\ rs = "data" => rows \subseteq files \union src.files \union lost

\* No restore runs while the host is gone or dr-recover.sh fetches.
OneRecovery ==
  /\ host = "gone" => rs = "idle" /\ dr = "idle"
  /\ dr = "fetch" => rs = "idle"

ArchivesWhole == \A i \in 1..made : Whole(arch[i])

IInv ==
  /\ TypeOK
  /\ WorkWhole /\ SourceWhole /\ SiteWhole /\ OneRecovery /\ ArchivesWhole

-----------------------------------------------------------------------------
(* Types *)

LEMMA ReportedIsBoolean ==
  ASSUME Quiet \/ Loud
  PROVE  reported' \in BOOLEAN
  BY DEF Quiet, Loud

LEMMA TroubleTypes ==
  ASSUME TypeOK, Trouble
  PROVE  restores' \in 0..MaxRestores /\ troubles' \in 0..MaxTroubles
  BY RecoveryAssumption DEF TypeOK, Trouble

LEMMA NothingIsContents == Nothing \in Contents
  BY DEF Nothing, Contents, Flags, Members

\* A damaged archive is one all the same, and as whole as it was: the files
\* that are missing are given up.
LEMMA DamagedIsWhole ==
  ASSUME NEW c \in Contents, NEW d \in Damaged(c)
  PROVE  d \in Contents /\ (Whole(c) => Whole(d))
<1>1. PICK r \in SUBSET c.rows, f \in SUBSET c.files, p \in {c.flag, "none"},
           h \in SUBSET c.holds :
        d = Cut(c, r, f, p, h)
  BY DEF Damaged
<1>2. /\ d.rows = r /\ d.files = f /\ d.flag = p /\ d.holds = h
      /\ d.lost = c.lost \union (c.files \ f) /\ d.readable = c.readable
      /\ d = [rows |-> r, files |-> f, flag |-> p, holds |-> h,
              lost |-> c.lost \union (c.files \ f), readable |-> c.readable]
  BY <1>1 DEF Cut, Contents
<1>3. d \in Contents
  BY <1>2 DEF Contents, Flags
<1>4. Whole(c) => Whole(d)
  BY <1>2 DEF Whole
<1> QED
  BY <1>3, <1>4

LEMMA ReadableIsWhole ==
  ASSUME NEW c \in Contents, NEW x \in {"yes", "no"}
  PROVE  /\ [c EXCEPT !.readable = x] \in Contents
         /\ Whole(c) => Whole([c EXCEPT !.readable = x])
  BY DEF Contents, Whole

\* What Seal and a power cut make the newest archive of.
Sealable(c) == c \in Contents /\ (Whole(work) => Whole(c))

LEMMA SealSeals ==
  ASSUME TypeOK, Seal
  PROVE  \E c : Sealable(c) /\ Sealed(c)
<1>1. CASE Sealed([work EXCEPT !.readable = "yes"])
  BY <1>1, ReadableIsWhole DEF TypeOK, Sealable
<1>2. CASE \E c \in Damaged(work), r \in {"yes", "no"} :
             Sealed([c EXCEPT !.readable = r])
  <2>1. PICK c \in Damaged(work), r \in {"yes", "no"} :
          Sealed([c EXCEPT !.readable = r])
    BY <1>2
  <2>2. c \in Contents /\ (Whole(work) => Whole(c))
    BY DamagedIsWhole DEF TypeOK
  <2>3. Sealable([c EXCEPT !.readable = r])
    BY <2>2, ReadableIsWhole DEF Sealable
  <2> QED
    BY <2>1, <2>3
<1>3. CASE Sealed(work)
  BY <1>3 DEF TypeOK, Sealable
<1> QED
  BY <1>1, <1>2, <1>3 DEF Seal

LEMMA SealedTypes ==
  ASSUME TypeOK, made < MaxBackups, NEW c \in Contents, Sealed(c)
  PROVE  /\ arch' \in [Ids -> Contents]
         /\ made' \in 0..MaxBackups
         /\ local' \subseteq 1..made'
         /\ made' = made + 1
         /\ arch'[made + 1] = c
         /\ \A i \in 1..made : arch'[i] = arch[i]
<1>1. made + 1 \in Ids /\ made' = made + 1 /\ made \in Nat
  BY RecoveryAssumption DEF TypeOK, Ids, Sealed
<1>2. arch' = [arch EXCEPT ![made + 1] = c]
  BY DEF Sealed
<1>3. arch' \in [Ids -> Contents] /\ arch'[made + 1] = c
  BY <1>1, <1>2 DEF TypeOK
<1>4. local' \subseteq 1..made'
  BY <1>1 DEF TypeOK, Sealed
<1>5. \A i \in 1..made : arch'[i] = arch[i]
  BY <1>1, <1>2 DEF TypeOK, Ids
<1>6. made' \in 0..MaxBackups
  BY <1>1, RecoveryAssumption DEF Ids
<1> QED
  BY <1>1, <1>3, <1>4, <1>5, <1>6

LEMMA InitTypes == Init => TypeOK
<1> SUFFICES ASSUME Init PROVE TypeOK
  OBVIOUS
<1>1. arch \in [Ids -> Contents] /\ work \in Contents /\ src \in Contents
  BY NothingIsContents DEF Init
<1>2. reported \in BOOLEAN /\ flag \in Flags
  BY DEF Init, Flags
<1> QED
  BY <1>1, <1>2, RecoveryAssumption DEF Init, TypeOK

LEMMA SiteTypes ==
  ASSUME TypeOK, \E f \in Files : Upload(f) \/ Delete(f)
  PROVE  TypeOK'
<1>1. PICK f \in Files : Upload(f) \/ Delete(f)
  OBVIOUS
<1>2. CASE Upload(f)
  BY <1>2 DEF Upload, TypeOK, site, stores, backup, restore, maint, limits
<1>3. CASE Delete(f)
  <2>1. work' \in Contents
    BY <1>3 DEF Delete, TypeOK, Contents
  <2> QED
    BY <1>3, <2>1 DEF Delete, TypeOK, stores, restore, maint, limits
<1> QED
  BY <1>1, <1>2, <1>3

LEMMA DumpedIsContents ==
  ASSUME TypeOK, NEW r \in SUBSET Files, NEW p \in Flags
  PROVE  Dumped(r, p) \in Contents
  BY DEF Dumped, Contents, Members, TypeOK

LEMMA BackupTypes ==
  ASSUME TypeOK, WorkWhole, Backup
  PROVE  TypeOK'
<1> USE DEF TypeOK, site, stores, backup, restore, maint, limits
<1>1. CASE Dump
  <2>1. work' \in Contents
    <3>1. CASE work' = Dumped(rows, flag)
      BY <3>1, DumpedIsContents
    <3>2. CASE \E r \in SUBSET rows, p \in {flag, "none"} :
                 work' = Dumped(r, p)
      <4>1. PICK r \in SUBSET rows, p \in {flag, "none"} :
              work' = Dumped(r, p)
        BY <3>2
      <4>2. r \in SUBSET Files /\ p \in Flags
        BY DEF Flags
      <4> QED
        BY <4>1, <4>2, DumpedIsContents
    <3> QED
      BY <1>1, <3>1, <3>2 DEF Dump
  <2>2. restores' \in 0..MaxRestores /\ troubles' \in 0..MaxTroubles
    BY <1>1, TroubleTypes DEF Dump
  <2> QED
    BY <1>1, <2>1, <2>2 DEF Dump
<1>2. CASE Copy
  <2>1. work' \in Contents
    BY <1>2 DEF Copy, MirrorFirst, Contents
  <2> QED
    BY <1>2, <2>1 DEF Copy
<1>3. CASE CopyFails
  <2>1. mirror' \subseteq Files
    BY <1>3 DEF CopyFails, HalfSynced
  <2>2. work' \in Contents
    <3>1. PICK part \in SUBSET mirror' :
            work' = [work EXCEPT !.files = part,
                                 !.lost = @ \union (work.rows \ part)]
      BY <1>3 DEF CopyFails
    <3> QED
      BY <2>1, <3>1 DEF Contents
  <2>3. restores' \in 0..MaxRestores /\ troubles' \in 0..MaxTroubles
    BY <1>3, TroubleTypes DEF CopyFails
  <2> QED
    BY <1>3, <2>1, <2>2, <2>3 DEF CopyFails
<1>4. CASE Seal
  <2>1. PICK c : Sealable(c) /\ Sealed(c)
    BY <1>4, SealSeals
  <2>2. made < MaxBackups
    BY <1>4 DEF Seal, WorkWhole
  <2>3. /\ arch' \in [Ids -> Contents]
        /\ made' \in 0..MaxBackups /\ made' = made + 1
        /\ local' \subseteq 1..made'
    BY <2>1, <2>2, SealedTypes DEF Sealable
  <2>4. usb' \subseteq 1..made'
    BY <1>4, <2>3 DEF Seal
  <2>5. restores' \in 0..MaxRestores /\ troubles' \in 0..MaxTroubles
    BY <1>4, TroubleTypes DEF Seal
  <2>6. bk' \in {"idle", "hook"} /\ work' \in Contents
    BY <1>4, NothingIsContents DEF Seal
  <2> QED
    BY <1>4, <2>3, <2>4, <2>5, <2>6 DEF Seal
<1>5. CASE Hook
  BY <1>5 DEF Hook
<1> QED
  BY <1>1, <1>2, <1>3, <1>4, <1>5 DEF Backup

LEMMA SwitchedIsFlag ==
  ASSUME flag \in Flags, NEW to \in {"on", "off"}
  PROVE  Switched(to) \in Flags
  BY DEF Switched, Flags

LEMMA HalfImportedTypes ==
  ASSUME TypeOK, NEW r \in HalfImported
  PROVE  r \in SUBSET Files
  BY DEF HalfImported, TypeOK, Contents

LEMMA RestoreTypes ==
  ASSUME TypeOK, Restore
  PROVE  TypeOK'
<1> USE DEF TypeOK, site, stores, backup, restore, maint, limits
<1>1. CASE Pull
  <2>1. reported' \in BOOLEAN /\ troubles' \in 0..MaxTroubles
    BY <1>1, ReportedIsBoolean, TroubleTypes DEF Pull, Fail
  <2>2. local' \subseteq 1..made /\ rs' \in {"choose", "idle"}
        /\ restores' = restores
    BY <1>1 DEF Pull, Step, Trouble
  <2> QED
    BY <1>1, <2>1, <2>2 DEF Pull
<1>2. CASE Choose
  <2>1. src' \in Contents
    <3>1. CASE \E i \in local : src' \in Damaged(arch[i])
      <4>1. PICK i \in local : src' \in Damaged(arch[i])
        BY <3>1
      <4>2. arch[i] \in Contents
        BY RecoveryAssumption DEF Ids
      <4> QED
        BY <4>1, <4>2, DamagedIsWhole
    <3>2. CASE \E i \in local : src' = arch[i]
      BY <3>2, RecoveryAssumption DEF Ids
    <3>3. CASE UNCHANGED src
      BY <3>3
    <3> QED
      BY <1>2, <3>1, <3>2, <3>3 DEF Choose
  <2>2. restores' \in 0..MaxRestores /\ troubles' \in 0..MaxTroubles
    BY <1>2, TroubleTypes DEF Choose
  <2>3. reported' \in BOOLEAN /\ rs' \in {"close", "idle"}
    BY <1>2, ReportedIsBoolean DEF Choose, Step, Fail
  <2> QED
    BY <1>2, <2>1, <2>2, <2>3 DEF Choose
<1>3. CASE Close
  <2>1. flag' \in Flags /\ web' \in {"up", "down", "failed"}
    BY <1>3, SwitchedIsFlag DEF Close
  <2>2. restores' \in 0..MaxRestores /\ troubles' \in 0..MaxTroubles
    BY <1>3, TroubleTypes DEF Close
  <2> QED
    BY <1>3, <2>1, <2>2, ReportedIsBoolean DEF Close, Step
<1>4. CASE RestoreConfig
  <2>1. flag' \in Flags
    BY <1>4 DEF RestoreConfig, Contents, Flags
  <2>2. restores' \in 0..MaxRestores /\ troubles' \in 0..MaxTroubles
    BY <1>4, TroubleTypes DEF RestoreConfig
  <2> QED
    BY <1>4, <2>1, <2>2, ReportedIsBoolean DEF RestoreConfig, Step
<1>5. CASE RestoreDatabase
  <2>1. src.rows \subseteq Files /\ src.lost \subseteq Files
    BY DEF Contents
  <2>2. rows' \subseteq Files
    BY <1>5, <2>1, HalfImportedTypes DEF RestoreDatabase
  <2>3. lost' \subseteq Files /\ src' \in Contents
    BY <1>5, <2>1, <2>2, NothingIsContents DEF RestoreDatabase, Exposed
  <2>4. restores' \in 0..MaxRestores /\ troubles' \in 0..MaxTroubles
    BY <1>5, TroubleTypes DEF RestoreDatabase
  <2>5. reported' \in BOOLEAN /\ rs' \in {"idle", "data"}
    BY <1>5, ReportedIsBoolean DEF RestoreDatabase, Step, Fail
  <2> QED
    BY <1>5, <2>2, <2>3, <2>4, <2>5 DEF RestoreDatabase
<1>6. CASE RestoreData
  <2>1. src.files \subseteq Files
    BY DEF Contents
  <2>2. files' \subseteq Files /\ lost' \subseteq Files
    BY <1>6, <2>1 DEF RestoreData, Unpacked
  <2>3. restores' \in 0..MaxRestores /\ troubles' \in 0..MaxTroubles
    BY <1>6, TroubleTypes DEF RestoreData
  <2> QED
    BY <1>6, <2>2, <2>3, ReportedIsBoolean DEF RestoreData, Step
<1>7. CASE Reopen
  <2>1. flag' \in Flags /\ web' \in {"up", "failed"}
    BY <1>7, SwitchedIsFlag DEF Reopen
  <2>2. restores' \in 0..MaxRestores /\ troubles' \in 0..MaxTroubles
    BY <1>7, TroubleTypes DEF Reopen
  <2> QED
    BY <1>7, <2>1, <2>2, ReportedIsBoolean, NothingIsContents
    DEF Reopen, Step
<1> QED
  BY <1>1, <1>2, <1>3, <1>4, <1>5, <1>6, <1>7 DEF Restore

LEMMA MaintenanceTypes ==
  ASSUME TypeOK, Maintenance
  PROVE  TypeOK'
<1> USE DEF TypeOK, site, stores, backup, restore, maint, limits
<1>1. CASE MaintenanceStarts
  <2>1. /\ flag' \in Flags /\ failures' \in {"none", "some"}
        /\ restores' \in 0..MaxRestores /\ troubles' \in 0..MaxTroubles
    BY <1>1, TroubleTypes DEF MaintenanceStarts, Run, Flags
  <2> QED
    BY <1>1, <2>1, ReportedIsBoolean DEF MaintenanceStarts
<1>2. CASE Scan
  <2>1. /\ rows' \subseteq Files /\ failures' \in {"none", "some"}
        /\ restores' \in 0..MaxRestores /\ troubles' \in 0..MaxTroubles
    BY <1>2, TroubleTypes DEF Scan, Run
  <2> QED
    BY <1>2, <2>1, ReportedIsBoolean DEF Scan
<1>3. CASE MaintenanceOff
  <2>1. /\ flag' \in Flags /\ failures' \in {"none", "some"}
        /\ restores' \in 0..MaxRestores /\ troubles' \in 0..MaxTroubles
    BY <1>3, TroubleTypes DEF MaintenanceOff, Run, Flags
  <2> QED
    BY <1>3, <2>1, ReportedIsBoolean DEF MaintenanceOff
<1>4. CASE MaintenanceReports
  BY <1>4, ReportedIsBoolean DEF MaintenanceReports
<1> QED
  BY <1>1, <1>2, <1>3, <1>4 DEF Maintenance

LEMMA CutShortTypes ==
  ASSUME TypeOK, CutShort
  PROVE  flag' \in Flags /\ rows' \subseteq Files /\ files' \subseteq Files
<1>1. flag' \in Flags
  BY DEF CutShort, TypeOK, Contents, Flags
<1>2. rows' \subseteq Files
  BY HalfImportedTypes DEF CutShort, TypeOK
<1>3. files' \subseteq Files
  <2>1. CASE rs = "data"
    <3>1. PICK part \in SUBSET src.files : files' = files \union part
      BY <2>1 DEF CutShort
    <3> QED
      BY <3>1 DEF TypeOK, Contents
  <2>2. CASE rs # "data"
    BY <2>2 DEF CutShort, TypeOK
  <2> QED
    BY <2>1, <2>2
<1> QED
  BY <1>1, <1>2, <1>3

LEMMA HostTypes ==
  ASSUME TypeOK, WorkWhole,
         \/ PruneRetention \/ RestoreStarts \/ PowerCut \/ HostLost
         \/ Rebuild \/ Fetch \/ OperatorReopens
  PROVE  TypeOK'
<1> USE DEF TypeOK, site, stores, backup, restore, maint, limits
<1>1. CASE PruneRetention
  <2>1. local' \subseteq local
    BY <1>1 DEF PruneRetention
  <2>2. local' \subseteq 1..made' /\ usb' \subseteq 1..made'
    BY <1>1, <2>1 DEF PruneRetention
  <2>3. reported' \in BOOLEAN
    BY <1>1 DEF PruneRetention
  <2> QED
    BY <1>1, <2>2, <2>3 DEF PruneRetention
<1>2. CASE RestoreStarts
  BY <1>2, RecoveryAssumption DEF RestoreStarts
<1>3. CASE PowerCut
  <2>1. /\ arch' \in [Ids -> Contents]
        /\ made' \in 0..MaxBackups
        /\ local' \subseteq 1..made' /\ usb' \subseteq 1..made'
    <3>1. CASE UNCHANGED <<made, arch, local>>
      BY <1>3, <3>1 DEF PowerCut
    <3>2. CASE bk = "seal" /\ Sealed(work)
      <4>1. made < MaxBackups
        BY <3>2 DEF WorkWhole
      <4>2. /\ arch' \in [Ids -> Contents]
            /\ made' \in 0..MaxBackups /\ made' = made + 1
            /\ local' \subseteq 1..made'
        BY <3>2, <4>1, SealedTypes
      <4> QED
        BY <1>3, <4>2 DEF PowerCut
    <3> QED
      BY <1>3, <3>1, <3>2 DEF PowerCut
  <2>2. /\ bk' = "idle" /\ work' \in Contents
        /\ rs' = "idle" /\ src' \in Contents
        /\ mt' = "idle" /\ failures' = "none" /\ dr' = "idle"
    BY <1>3, NothingIsContents DEF PowerCut, ScriptsEnd
  <2>3. /\ reported' \in BOOLEAN
        /\ restores' \in 0..MaxRestores /\ troubles' \in 0..MaxTroubles
    BY <1>3, ReportedIsBoolean, TroubleTypes DEF PowerCut
  <2>4. flag' \in Flags /\ rows' \subseteq Files /\ files' \subseteq Files
    BY <1>3, CutShortTypes DEF PowerCut
  <2>5. /\ lost' \subseteq Files /\ mirror' \subseteq Files
        /\ web' \in {"up", "down", "failed"} /\ host' \in {"up", "gone"}
    BY <1>3, <2>4 DEF PowerCut, HalfSynced
  <2> QED
    BY <2>1, <2>2, <2>3, <2>4, <2>5
<1>4. CASE HostLost
  <2>1. flag' \in Flags /\ work' \in Contents /\ src' \in Contents
    BY <1>4, NothingIsContents DEF HostLost, ScriptsEnd, Flags
  <2> QED
    BY <1>4, <2>1, TroubleTypes DEF HostLost, ScriptsEnd
<1>5. CASE Rebuild
  <2>1. restores' \in 0..MaxRestores /\ troubles' \in 0..MaxTroubles
    BY <1>5, TroubleTypes DEF Rebuild
  <2>2. /\ reported' \in BOOLEAN
        /\ host' \in {"up", "gone"} /\ web' \in {"up", "down", "failed"}
        /\ rs' \in {rs, "pull"} /\ dr' \in {dr, "fetch"}
    BY <1>5, ReportedIsBoolean DEF Rebuild, Fail
  <2> QED
    BY <1>5, <2>1, <2>2 DEF Rebuild
<1>6. CASE Fetch
  <2>1. restores' \in 0..MaxRestores /\ troubles' \in 0..MaxTroubles
    BY <1>6, TroubleTypes DEF Fetch
  <2>2. usb' \subseteq 1..made
    BY <1>6 DEF Fetch
  <2> QED
    BY <1>6, <2>1, <2>2 DEF Fetch
<1>7. CASE OperatorReopens
  BY <1>7, ReportedIsBoolean DEF OperatorReopens, Flags
<1> QED
  BY <1>1, <1>2, <1>3, <1>4, <1>5, <1>6, <1>7

LEMMA StutterTypes == TypeOK /\ UNCHANGED vars => TypeOK'
  BY DEF TypeOK, vars, site, stores, backup, restore, maint, limits

-----------------------------------------------------------------------------
(* What is restored *)

LEMMA SourceStep ==
  ASSUME TypeOK, SourceWhole, ArchivesWhole, Next
  PROVE  SourceWhole'
<1> USE DEF SourceWhole, Whole, site, stores, backup, restore, maint, limits
<1>1. ASSUME NEW f \in Files, Upload(f) \/ Delete(f) PROVE SourceWhole'
  BY <1>1 DEF Upload, Delete
<1>2. CASE Backup
  BY <1>2 DEF Backup, Dump, Copy, CopyFails, Seal, Hook
<1>3. CASE Choose
  <2>1. CASE rs' = "idle"
    BY <2>1
  <2>2. CASE \E i \in local : src' = arch[i] \/ src' \in Damaged(arch[i])
    <3>1. PICK i \in local : src' = arch[i] \/ src' \in Damaged(arch[i])
      BY <2>2
    <3>2. arch[i] \in Contents /\ Whole(arch[i])
      BY RecoveryAssumption DEF TypeOK, Ids, ArchivesWhole
    <3>3. Whole(src')
      BY <3>1, <3>2, DamagedIsWhole
    <3> QED
      BY <3>3
  <2> QED
    BY <1>3, <2>1, <2>2 DEF Choose, Step
<1>4. CASE Restore /\ ~ Choose
  BY <1>4
  DEF Restore, Pull, Close, RestoreConfig, RestoreDatabase, RestoreData,
      Reopen, Step
<1>5. CASE Maintenance
  BY <1>5
  DEF Maintenance, MaintenanceStarts, Scan, MaintenanceOff,
      MaintenanceReports
<1>6. CASE PruneRetention \/ RestoreStarts \/ PowerCut \/ HostLost
  BY <1>6 DEF PruneRetention, RestoreStarts, PowerCut, HostLost, ScriptsEnd
<1>7. CASE Rebuild \/ Fetch \/ OperatorReopens
  BY <1>7 DEF Rebuild, Fetch, OperatorReopens
<1> QED
  BY <1>1, <1>2, <1>3, <1>4, <1>5, <1>6, <1>7 DEF Next

LEMMA OneRecoveryStep ==
  ASSUME OneRecovery, Next
  PROVE  OneRecovery'
<1> USE DEF OneRecovery, site, stores, backup, restore, maint, limits
<1>1. ASSUME NEW f \in Files, Upload(f) \/ Delete(f) PROVE OneRecovery'
  BY <1>1 DEF Upload, Delete
<1>2. CASE Backup
  BY <1>2 DEF Backup, Dump, Copy, CopyFails, Seal, Hook
<1>3. CASE Restore
  BY <1>3
  DEF Restore, Pull, Choose, Close, RestoreConfig, RestoreDatabase,
      RestoreData, Reopen, Step
<1>4. CASE Maintenance
  BY <1>4
  DEF Maintenance, MaintenanceStarts, Scan, MaintenanceOff,
      MaintenanceReports
<1>5. CASE PruneRetention \/ RestoreStarts \/ PowerCut \/ HostLost
  BY <1>5 DEF PruneRetention, RestoreStarts, PowerCut, HostLost, ScriptsEnd
<1>6. CASE Rebuild \/ Fetch \/ OperatorReopens
  BY <1>6 DEF Rebuild, Fetch, OperatorReopens
<1> QED
  BY <1>1, <1>2, <1>3, <1>4, <1>5, <1>6 DEF Next

-----------------------------------------------------------------------------
(* Archives *)

\* A sealed archive is whole if the backup's work is.
LEMMA SealedWhole ==
  ASSUME TypeOK, WorkWhole, ArchivesWhole, bk = "seal",
         NEW c, Sealable(c), Sealed(c)
  PROVE  ArchivesWhole'
<1>1. /\ made' = made + 1 /\ made \in Nat
      /\ arch'[made + 1] = c
      /\ \A i \in 1..made : arch'[i] = arch[i]
  BY SealedTypes DEF WorkWhole, TypeOK, Sealable
<1>2. Whole(c)
  BY DEF WorkWhole, Sealable
<1>3. ASSUME NEW i \in 1..made'
      PROVE  Whole(arch'[i])
  <2>1. CASE i = made + 1
    BY <1>1, <1>2, <2>1
  <2>2. CASE i \in 1..made
    BY <1>1, <2>2 DEF ArchivesWhole
  <2> QED
    BY <1>1, <2>1, <2>2
<1> QED
  BY <1>3 DEF ArchivesWhole, Whole

LEMMA ArchivesKept ==
  ASSUME ArchivesWhole, UNCHANGED <<arch, made>>
  PROVE  ArchivesWhole'
  BY DEF ArchivesWhole, Whole

LEMMA ArchivesStep ==
  ASSUME TypeOK, WorkWhole, ArchivesWhole, Next
  PROVE  ArchivesWhole'
<1> USE DEF site, stores, backup, restore, maint, limits
<1>1. CASE Seal
  BY <1>1, SealSeals, SealedWhole DEF Seal
<1>2. CASE PowerCut
  <2>1. Sealable(work)
    BY DEF Sealable, TypeOK
  <2> QED
    BY <1>2, <2>1, SealedWhole, ArchivesKept DEF PowerCut
<1>3. ASSUME NEW f \in Files, Upload(f) \/ Delete(f) PROVE ArchivesWhole'
  BY <1>3, ArchivesKept DEF Upload, Delete
<1>4. CASE Dump \/ Copy \/ CopyFails \/ Hook
  BY <1>4, ArchivesKept DEF Dump, Copy, CopyFails, Hook
<1>5. CASE Restore
  BY <1>5, ArchivesKept
  DEF Restore, Pull, Choose, Close, RestoreConfig, RestoreDatabase,
      RestoreData, Reopen
<1>6. CASE Maintenance
  BY <1>6, ArchivesKept
  DEF Maintenance, MaintenanceStarts, Scan, MaintenanceOff,
      MaintenanceReports
<1>7. CASE \/ PruneRetention \/ RestoreStarts \/ HostLost \/ Rebuild
           \/ Fetch \/ OperatorReopens
  BY <1>7, ArchivesKept
  DEF PruneRetention, RestoreStarts, HostLost, Rebuild, Fetch,
      OperatorReopens
<1> QED
  BY <1>1, <1>2, <1>3, <1>4, <1>5, <1>6, <1>7 DEF Next, Backup

-----------------------------------------------------------------------------
(* The backup under way *)

LEMMA WorkStep ==
  ASSUME TypeOK, WorkWhole, SiteWhole, Next
  PROVE  WorkWhole'
<1> USE DEF WorkWhole, Whole, site, stores, backup, restore, maint, limits
<1>1. ASSUME NEW f \in Files, Upload(f) PROVE WorkWhole'
  BY <1>1 DEF Upload
<1>2. ASSUME NEW f \in Files, Delete(f) PROVE WorkWhole'
  <2>1. CASE bk = "copy"
    <3>1. work'.rows = work.rows /\ work'.lost = work.lost \union {f}
      BY <1>2, <2>1 DEF Delete, TypeOK, Contents
    <3> QED
      BY <1>2, <2>1, <3>1 DEF Delete
  <2> QED
    BY <1>2, <2>1 DEF Delete
<1>3. CASE Dump
  <2>1. PICK r \in SUBSET rows, p \in {flag, "none"} : work' = Dumped(r, p)
    BY <1>3 DEF Dump
  <2>2. /\ work'.rows = r
        /\ work'.lost = lost \union (IF rs = "idle" THEN {} ELSE r)
    BY <2>1 DEF Dumped
  <2>3. r \subseteq files \union work'.lost
    BY <2>2 DEF SiteWhole
  <2> QED
    BY <1>3, <2>2, <2>3 DEF Dump
<1>4. CASE Copy
  <2>1. work'.rows = work.rows /\ work'.files = files /\ work'.lost = work.lost
    BY <1>4 DEF Copy, MirrorFirst, TypeOK, Contents
  <2> QED
    BY <1>4, <2>1 DEF Copy
<1>5. CASE CopyFails
  <2>1. PICK part \in SUBSET mirror' :
          work' = [work EXCEPT !.files = part,
                               !.lost = @ \union (work.rows \ part)]
    BY <1>5 DEF CopyFails
  <2>2. work'.rows \subseteq work'.files \union work'.lost
    BY <2>1 DEF TypeOK, Contents
  <2> QED
    BY <1>5, <2>2 DEF CopyFails
<1>6. CASE Seal \/ Hook
  BY <1>6 DEF Seal, Hook
<1>7. CASE Restore
  <2>1. files \subseteq files' /\ UNCHANGED <<bk, work, made>>
    BY <1>7
    DEF Restore, Pull, Choose, Close, RestoreConfig, RestoreDatabase,
        RestoreData, Unpacked, Reopen
  <2> QED
    BY <2>1
<1>8. CASE Maintenance
  BY <1>8
  DEF Maintenance, MaintenanceStarts, Scan, MaintenanceOff,
      MaintenanceReports
<1>9. CASE PowerCut \/ HostLost
  BY <1>9 DEF PowerCut, HostLost, ScriptsEnd
<1>10. CASE \/ PruneRetention \/ RestoreStarts \/ Rebuild \/ Fetch
            \/ OperatorReopens
  BY <1>10
  DEF PruneRetention, RestoreStarts, Rebuild, Fetch, OperatorReopens
<1> QED
  BY <1>1, <1>2, <1>3, <1>4, <1>5, <1>6, <1>7, <1>8, <1>9, <1>10
  DEF Next, Backup

-----------------------------------------------------------------------------
(* The site *)

LEMMA SiteStep ==
  ASSUME IInv, Next
  PROVE  SiteWhole'
<1> USE DEF IInv, SiteWhole, site, stores, backup, restore, maint, limits
<1>1. ASSUME NEW f \in Files, Upload(f) \/ Delete(f) PROVE SiteWhole'
  BY <1>1 DEF Upload, Delete
<1>2. CASE Backup
  BY <1>2 DEF Backup, Dump, Copy, CopyFails, Seal, Hook
<1>3. CASE RestoreDatabase
  <2>1. Whole(src) /\ rows \subseteq files \union lost
    BY <1>3 DEF RestoreDatabase, Step, SourceWhole
  <2>2. rows' \subseteq rows \union src.rows
    BY <1>3 DEF RestoreDatabase, HalfImported
  <2>3. /\ lost' = lost \union src.lost \union Exposed
        /\ UNCHANGED <<files, web>>
    BY <1>3 DEF RestoreDatabase
  <2>4. (rs' = "data" /\ src' = src) \/ rs' = "idle"
    BY <1>3 DEF RestoreDatabase, Step
  <2>5. rows' \subseteq files' \union src.files \union lost'
    BY <2>1, <2>2, <2>3 DEF Whole
  <2>6. rs' = "idle" \/ web' = "up" => rows' \subseteq files' \union lost'
    BY <2>3 DEF Exposed
  <2> QED
    BY <2>4, <2>5, <2>6
<1>4. CASE RestoreData
  <2>1. rs = "data" /\ rs' = "open" /\ UNCHANGED rows
    BY <1>4 DEF RestoreData, Step
  <2>2. CASE files' = Unpacked(files, src.files) /\ lost' = lost \ src.files
    BY <2>1, <2>2 DEF Unpacked
  <2>3. CASE lost' = lost \union (rows \ files')
    BY <2>1, <2>3
  <2> QED
    BY <1>4, <2>2, <2>3 DEF RestoreData
<1>5. CASE Pull \/ Choose \/ Close \/ RestoreConfig \/ Reopen
  <2>1. UNCHANGED <<rows, files, lost>> /\ rs # "data" /\ rs' # "data"
    BY <1>5 DEF Pull, Choose, Close, RestoreConfig, Reopen, Step
  <2> QED
    BY <2>1
<1>6. CASE Maintenance
  BY <1>6
  DEF Maintenance, MaintenanceStarts, Scan, MaintenanceOff,
      MaintenanceReports, Run
<1>7. CASE PowerCut
  <2>1. rs' = "idle" /\ lost' = lost \union (rows' \ files')
    BY <1>7 DEF PowerCut, ScriptsEnd
  <2> QED
    BY <2>1
<1>8. CASE HostLost
  BY <1>8 DEF HostLost, ScriptsEnd
<1>9. CASE PruneRetention
  BY <1>9 DEF PruneRetention
<1>10. CASE RestoreStarts \/ Rebuild \/ Fetch \/ OperatorReopens
  <2>1. rs # "data" /\ rs' # "data" /\ UNCHANGED <<rows, files, lost>>
    BY <1>10
    DEF RestoreStarts, Rebuild, Fetch, OperatorReopens, OneRecovery
  <2> QED
    BY <2>1
<1> QED
  BY <1>1, <1>2, <1>3, <1>4, <1>5, <1>6, <1>7, <1>8, <1>9, <1>10
  DEF Next, Restore

-----------------------------------------------------------------------------
(* The theorems *)

LEMMA InitInv == Init => IInv
<1> SUFFICES ASSUME Init PROVE IInv
  OBVIOUS
<1>1. WorkWhole /\ SiteWhole /\ SourceWhole /\ OneRecovery
  BY DEF Init, WorkWhole, SiteWhole, SourceWhole, OneRecovery
<1>2. ArchivesWhole
  BY DEF Init, ArchivesWhole
<1> QED
  BY <1>1, <1>2, InitTypes DEF IInv

LEMMA StepInv == IInv /\ [Next]_vars => IInv'
<1> SUFFICES ASSUME IInv, [Next]_vars PROVE IInv'
  OBVIOUS
<1>1. CASE Next
  <2>1. TypeOK'
    BY <1>1, SiteTypes, BackupTypes, RestoreTypes, MaintenanceTypes, HostTypes
    DEF IInv, Next
  <2> QED
    BY <1>1, <2>1, WorkStep, SourceStep, SiteStep, OneRecoveryStep,
       ArchivesStep
    DEF IInv
<1>2. CASE UNCHANGED vars
  <2>1. TypeOK'
    BY <1>2, StutterTypes DEF IInv
  <2>2. /\ UNCHANGED <<rows, files, web, host, arch, made, bk, work, rs, src>>
        /\ UNCHANGED <<dr, lost>>
    BY <1>2 DEF vars, site, stores, backup, restore
  <2>3. WorkWhole' /\ SourceWhole' /\ SiteWhole' /\ OneRecovery'
    BY <2>2 DEF IInv, WorkWhole, SourceWhole, SiteWhole, OneRecovery, Whole
  <2>4. ArchivesWhole'
    BY <2>2, ArchivesKept DEF IInv
  <2> QED
    BY <2>1, <2>3, <2>4 DEF IInv
<1> QED
  BY <1>1, <1>2

\* The types of the site, its stores and the scripts' stages, whatever the
\* scripts, the users and the host do.
THEOREM TypesHold == Spec => []TypeOK
<1>1. IInv => TypeOK
  BY DEF IInv
<1> QED
  BY InitInv, StepInv, <1>1, PTL DEF Spec

\* Every archive of create_backup, and every site that users see during and
\* after restore_archive and maintenance, has a file for every row, but for the
\* files in lost: those a command left out that failed unseen, a failed import
\* or a power cut did not come to, or a delete took during the backup.  Between
\* the database and the data of a restore the archive has the files (SiteWhole).
THEOREM RestoredSitesAreWhole == Spec => []RestoresWhole
<1>1. IInv => RestoresWhole
  BY DEF IInv, SiteWhole, ArchivesWhole, Whole, Open, RestoresWhole
<1> QED
  BY InitInv, StepInv, <1>1, PTL DEF Spec
=============================================================================

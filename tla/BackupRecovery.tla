---------------------------- MODULE BackupRecovery ----------------------------
(***************************************************************************)
(* The scripts that save, restore and maintain the site (scripts/backup.sh,*)
(* usb-backup.sh, restore.sh, dr-recover.sh, maintenance.sh), each started *)
(* by a timer or by the operator, and none of them aware of the others:    *)
(*                                                                         *)
(*   backup.sh      dump -> copy -> seal -> hook (mirror to the USB)       *)
(*   restore.sh     [pull] -> choose -> close -> config -> db -> data      *)
(*                         -> open                                         *)
(*   maintenance.sh on -> scan -> off                                      *)
(*                                                                         *)
(* None of them runs under `set -e`: a command whose failure no `||` looks *)
(* at is followed by the next one.  An archive is what it holds: the rows  *)
(* of the database, the files of the data directory and the maintenance    *)
(* flag of config.php.  The number of an archive is its place in the order *)
(* of `ls -1t`.                                                            *)
(***************************************************************************)
EXTENDS Integers

CONSTANTS
  Files,            (* The users' files.                                   *)
  Routes,           (* What the operator recovers a lost host with: "dr"   *)
                    (* is dr-recover.sh --from-usb, "play" dr-recover.yml. *)
  MaxBackups,       (* Bound: runs of backup.sh that get to an archive.    *)
  MaxRestores,      (* Bound: restores the operator starts on a live host. *)
  MaxTroubles       (* Bound: commands of the scripts that fail, power     *)
                    (* cuts, and hosts lost with their disks.              *)

ASSUME RecoveryAssumption ==
  /\ Routes \subseteq {"dr", "play"}
  /\ MaxBackups \in Nat /\ MaxRestores \in Nat /\ MaxTroubles \in Nat

VARIABLES
  (*************************************************************************)
  (* The site                                                              *)
  (*************************************************************************)
  rows, files,    (* PostgreSQL's files; the data directory without trash. *)
  flag,           (* 'maintenance' in config.php, "none" without the file. *)
  web,            (* nginx and PHP; "failed": they could not be started.   *)
  host,
  (*************************************************************************)
  (* The backups                                                           *)
  (*************************************************************************)
  arch, made,     (* The archives and their number so far.                 *)
  mirror,         (* MIRROR_DIR.                                           *)
  local, usb,     (* Archives in BACKUP_DIR and on the USB.                *)
  (*************************************************************************)
  (* The scripts                                                           *)
  (*************************************************************************)
  bk, work,       (* backup.sh and its work directory.                     *)
  rs, src,        (* restore.sh and what it has unpacked of its archive.   *)
  mt, failures,   (* maintenance.sh and whether one of its commands failed.*)
  dr,             (* fetch_backup of dr-recover.sh.                        *)
  (*************************************************************************)
  (* History                                                               *)
  (*************************************************************************)
  reported,       (* A failure was reported since the site last was open.  *)
  lost,           (* Files a failed command, a power cut or a delete in    *)
                  (* mid-backup has left the site without.                 *)
  restores, troubles

site    == <<rows, files, flag, web, host>>
stores  == <<arch, made, mirror, local, usb>>
backup  == <<bk, work>>
restore == <<rs, src>>
maint   == <<mt, failures>>
limits  == <<restores, troubles>>
vars    == <<site, stores, backup, restore, maint, dr, reported, lost, limits>>

Ids == 1..MaxBackups
Flags == {"on", "off", "none"}
Members == {"config", "database"}

\* An archive without its data has no files, which comes to the same.
Contents == [rows : SUBSET Files, files : SUBSET Files, flag : Flags,
             holds : SUBSET Members, lost : SUBSET Files,
             readable : {"yes", "no"}]
Nothing == [rows |-> {}, files |-> {}, flag |-> "none", holds |-> {},
            lost |-> {}, readable |-> "no"]

TypeOK ==
  /\ rows \subseteq Files /\ files \subseteq Files
  /\ flag \in Flags /\ web \in {"up", "down", "failed"}
  /\ host \in {"up", "gone"}
  /\ arch \in [Ids -> Contents]
  /\ made \in 0..MaxBackups
  /\ mirror \subseteq Files
  /\ local \subseteq 1..made /\ usb \subseteq 1..made
  /\ bk \in {"idle", "copy", "seal", "hook"}
  /\ work \in Contents
  /\ rs \in {"idle", "pull", "choose", "close", "config", "db", "data", "open"}
  /\ src \in Contents
  /\ mt \in {"idle", "scan", "off", "report"}
  /\ failures \in {"none", "some"}
  /\ dr \in {"idle", "fetch"}
  /\ reported \in BOOLEAN
  /\ lost \subseteq Files
  /\ restores \in 0..MaxRestores /\ troubles \in 0..MaxTroubles

Init ==
  /\ rows = {} /\ files = {} /\ flag = "off" /\ web = "up" /\ host = "up"
  /\ arch = [i \in Ids |-> Nothing] /\ made = 0
  /\ mirror = {} /\ local = {} /\ usb = {}
  /\ bk = "idle" /\ work = Nothing
  /\ rs = "idle" /\ src = Nothing
  /\ mt = "idle" /\ failures = "none" /\ dr = "idle"
  /\ reported = FALSE /\ lost = {}
  /\ restores = 0 /\ troubles = 0

Open == web = "up" /\ flag = "off" /\ host = "up"

\* A step of a script, with or without a call of notify_watchtower for a
\* failure.
Quiet == reported' = (reported /\ ~ Open')
Loud == reported' = ~ Open'

Trouble ==
  /\ troubles < MaxTroubles
  /\ troubles' = troubles + 1
  /\ UNCHANGED restores

(***************************************************************************)
(* The users                                                               *)
(***************************************************************************)

Upload(f) ==
  /\ Open
  /\ f \notin rows
  /\ rows' = rows \union {f}
  /\ files' = files \union {f}
  /\ lost' = lost \ {f}
  /\ UNCHANGED <<flag, web, host, stores, backup, restore, maint, dr, reported,
                 limits>>

\* A deleted file goes to the trash, which the mirror excludes.
Delete(f) ==
  /\ Open
  /\ f \in rows
  /\ rows' = rows \ {f}
  /\ files' = files \ {f}
  /\ work' = IF bk = "copy" THEN [work EXCEPT !.lost = @ \union {f}] ELSE work
  /\ UNCHANGED <<flag, web, host, stores, bk, restore, maint, dr, reported,
                 lost, limits>>

(***************************************************************************)
(* backup.sh                                                               *)
(***************************************************************************)

\* A tar that fails unseen leaves members out or cuts them short.
Cut(c, r, f, p, h) ==
  [c EXCEPT !.rows = r, !.files = f, !.flag = p, !.holds = h,
            !.lost = c.lost \union (c.files \ f)]

Damaged(c) ==
  {Cut(c, r, f, p, h) : r \in SUBSET c.rows, f \in SUBSET c.files,
                        p \in {c.flag, "none"}, h \in SUBSET c.holds}

\* pg_dumpall and the config.  A missing key or an empty dump exits at once,
\* which leaves the state as it was, and reports nothing; half a dump and half
\* a config are taken.  A dump that meets a restore holds what the restore has
\* done so far.
Dumped(r, p) ==
  [rows |-> r, files |-> {}, flag |-> p, holds |-> Members,
   lost |-> lost \union IF rs = "idle" THEN {} ELSE r, readable |-> "no"]

Dump ==
  /\ bk = "idle"
  /\ host = "up"
  /\ made < MaxBackups
  /\ bk' = "copy"
  /\ \/ work' = Dumped(rows, flag) /\ UNCHANGED limits
     \/ /\ Trouble
        /\ \E r \in SUBSET rows, p \in {flag, "none"} : work' = Dumped(r, p)
  /\ UNCHANGED <<site, stores, restore, maint, dr, reported, lost>>

\* rsync to the mirror, then tar of the mirror.
MirrorFirstSlip(synced) == mirror
MirrorFirst(synced) == synced

Copy ==
  /\ bk = "copy"
  /\ bk' = "seal"
  /\ mirror' = files
  /\ work' = [work EXCEPT !.files = MirrorFirst(files)]
  /\ UNCHANGED <<site, arch, made, local, usb, restore, maint, dr, reported,
                 lost, limits>>

\* What rsync may leave of the mirror.
HalfSynced == {mirror, mirror \union files, files}

\* Neither command's failure is looked at.
CopyFails ==
  /\ bk = "copy"
  /\ Trouble
  /\ bk' = "seal"
  /\ mirror' \in HalfSynced
  /\ \E part \in SUBSET mirror' :
       work' = [work EXCEPT !.files = part,
                            !.lost = @ \union (work.rows \ part)]
  /\ UNCHANGED <<site, arch, made, local, usb, restore, maint, dr, reported,
                 lost>>

\* The encrypted archive is the newest.
SealedSlip(c) ==
  /\ made' = made
  /\ arch' = [arch EXCEPT ![made + 1] = c]
  /\ local' = local \union {made + 1}

Sealed(c) ==
  /\ made' = made + 1
  /\ arch' = [arch EXCEPT ![made + 1] = c]
  /\ local' = local \union {made + 1}

\* A tar of the parts that fails is encrypted all the same; only the failure
\* of openssl ends the script, which leaves what it has written.
Seal ==
  /\ bk = "seal"
  /\ \/ /\ Sealed([work EXCEPT !.readable = "yes"])
        /\ bk' = "hook"
        /\ UNCHANGED limits
     \/ /\ Trouble
        /\ \E c \in Damaged(work), r \in {"yes", "no"} :
             Sealed([c EXCEPT !.readable = r])
        /\ bk' = "hook"
     \/ /\ Trouble
        /\ Sealed(work)
        /\ bk' = "idle"
  /\ work' = Nothing
  /\ UNCHANGED <<site, mirror, usb, restore, maint, dr, reported, lost>>

\* usb-backup.sh; without a USB, or if rsync fails, the mirror stays.
Hook ==
  /\ bk = "hook"
  /\ bk' = "idle"
  /\ usb' \in {local, usb}
  /\ UNCHANGED <<site, arch, made, mirror, local, work, restore, maint, dr,
                 reported, lost, limits>>

\* backup.sh clean, which nothing but the operator calls.
PruneRetention ==
  /\ host = "up"
  /\ \E n \in local : local' = {i \in local : i > n}
  /\ UNCHANGED <<site, arch, made, mirror, usb, backup, restore, maint, dr,
                 reported, lost, limits>>

(***************************************************************************)
(* restore.sh                                                              *)
(***************************************************************************)

\* A step of restore.sh from one stage to the next.
Step(from, to) ==
  /\ rs = from
  /\ rs' = to

\* fail: the script reports and exits, with the site as it is.
FailSlip == Quiet
Fail == Loud

RestoreStarts ==
  /\ rs = "idle" /\ dr = "idle"
  /\ host = "up"
  /\ restores < MaxRestores
  /\ restores' = restores + 1
  /\ rs' \in {"pull", "choose"}
  /\ UNCHANGED <<site, stores, backup, src, maint, dr, reported, lost,
                 troubles>>

\* --from-usb.
Pull ==
  /\ UNCHANGED <<site, arch, made, mirror, usb, backup, src, maint, dr, lost>>
  /\ \/ /\ Step("pull", "choose")
        /\ local' = local \union usb
        /\ Quiet
        /\ UNCHANGED limits
     \/ /\ Step("pull", "idle")
        /\ Fail
        /\ Trouble
        /\ UNCHANGED local

\* choose_archive takes the newest one; one that cannot be decrypted and read
\* ends the script before it touches the site.  That all of it was unpacked is
\* not looked at.
Newest(i) == i \in local /\ \A j \in local : j =< i

Choose ==
  /\ UNCHANGED <<site, stores, backup, maint, dr, lost>>
  /\ \/ /\ \E i \in local :
             /\ Newest(i) /\ arch[i].readable = "yes"
             /\ \/ src' = arch[i] /\ UNCHANGED limits
                \/ src' \in Damaged(arch[i]) /\ Trouble
        /\ Step("choose", "close")
        /\ Quiet
     \/ /\ \/ /\ \A i \in local : Newest(i) => arch[i].readable = "no"
              /\ UNCHANGED limits
           \/ Trouble
        /\ Step("choose", "idle")
        /\ Fail
        /\ UNCHANGED src

\* What occ makes of the flag; without config.php it fails.
Switched(to) == IF flag = "none" THEN flag ELSE to

\* Whether occ and systemctl succeed does not matter to the script.
Close ==
  /\ Step("close", "config")
  /\ \/ flag' = Switched("on") /\ web' = "down" /\ UNCHANGED limits
     \/ Trouble /\ flag' \in {flag, Switched("on")} /\ web' \in {web, "down"}
  /\ UNCHANGED <<rows, files, host, stores, backup, src, maint, dr, lost>>
  /\ Quiet

\* The directory is removed, and config.php unpacked with the flag it had when
\* it was archived; nobody looks whether that failed.
RestoreConfig ==
  /\ Step("config", "db")
  /\ \/ /\ flag' = IF "config" \in src.holds THEN src.flag ELSE flag
        /\ UNCHANGED limits
     \/ "config" \in src.holds /\ flag' = "none" /\ Trouble
  /\ UNCHANGED <<rows, files, web, host, stores, backup, src, maint, dr, lost>>
  /\ Quiet

\* Part of the dump, in a new database or in the old one: while anybody is
\* connected (maintenance.sh, Watchtower), DROP DATABASE fails and the import
\* runs into the tables that are there.
HalfImported == {r \union part : r \in {{}, rows}, part \in SUBSET src.rows}

\* The rows show before the files are there if the web server did not stop.
Exposed == IF web = "up" \/ rs' = "idle" THEN rows' \ files ELSE {}

\* psql fails only if it cannot go on; an SQL error is not one.
RestoreDatabase ==
  /\ UNCHANGED <<files, flag, web, host, stores, backup, maint, dr>>
  /\ IF "database" \in src.holds
     THEN \/ /\ Step("db", "data") /\ Quiet
             /\ \/ rows' = src.rows
                \/ \E part \in SUBSET src.rows : rows' = rows \union part
             /\ UNCHANGED limits
          \/ /\ Trouble
             /\ rows' \in HalfImported
             /\ \/ Step("db", "data") /\ Quiet
                \/ Step("db", "idle") /\ Fail
     ELSE Step("db", "data") /\ Quiet /\ UNCHANGED <<rows, limits>>
  /\ lost' = lost \union src.lost \union Exposed
  /\ src' = IF rs' = "idle" THEN Nothing ELSE src

\* The archive is unpacked over the directory; what tar says is ignored.
UnpackedSlip(old, new) == IF old = {} THEN new ELSE old
Unpacked(old, new) == old \union new

RestoreData ==
  /\ Step("data", "open")
  /\ \/ /\ files' = Unpacked(files, src.files)
        /\ lost' = lost \ src.files
        /\ UNCHANGED limits
     \/ /\ Trouble
        /\ \E part \in SUBSET src.files : files' = files \union part
        /\ lost' = lost \union (rows \ files')
  /\ UNCHANGED <<rows, flag, web, host, stores, backup, src, maint, dr>>
  /\ Quiet

\* Nobody looks whether the services started and occ cleared the flag.
Reopen ==
  /\ Step("open", "idle")
  /\ \/ web' = "up" /\ flag' = Switched("off") /\ UNCHANGED limits
     \/ /\ Trouble
        /\ web' \in {"up", IF web = "up" THEN "up" ELSE "failed"}
        /\ flag' \in {flag, Switched("off")}
  /\ src' = Nothing
  /\ UNCHANGED <<rows, files, host, stores, backup, maint, dr, lost>>
  /\ Quiet

(***************************************************************************)
(* maintenance.sh                                                          *)
(***************************************************************************)

\* run counts the commands that fail, as all do without config.php, and goes
\* on.
Run(effect, nothing) ==
  \/ flag # "none" /\ effect /\ UNCHANGED <<failures, limits>>
  \/ /\ nothing
     /\ failures' = "some"
     /\ IF flag = "none" THEN UNCHANGED limits ELSE Trouble

\* The timer, once a night.  Without config.php the script leaves in silence.
MaintenanceStarts ==
  /\ mt = "idle"
  /\ host = "up"
  /\ flag # "none"
  /\ mt' = "scan"
  /\ Run(flag' = "on", UNCHANGED flag)
  /\ UNCHANGED <<rows, files, web, host, stores, backup, restore, dr, lost>>
  /\ Quiet

\* files:scan --all makes the rows those of the files.
Scan ==
  /\ mt = "scan"
  /\ mt' = "off"
  /\ Run(rows' = files, UNCHANGED rows)
  /\ UNCHANGED <<files, flag, web, host, stores, backup, restore, dr, lost>>
  /\ Quiet

\* maintenance:mode --off.
MaintenanceOff ==
  /\ mt = "off"
  /\ mt' = "report"
  /\ Run(flag' = "off", UNCHANGED flag)
  /\ UNCHANGED <<rows, files, web, host, stores, backup, restore, dr, lost>>
  /\ Quiet

MaintenanceReports ==
  /\ mt = "report"
  /\ mt' = "idle"
  /\ failures' = "none"
  /\ UNCHANGED <<site, stores, backup, restore, dr, lost, limits>>
  /\ IF failures = "some" THEN Loud ELSE Quiet

(***************************************************************************)
(* The host                                                                *)
(***************************************************************************)

ScriptsEnd ==
  /\ bk' = "idle" /\ work' = Nothing
  /\ rs' = "idle" /\ src' = Nothing
  /\ mt' = "idle" /\ failures' = "none" /\ dr' = "idle"

\* What the cut leaves of the stage restore.sh is in.
CutShort ==
  /\ flag' \in IF rs = "config" /\ "config" \in src.holds
               THEN {flag, "none", src.flag} ELSE {flag}
  /\ rows' \in IF rs = "db" /\ "database" \in src.holds
               THEN HalfImported ELSE {rows}
  /\ files' \in IF rs = "data"
                THEN {files \union part : part \in SUBSET src.files}
                ELSE {files}

\* nginx and PHP start with the host.  An archive that was being written stays,
\* and so does a site that was half restored.
PowerCut ==
  /\ host = "up"
  /\ Trouble
  /\ ScriptsEnd
  /\ CutShort
  /\ web' = "up"
  /\ lost' = lost \union (rows' \ files')
  /\ \/ UNCHANGED <<made, arch, local>>
     \/ bk = "seal" /\ Sealed(work)
  /\ mirror' \in IF bk = "copy" THEN HalfSynced ELSE {mirror}
  /\ UNCHANGED <<host, usb>>
  /\ Quiet

HostLost ==
  /\ host = "up"
  /\ Trouble
  /\ ScriptsEnd
  /\ host' = "gone" /\ web' = "down" /\ flag' = "off"
  /\ rows' = {} /\ files' = {} /\ mirror' = {} /\ local' = {}
  /\ lost' = {}
  /\ reported' = FALSE
  /\ UNCHANGED <<arch, made, usb>>

\* install.sh all makes an empty site and an empty BACKUP_DIR, or fails and the
\* operator is told.  The recovery goes on from there: dr-recover.yml copies the
\* archives from the USB as restore.sh --from-usb does, and hands restore.sh the
\* newest one.
Rebuild ==
  /\ host = "gone"
  /\ UNCHANGED <<rows, files, flag, stores, backup, src, maint, lost>>
  /\ \/ /\ host' = "up" /\ web' = "up"
        /\ \/ "dr" \in Routes /\ dr' = "fetch" /\ UNCHANGED rs
           \/ "play" \in Routes /\ rs' = "pull" /\ UNCHANGED dr
        /\ Quiet
        /\ UNCHANGED limits
     \/ /\ UNCHANGED <<host, web, rs, dr>>
        /\ Fail
        /\ Trouble

\* fetch_backup of dr-recover.sh runs usb-backup.sh, which mirrors BACKUP_DIR
\* to the USB; what it returns is ignored.
Fetch ==
  /\ dr = "fetch"
  /\ dr' = "idle"
  /\ rs' = "choose"
  /\ \/ usb' = local /\ UNCHANGED limits
     \/ Trouble /\ UNCHANGED usb
  /\ UNCHANGED <<site, arch, made, mirror, local, backup, src, maint,
                 reported, lost>>

\* The operator, after a report, with the config.pre-restore of restore.sh if
\* config.php is gone.
OperatorReopens ==
  /\ reported /\ host = "up"
  /\ rs = "idle" /\ mt = "idle"
  /\ web' = "up" /\ flag' = "off"
  /\ UNCHANGED <<rows, files, host, stores, backup, restore, maint, dr,
                 lost, limits>>
  /\ Quiet

(***************************************************************************)
(* Specification                                                           *)
(***************************************************************************)

Backup == Dump \/ Copy \/ CopyFails \/ Seal \/ Hook

Restore ==
  \/ Pull \/ Choose \/ Close \/ RestoreConfig \/ RestoreDatabase
  \/ RestoreData \/ Reopen

Maintenance ==
  MaintenanceStarts \/ Scan \/ MaintenanceOff \/ MaintenanceReports

Next ==
  \/ \E f \in Files : Upload(f) \/ Delete(f)
  \/ Backup \/ PruneRetention
  \/ RestoreStarts \/ Restore
  \/ Maintenance
  \/ PowerCut \/ HostLost \/ Rebuild \/ Fetch \/ OperatorReopens

Spec == Init /\ [][Next]_vars

FairSpec ==
  Spec /\ WF_vars(Restore) /\ WF_vars(Maintenance) /\ WF_vars(Fetch)

(***************************************************************************)
(* Properties                                                              *)
(***************************************************************************)

\* What an archive promises (create_backup dumps the database before it copies
\* the data) and what a restore makes of it (restore_archive, beside backups and
\* the nightly maintenance): every row of the site that users see has its file.
\* Excepted are only files that a command left out which failed unseen (a copy,
\* a tar; a web server that did not stop shows the rows first), that a failed
\* import or a power cut in mid-restore has not come to, that were deleted
\* between dump and copy, and the rows of a dump that was made in mid-restore.
RestoresWhole ==
  /\ \A i \in 1..made :
       arch[i].rows \subseteq arch[i].files \union arch[i].lost
  /\ Open => rows \subseteq files \union lost

\* The site is not left closed in silence: it is open again and again, or a
\* failure was reported and the operator knows, whatever stage restore.sh and
\* maintenance.sh fail at, are cut off at or run at the same time; a flag that
\* nobody cleared goes with the next night's maintenance.  Two failures that
\* restore.sh ignores are excepted, which no script repairs or reports: a
\* config.php that was not unpacked, and services that did not start.
ReopensOrReports ==
  []<>(Open \/ reported \/ host = "gone" \/ flag = "none" \/ web = "failed")

\* dr-recover.sh:15, of --from-usb: "fetch the encrypted backup (local disk or
\* USB offsite via --from-usb)".  The archives on the USB are to be had after
\* the fetch.
FetchKeepsBackup == [][Fetch => usb \subseteq local' \union usb']_vars
=============================================================================

---------------------------- MODULE DiskTransfer ----------------------------
(***************************************************************************)
(* The way of a disk from one provider to another: ExportDisk of the       *)
(* source, the file on the shared claim (internal/storage/pvc.go),         *)
(* ImportDisk of the target, and the migration that calls them and calls   *)
(* again.  "libvirt" is the libvirt gRPC server, which has an ImportDisk   *)
(* but no ExportDisk; "direct" is the libvirt provider's own interface,    *)
(* which has both.                                                         *)
(*                                                                         *)
(* A handler runs on when its caller has given up: copying files does not  *)
(* look at the context, while requests to vCenter or Proxmox, virsh, scp   *)
(* and qemu-img do.  All attempts share one file on the claim and one      *)
(* temporary file per target name.                                         *)
(*                                                                         *)
(* A file is two parts: the data each holds, its format, and the program   *)
(* that wrote it (qemu-img writes the same bytes for the same data).  A    *)
(* checksum is all of that.                                                *)
(***************************************************************************)
EXTENDS Integers

CONSTANTS Attempts,  \* 1..n, handlers of each kind that can be alive at a time
          Settings   \* the settings explored

Formats == {"qcow2", "raw", "vmdk"}

(* The two ends; the format of the disk and the one asked for; vSphere:    *)
(* the kind of backing ("delta" on top of a snapshot) and whether the      *)
(* copy of the disk has an extent file; libvirt: whether it is reached by  *)
(* ssh; whether checksums are verified; whether the disk is written to     *)
(* meanwhile; the bound on failures.                                       *)
SettingType ==
    [from : {"vsphere", "proxmox", "libvirt", "direct"},
     to : {"vsphere", "proxmox", "libvirt", "direct"},
     native : Formats, format : Formats, backing : {"flat", "delta", "sparse"},
     extent : BOOLEAN, ssh : BOOLEAN, verify : BOOLEAN, live : BOOLEAN,
     maxFailures : Nat]

ASSUME SettingsAssumption == Settings \subseteq SettingType
ASSUME AttemptsAssumption == Attempts \subseteq Nat \ {0} /\ 1 \in Attempts

(* Inodes are numbered like the attempts, of which there are finitely      *)
(* many: whatever the others have opened, one is left.                     *)
ASSUME InodesAssumption ==
    \A opened \in [Attempts -> {0} \cup Attempts] : \A a \in Attempts :
        \E i \in Attempts : \A b \in Attempts \ {a} : opened[b] # i

Parts == 1..2
PartType == [data : {"none", "hole", "base", "old", "new"}, format : Formats \cup {""},
             by : {"", "hypervisor", "qemu-img"}]
End == [data |-> "none", format |-> "", by |-> ""]
Hole == [data |-> "hole", format |-> "", by |-> ""]
Files == [Parts -> PartType]
Empty == [p \in Parts |-> End]

(* What is read from an image: a part missing at its end is a hole too.    *)
Data(f) == [p \in Parts |-> IF f[p].data = "none" THEN "hole" ELSE f[p].data]
Whole(f) == \A p \in Parts : f[p] \notin {End, Hole}
WriteAt(f, p, part) == [q \in Parts |-> IF q = p THEN part
                                        ELSE IF q < p /\ f[q] = End THEN Hole ELSE f[q]]
Kinds == {"temp", "converted"}
AtEnd(f, p) == p \notin Parts \/ \A q \in Parts : q >= p => f[q] = End

VARIABLES setting,
          disk,      \* the data of the source disk
          copies,    \* exports whose copy of the disk is on the datastore
          pvc,       \* the file on the claim, Empty before it is made
          ex,        \* the exports
          im,        \* the imports
          path,      \* the imports' temporary and converted files: the inode, 0 if none
          node,      \* the inodes
          vol,       \* the volumes at the target
          caller,    \* the migration
          failures

vars == <<setting, disk, copies, pvc, ex, im, path, node, vol, caller, failures>>
exportSide == <<setting, copies, ex>>
importSide == <<setting, im, path, node, vol>>

NoExport == [at |-> "idle", n |-> 1, file |-> Empty, sum |-> Empty, ok |-> FALSE,
             given |-> FALSE]
NoImport == [at |-> "idle", n |-> 1, kind |-> "temp", node |-> 0, size |-> 0, sum |-> Empty,
             file |-> Empty, expected |-> Empty, checked |-> FALSE, placed |-> TRUE, shared |-> FALSE,
             ok |-> FALSE, given |-> FALSE]

Init ==
    /\ setting \in Settings
    /\ disk = "old"
    /\ copies = {}
    /\ pvc = Empty
    /\ ex = [a \in Attempts |-> NoExport]
    /\ im = [a \in Attempts |-> NoImport]
    /\ path = [k \in Kinds |-> 0]
    /\ node = [k \in Kinds |-> [a \in Attempts |-> Empty]]
    /\ vol = [a \in Attempts |-> Empty]
    /\ caller = [phase |-> "export", call |-> 0, reported |-> Empty, abandoned |-> FALSE]
    /\ failures = 0

(* What a request or a command does: it may fail as often as the bound     *)
(* allows, and once its caller has given up it fails whenever it looks at  *)
(* the context.                                                            *)
Works == UNCHANGED failures
Fails == failures < setting.maxFailures /\ failures' = failures + 1
CtxWorks(h) == ~h.given /\ Works
CtxFails(h) == (h.given /\ Works) \/ (~h.given /\ Fails)

Live(h) == h.at \notin {"idle", "done"}

-----------------------------------------------------------------------------
(* ExportDisk.  What GetDiskInfo finds out: a vSphere disk on top of a      *)
(* snapshot is exported without what was written since, and a flat backing *)
(* without a parent is not survived; Proxmox knows two formats.            *)
vsphereGetDiskInfo ==
    [found |-> setting.backing # "flat", format |-> "vmdk",
     data |-> IF setting.backing = "delta" THEN "base" ELSE disk]
proxmoxGetDiskInfo ==
    [found |-> TRUE, format |-> IF setting.native = "raw" THEN "raw" ELSE "qcow2", data |-> disk]
libvirtGetDiskInfo == [found |-> TRUE, format |-> setting.native, data |-> disk]

DiskInfo == CASE setting.from = "vsphere" -> vsphereGetDiskInfo
              [] setting.from = "proxmox" -> proxmoxGetDiskInfo
              [] OTHER -> libvirtGetDiskInfo

ExportConverts == setting.format # DiskInfo.format
DiskPart == [data |-> DiskInfo.data, format |-> setting.native, by |-> "hypervisor"]

(* What each ExportDisk refuses, how it gets at the disk, and what it      *)
(* uploads: the descriptor alone if a vmdk with an extent is asked for.    *)
vsphereExportDisk ==
    [refuses |-> FALSE, get |-> "copy",
     uploads |-> IF setting.extent /\ ~ExportConverts THEN {1} ELSE Parts]
proxmoxExportDisk == [refuses |-> FALSE, get |-> "fetch", uploads |-> Parts]
libvirtExportDisk ==
    [refuses |-> setting.from = "libvirt" \/ setting.format \notin {"qcow2", "raw"},
     get |-> IF ExportConverts THEN "convert" ELSE "open", uploads |-> Parts]

Exporter == CASE setting.from = "vsphere" -> vsphereExportDisk
              [] setting.from = "proxmox" -> proxmoxExportDisk
              [] OTHER -> libvirtExportDisk
ExportRefused == Exporter.refuses \/ ~DiskInfo.found

Exporting(a, at) == ex[a].at = at /\ UNCHANGED <<disk, caller>> /\ UNCHANGED importSide
ExportTo(a, h) == ex' = [ex EXCEPT ![a] = h] /\ UNCHANGED setting

(* The handler returns; the deferred deletion of the copy comes first. *)
ExportReturns(a, h) ==
    ExportTo(a, [h EXCEPT !.at = IF a \in copies THEN "clean" ELSE "done"])

GetDiskInfo(a) ==
    /\ Exporting(a, "info")
    /\ \/ ~ExportRefused /\ CtxWorks(ex[a]) /\ ExportTo(a, [ex[a] EXCEPT !.at = Exporter.get])
       \/ ExportRefused /\ Works /\ ExportReturns(a, ex[a])
       \/ ~ExportRefused /\ CtxFails(ex[a]) /\ ExportReturns(a, ex[a])
    /\ UNCHANGED <<copies, pvc>>

(* The deletion of the copy is deferred only once the copy is made.        *)
cloneDiskToStreamOptimized(a) ==
    /\ Exporting(a, "copy")
    /\ \/ CtxWorks(ex[a]) /\ copies' = copies \cup {a}
          /\ ExportTo(a, [ex[a] EXCEPT !.at = "fetch", !.file = [p \in Parts |-> DiskPart]])
       \/ CtxFails(ex[a]) /\ copies' \in {copies, copies \cup {a}}
          /\ ExportReturns(a, ex[a])
    /\ UNCHANGED pvc
(* DownloadFile of vSphere.  An extent that cannot be had is only logged.  *)
LocalFile == IF ExportConverts THEN "convert" ELSE "open"

DownloadFile(a) ==
    /\ setting.from = "vsphere" /\ Exporting(a, "fetch")
    /\ \/ /\ CtxWorks(ex[a])
          /\ ExportTo(a, [ex[a] EXCEPT !.at = IF setting.extent THEN "extent" ELSE LocalFile])
       \/ CtxFails(ex[a]) /\ ExportReturns(a, ex[a])
    /\ UNCHANGED <<copies, pvc>>

DownloadExtent(a) ==
    /\ Exporting(a, "extent")
    /\ \/ CtxWorks(ex[a]) /\ ExportTo(a, [ex[a] EXCEPT !.at = LocalFile])
       \/ CtxFails(ex[a]) /\ ExportTo(a, [ex[a] EXCEPT !.at = LocalFile, !.file[2] = Hole])
    /\ UNCHANGED <<copies, pvc>>

(* downloadDirectFile of Proxmox copies the volume's file while the        *)
(* machine may be writing to it.                                           *)
downloadDirectFile(a) ==
    /\ setting.from = "proxmox" /\ Exporting(a, "fetch")
    /\ LET n == ex[a].n IN
       \/ /\ Works /\ n \in Parts
          /\ ExportTo(a, [ex[a] EXCEPT !.file[n] = DiskPart, !.n = n + 1])
       \/ Works /\ n \notin Parts /\ ExportTo(a, [ex[a] EXCEPT !.n = 1, !.at = LocalFile])
       \/ Fails /\ n \in Parts /\ ExportReturns(a, ex[a])
    /\ UNCHANGED <<copies, pvc>>

(* qemu-img convert: of an incomplete image it makes one with holes, or    *)
(* nothing.                                                                *)
Converted(f, format) ==
    [p \in Parts |-> IF f[p].data \in {"none", "hole"} THEN Hole
                     ELSE [data |-> f[p].data, format |-> format, by |-> "qemu-img"]]
Convert(h, f) == CtxWorks(h)
ConvertFails(h, f) == CtxFails(h) \/ (~Whole(f) /\ Works)

ConvertExport(a) ==
    /\ Exporting(a, "convert")
    /\ LET f == IF setting.from = "direct" THEN [p \in Parts |-> DiskPart] ELSE ex[a].file IN
       \/ /\ Convert(ex[a], f)
          /\ ExportTo(a, [ex[a] EXCEPT !.at = "open", !.file = Converted(f, setting.format)])
       \/ ConvertFails(ex[a], f) /\ ExportReturns(a, ex[a])
    /\ UNCHANGED <<copies, pvc>>

(* Upload: the file is created in its place, written part by part, hashed  *)
(* as it is read, and synced.  Libvirt's disk is read in place if it needs *)
(* no conversion.                                                          *)
UploadPart(a, p) ==
    CASE setting.from = "direct" /\ ~ExportConverts -> DiskPart
      [] p \notin Exporter.uploads -> End
      [] OTHER -> ex[a].file[p]

UploadCreates(a) ==
    /\ Exporting(a, "open")
    /\ \/ Works /\ pvc' = Empty /\ ExportTo(a, [ex[a] EXCEPT !.at = "write", !.n = 1])
       \/ Fails /\ UNCHANGED pvc /\ ExportReturns(a, ex[a])
    /\ UNCHANGED copies

(* Mutant of UploadWrites: a read that fails ends the file.                *)
readErrorIsEnd(a) ==
    /\ Exporting(a, "write") /\ ex[a].n \in Parts
    /\ LET n == ex[a].n  part == UploadPart(a, n) IN
       \/ /\ Works
          /\ pvc' = IF part = End THEN pvc ELSE WriteAt(pvc, n, part)
          /\ ExportTo(a, [ex[a] EXCEPT !.n = n + 1, !.sum[n] = part])
       \/ Fails /\ UNCHANGED pvc /\ ExportTo(a, [ex[a] EXCEPT !.n = 3])
    /\ UNCHANGED copies

UploadWrites(a) ==
    /\ Exporting(a, "write") /\ ex[a].n \in Parts
    /\ LET n == ex[a].n  part == UploadPart(a, n) IN
       \/ /\ Works
          /\ pvc' = IF part = End THEN pvc ELSE WriteAt(pvc, n, part)
          /\ ExportTo(a, [ex[a] EXCEPT !.n = n + 1, !.sum[n] = part])
       \/ Fails /\ UNCHANGED pvc /\ ExportReturns(a, ex[a])
    /\ UNCHANGED copies

UploadSyncs(a) ==
    /\ Exporting(a, "write") /\ ex[a].n \notin Parts
    /\ \/ Works /\ ExportReturns(a, [ex[a] EXCEPT !.ok = TRUE])
       \/ Fails /\ ExportReturns(a, ex[a])
    /\ UNCHANGED <<copies, pvc>>

(* DeleteFile, deferred, under a context of its own. *)
DeleteCopy(a) ==
    /\ Exporting(a, "clean")
    /\ ExportTo(a, [ex[a] EXCEPT !.at = "done"])
    /\ (Works /\ copies' = copies \ {a}) \/ (Fails /\ UNCHANGED copies)
    /\ UNCHANGED pvc

ExportDisk(a) ==
    \/ GetDiskInfo(a) \/ cloneDiskToStreamOptimized(a) \/ DownloadFile(a)
    \/ DownloadExtent(a) \/ downloadDirectFile(a) \/ ConvertExport(a)
    \/ UploadCreates(a) \/ UploadWrites(a) \/ UploadSyncs(a) \/ DeleteCopy(a)

-----------------------------------------------------------------------------
(* ImportDisk: what each refuses, whether it works on a temporary copy,    *)
(* whether and to which format it converts, and whether each import makes  *)
(* a volume of its own.  vSphere converts to vmdk, Proxmox to the format   *)
(* asked for unless it is qcow2, "direct" always.                          *)
vsphereImportDisk == [refuses |-> FALSE, viaTemp |-> TRUE, converts |-> setting.format # "vmdk",
                      format |-> "vmdk", ownVolume |-> FALSE]
proxmoxImportDisk == [refuses |-> FALSE, viaTemp |-> TRUE, converts |-> setting.format # "qcow2",
                      format |-> setting.format, ownVolume |-> TRUE]
directImportDisk == [refuses |-> setting.format \notin {"qcow2", "raw"}, viaTemp |-> TRUE,
                     converts |-> TRUE, format |-> setting.format, ownVolume |-> FALSE]
libvirtImportDisk == [refuses |-> FALSE, viaTemp |-> FALSE, converts |-> ~setting.ssh,
                      format |-> "qcow2", ownVolume |-> FALSE]

Importer == CASE setting.to = "vsphere" -> vsphereImportDisk
              [] setting.to = "proxmox" -> proxmoxImportDisk
              [] setting.to = "direct" -> directImportDisk
              [] OTHER -> libvirtImportDisk

Place(a) == IF Importer.ownVolume THEN a ELSE 1

Importing(a, at) == im[a].at = at /\ UNCHANGED <<disk, pvc, caller>> /\ UNCHANGED exportSide
ImportTo(a, h) == im' = [im EXCEPT ![a] = h]
ViaTemp == Importer.viaTemp

(* The files are removed by whoever returns, also while another handler of *)
(* the same target name uses them: what it has opened stays readable.      *)
(* The deferred removal of the converted file follows the conversion, and  *)
(* that of "direct" the download, under the context.                       *)
Removed(h) == (IF setting.to = "direct" /\ (h.at # "convert" \/ h.given) THEN {} ELSE {"temp"})
                \cup (IF h.at \in {"reopen", "send"} /\ Importer.converts THEN {"converted"} ELSE {})

ImportReturns(a, h) ==
    /\ ImportTo(a, [h EXCEPT !.at = "done"])
    /\ path' = [k \in Kinds |-> IF ViaTemp /\ k \in Removed(h) THEN 0 ELSE path[k]]
    /\ UNCHANGED node

Inode(kind, a) ==
    IF path[kind] # 0 THEN path[kind]
    ELSE CHOOSE i \in Attempts : \A b \in Attempts \ {a} : Live(im[b]) => im[b].node # i

(* Up to os.Create: a path that is there is truncated.  Every live handler *)
(* then shares the file.                                                   *)
CreateTemp(a) ==
    /\ ViaTemp /\ Importing(a, "place")
    /\ \/ /\ ~Importer.refuses /\ CtxWorks(im[a])
          /\ LET i == Inode("temp", a)
                 shared == \E b \in Attempts \ {a} : Live(im[b])
             IN /\ path' = [path EXCEPT !["temp"] = i]
                /\ node' = [node EXCEPT !["temp"][i] = Empty]
                /\ im' = [b \in Attempts |->
                            IF b = a THEN [im[a] EXCEPT !.at = "read", !.node = i, !.shared = shared]
                            ELSE IF Live(im[b]) THEN [im[b] EXCEPT !.shared = TRUE] ELSE im[b]]
       \/ Importer.refuses /\ Works /\ ImportReturns(a, im[a])
       \/ ~Importer.refuses /\ CtxFails(im[a]) /\ ImportReturns(a, im[a])
    /\ UNCHANGED vol

(* Download: to the end of the file on the claim, hashing what is read.    *)
DownloadReads(a) ==
    /\ ViaTemp /\ Importing(a, "read") /\ ~AtEnd(pvc, im[a].n)
    /\ LET n == im[a].n IN
       \/ /\ Works
          /\ node' = [node EXCEPT !["temp"][im[a].node] = WriteAt(@, n, pvc[n])]
          /\ ImportTo(a, [im[a] EXCEPT !.n = n + 1, !.sum[n] = pvc[n]])
          /\ UNCHANGED path
       \/ Fails /\ ImportReturns(a, im[a])
    /\ UNCHANGED vol

(* Mutant of DownloadVerifies: a mismatch is only logged. *)
mismatchIsLogged(a) ==
    /\ ViaTemp /\ Importing(a, "read") /\ AtEnd(pvc, im[a].n)
    /\ Works
    /\ ImportTo(a, [im[a] EXCEPT !.at = "convert", !.checked = setting.verify])
    /\ UNCHANGED <<path, node, vol>>

DownloadVerifies(a) ==
    /\ ViaTemp /\ Importing(a, "read") /\ AtEnd(pvc, im[a].n)
    /\ Works
    /\ IF setting.verify /\ im[a].sum # im[a].expected
       THEN ImportReturns(a, im[a])
       ELSE /\ ImportTo(a, [im[a] EXCEPT !.at = "convert", !.checked = setting.verify])
            /\ UNCHANGED <<path, node>>
    /\ UNCHANGED vol

TempFile == IF path["temp"] = 0 THEN Empty ELSE node["temp"][path["temp"]]

ConvertImport(a) ==
    /\ ViaTemp /\ Importing(a, "convert") /\ Importer.converts
    /\ LET i == Inode("converted", a)  there == path["temp"] # 0 IN
       \/ /\ there /\ Convert(im[a], TempFile)
          /\ IF setting.to = "direct"
             THEN /\ vol' = [vol EXCEPT ![Place(a)] = Converted(TempFile, Importer.format)]
                  /\ ImportReturns(a, [im[a] EXCEPT !.ok = TRUE])
             ELSE /\ path' = [path EXCEPT !["converted"] = i]
                  /\ node' = [node EXCEPT !["converted"][i] = Converted(TempFile, Importer.format)]
                  /\ ImportTo(a, [im[a] EXCEPT !.at = "reopen"])
                  /\ UNCHANGED vol
       \/ ~there /\ Works /\ ImportReturns(a, im[a]) /\ UNCHANGED vol
       \/ there /\ ConvertFails(im[a], TempFile) /\ ImportReturns(a, im[a]) /\ UNCHANGED vol

(* The file to send is opened again by its name, and its size taken.       *)
Sent(h) == node[h.kind][h.node]
Size(f) == IF f[2] # End THEN 2 ELSE IF f[1] # End THEN 1 ELSE 0

OpenUpload(a) ==
    /\ ViaTemp /\ Works
    /\ \/ Importing(a, "convert") /\ ~Importer.converts
       \/ Importing(a, "reopen")
    /\ LET k == IF Importer.converts THEN "converted" ELSE "temp" IN
       IF path[k] # 0
       THEN /\ ImportTo(a, [im[a] EXCEPT !.at = "send", !.kind = k, !.node = path[k], !.n = 1,
                                         !.size = Size(node[k][path[k]])])
            /\ UNCHANGED <<path, node>>
       ELSE ImportReturns(a, im[a])
    /\ UNCHANGED vol

(* UploadFile of vSphere, one request that fails when there is less to     *)
(* send than was announced; uploadDirectFile of Proxmox copies to the end, *)
(* renames the copy, and does not look whether that worked.                *)
SendPart(a) ==
    /\ Importing(a, "send") /\ ~AtEnd(Sent(im[a]), im[a].n)
    /\ LET n == im[a].n  part == Sent(im[a])[n] IN
       \/ /\ IF setting.to = "vsphere" THEN CtxWorks(im[a]) ELSE Works
          /\ ImportTo(a, [im[a] EXCEPT !.n = n + 1, !.file = WriteAt(@, n, part)])
          /\ vol' = IF setting.to = "proxmox" THEN vol
                    ELSE [vol EXCEPT ![Place(a)] = WriteAt(IF n = 1 THEN Empty ELSE @, n, part)]
          /\ UNCHANGED <<path, node>>
       \/ /\ IF setting.to = "vsphere" THEN CtxFails(im[a]) ELSE Fails
          /\ ImportReturns(a, im[a]) /\ UNCHANGED vol

UploadFile(a) ==
    /\ setting.to = "vsphere"
    /\ Importing(a, "send") /\ AtEnd(Sent(im[a]), im[a].n)
    /\ ImportReturns(a, [im[a] EXCEPT !.ok = ~im[a].given /\ im[a].n > im[a].size])
    /\ vol' = IF im[a].n = 1 /\ ~im[a].given THEN [vol EXCEPT ![1] = Empty] ELSE vol
    /\ Works

uploadDirectFile(a) ==
    /\ setting.to = "proxmox"
    /\ Importing(a, "send") /\ AtEnd(Sent(im[a]), im[a].n)
    /\ \/ /\ Works /\ vol' = [vol EXCEPT ![Place(a)] = im[a].file]
          /\ ImportReturns(a, [im[a] EXCEPT !.ok = TRUE])
       \/ Fails /\ UNCHANGED vol /\ ImportReturns(a, [im[a] EXCEPT !.ok = TRUE, !.placed = FALSE])
       \/ Fails /\ UNCHANGED vol /\ ImportReturns(a, im[a])

(* ImportDisk of libvirt's server.  Over ssh the file is copied into the   *)
(* pool's directory under the volume's name, whatever its format ...       *)
copyDiskToRemote(a) ==
    /\ ~ViaTemp /\ setting.ssh /\ Importing(a, "place") /\ ~AtEnd(pvc, im[a].n)
    /\ LET n == im[a].n IN
       \/ /\ CtxWorks(im[a])
          /\ vol' = [vol EXCEPT ![1] = WriteAt(IF n = 1 THEN Empty ELSE @, n, pvc[n])]
          /\ ImportTo(a, [im[a] EXCEPT !.n = n + 1])
          /\ UNCHANGED <<path, node>>
       \/ CtxFails(im[a]) /\ UNCHANGED vol /\ ImportReturns(a, im[a])

(* ... and used there; a local one is converted from qcow2.                *)
CreateVolumeFromImageFile(a) ==
    /\ ~ViaTemp /\ Importing(a, "place")
    /\ setting.ssh => AtEnd(pvc, im[a].n)
    /\ LET local == ~setting.ssh  readable == pvc[1].format = "qcow2" IN
       \/ /\ CtxWorks(im[a]) /\ (local => readable)
          /\ vol' = IF local THEN [vol EXCEPT ![1] = Converted(pvc, "qcow2")] ELSE vol
          /\ IF setting.verify THEN ImportTo(a, [im[a] EXCEPT !.at = "sum"])
             ELSE ImportTo(a, [im[a] EXCEPT !.at = "done", !.ok = TRUE])
          /\ UNCHANGED <<path, node>>
       \/ /\ CtxFails(im[a]) \/ (local /\ (~readable \/ ~Whole(pvc)) /\ Works)
          /\ UNCHANGED vol /\ ImportReturns(a, im[a])

(* sha256sum of the volume; one that cannot be computed is not compared.   *)
ChecksumOfVolume(a) ==
    /\ Importing(a, "sum")
    /\ \/ /\ CtxWorks(im[a])
          /\ LET same == vol[1] = im[a].expected IN
             ImportReturns(a, [im[a] EXCEPT !.ok = same, !.checked = same])
       \/ CtxFails(im[a]) /\ ImportReturns(a, [im[a] EXCEPT !.ok = TRUE])
    /\ UNCHANGED vol

ImportDisk(a) ==
    \/ CreateTemp(a) \/ DownloadReads(a) \/ DownloadVerifies(a) \/ ConvertImport(a)
    \/ OpenUpload(a) \/ SendPart(a) \/ UploadFile(a) \/ uploadDirectFile(a)
    \/ copyDiskToRemote(a) \/ CreateVolumeFromImageFile(a) \/ ChecksumOfVolume(a)

-----------------------------------------------------------------------------
(* The migration: one call at a time.  An export that has succeeded is     *)
(* kept over all retries (ExportID), an import that fails is tried again   *)
(* with the checksum of that export.                                       *)
Free(h) == {a \in Attempts : ~Live(h[a]) /\ \A b \in Attempts : b < a => Live(h[b])}

callExport ==
    /\ caller.phase = "export" /\ caller.call = 0
    /\ \E a \in Free(ex) :
          /\ ex' = [ex EXCEPT ![a] = [NoExport EXCEPT !.at = "info"]]
          /\ caller' = [caller EXCEPT !.call = a]
    /\ UNCHANGED <<disk, copies, pvc, failures>> /\ UNCHANGED importSide

(* Mutant of exportAnswered: the export counts as done whatever it says.   *)
anyExportCounts ==
    /\ caller.phase = "export" /\ caller.call # 0
    /\ LET h == ex[caller.call] IN
       /\ h.at = "done"
       /\ caller' = [caller EXCEPT !.phase = "import", !.call = 0, !.reported = h.sum]
    /\ UNCHANGED <<disk, pvc, failures>> /\ UNCHANGED exportSide /\ UNCHANGED importSide

exportAnswered ==
    /\ caller.phase = "export" /\ caller.call # 0
    /\ LET h == ex[caller.call] IN
       /\ h.at = "done"
       /\ caller' = IF h.ok THEN [caller EXCEPT !.phase = "import", !.call = 0, !.reported = h.sum]
                    ELSE [caller EXCEPT !.call = 0]
    /\ UNCHANGED <<disk, pvc, failures>> /\ UNCHANGED exportSide /\ UNCHANGED importSide

callImport ==
    /\ caller.phase = "import" /\ caller.call = 0
    /\ \E a \in Free(im) :
          /\ im' = [im EXCEPT ![a] = [NoImport EXCEPT !.at = "place", !.expected = caller.reported]]
          /\ caller' = [caller EXCEPT !.call = a]
    /\ UNCHANGED <<disk, pvc, path, node, vol, failures>> /\ UNCHANGED exportSide

importAnswered ==
    /\ caller.phase = "import" /\ caller.call # 0
    /\ LET h == im[caller.call] IN
       /\ h.at = "done"
       /\ caller' = IF h.ok THEN [caller EXCEPT !.phase = "done"] ELSE [caller EXCEPT !.call = 0]
    /\ UNCHANGED <<disk, pvc, failures>> /\ UNCHANGED exportSide /\ UNCHANGED importSide

Migration == callExport \/ exportAnswered \/ callImport \/ importAnswered

-----------------------------------------------------------------------------
(* Faults.  The caller gives up after 30 minutes, loses the answer, or     *)
(* restarts before it has saved it.                                        *)
GivesUp ==
    /\ caller.call # 0 /\ caller.phase # "done" /\ Fails
    /\ caller' = [caller EXCEPT !.call = 0, !.abandoned = @ \/ caller.phase = "export"]
    /\ IF caller.phase = "export"
       THEN ex' = [ex EXCEPT ![caller.call].given = TRUE] /\ UNCHANGED im
       ELSE im' = [im EXCEPT ![caller.call].given = TRUE] /\ UNCHANGED ex
    /\ UNCHANGED <<setting, disk, copies, pvc, path, node, vol>>

(* A provider's container starts anew, without its handlers and its        *)
(* temporary files; nothing deferred has run.                              *)
Died(h) == IF Live(h) THEN [h EXCEPT !.at = "done"] ELSE h

SourceRestarts ==
    /\ Fails /\ \E a \in Attempts : Live(ex[a])
    /\ ex' = [a \in Attempts |-> Died(ex[a])]
    /\ UNCHANGED <<disk, copies, pvc, caller>> /\ UNCHANGED importSide

TargetRestarts ==
    /\ Fails /\ \E a \in Attempts : Live(im[a])
    /\ im' = [a \in Attempts |-> Died(im[a])]
    /\ path' = [k \in Kinds |-> 0]
    /\ UNCHANGED <<disk, pvc, node, vol, caller>> /\ UNCHANGED exportSide

SourceWrites ==
    /\ setting.live /\ disk = "old" /\ disk' = "new"
    /\ UNCHANGED <<copies, pvc, ex, caller, failures>> /\ UNCHANGED importSide

Next ==
    \/ \E a \in Attempts : ExportDisk(a) \/ ImportDisk(a)
    \/ Migration
    \/ GivesUp \/ SourceRestarts \/ TargetRestarts \/ SourceWrites

Spec == Init /\ [][Next]_vars

(* Handlers run to their end, and a failed migration is tried again.       *)
Fairness ==
    /\ \A a \in Attempts : WF_vars(ExportDisk(a)) /\ WF_vars(ImportDisk(a))
    /\ WF_vars(Migration)

FairSpec == Spec /\ Fairness

-----------------------------------------------------------------------------
(* One type invariant. *)
TypeOK ==
    /\ setting \in Settings /\ disk \in {"old", "new"} /\ copies \subseteq Attempts
    /\ pvc \in Files /\ path \in [Kinds -> {0} \cup Attempts]
    /\ node \in [Kinds -> [Attempts -> Files]] /\ vol \in [Attempts -> Files]
    /\ \A a \in Attempts :
          /\ ex[a].n \in 1..3 /\ ex[a].file \in Files /\ ex[a].sum \in Files
          /\ im[a].n \in 1..3 /\ im[a].node \in {0} \cup Attempts
          /\ im[a].file \in Files /\ im[a].sum \in Files /\ im[a].expected \in Files
    /\ caller.phase \in {"export", "import", "done"} /\ caller.call \in {0} \cup Attempts
    /\ caller.reported \in Files
    /\ failures \in 0..setting.maxFailures

(* A successful export has reported the whole disk: a source that failed   *)
(* half way, or a handler that went on after its caller, is never taken    *)
(* for the image.  (Except for a vSphere disk with extent files: ExportDisk *)
(* goes on without one it cannot have.)                                    *)
ExportHoldsTheDisk ==
    caller.phase # "export" /\ ~setting.extent => Whole(caller.reported)

(* The transfer keeps its promise (Transfer.tla).  An import counts as     *)
(* verified if the checksum was compared, the rename of Proxmox worked,    *)
(* and no other import of the same target name was alive: two of them      *)
(* share the temporary file, and the second writes into it after the first *)
(* has been verified.                                                      *)
installed ==
    IF caller.phase # "done" THEN {}
    ELSE LET h == im[caller.call]
         IN {[image |-> Data(vol[Place(caller.call)]),
              verified |-> h.checked /\ h.placed /\ ~h.shared]}

exported == IF caller.phase = "export" THEN {} ELSE {Data(caller.reported)}

Promise == INSTANCE Transfer
    WITH Images <- [Parts -> {"none", "hole", "base", "old", "new"}]

VerifiedImportIsTheExport == Promise!Spec

(* The transfer comes to an end where the two providers can do it, if the  *)
(* retry policy allows enough retries, unless an abandoned export has left *)
(* another file on the claim than the one reported: the disk has changed   *)
(* since, or that export failed half way.  Nothing is exported again then, *)
(* and no import can succeed.                                              *)
Possible ==
    /\ ~ExportRefused /\ ~Importer.refuses
    /\ setting.to = "libvirt" /\ ~setting.ssh =>
          setting.format = "qcow2" /\ (setting.verify => ExportConverts)

Overwritten ==
    /\ caller.phase = "import" /\ caller.abandoned
    /\ pvc # caller.reported /\ \A a \in Attempts : ~Live(ex[a])

Converges == Possible => <>(caller.phase = "done" \/ Overwritten)
=============================================================================

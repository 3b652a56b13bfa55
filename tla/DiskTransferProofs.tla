-------------------------- MODULE DiskTransferProofs --------------------------
(***************************************************************************)
(* Proofs about the transfer of a disk, for every pair of providers, every *)
(* format, any number of handlers alive at a time and any number of        *)
(* failures: a successful export has reported the whole disk, and the      *)
(* transfer implements Transfer.                                           *)
(***************************************************************************)
EXTENDS DiskTransfer, TLAPS

ExportSteps == {"idle", "info", "copy", "fetch", "extent", "convert", "open", "write", "clean", "done"}
ImportSteps == {"idle", "place", "read", "convert", "reopen", "send", "sum", "done"}
OnTemp == {"read", "convert", "reopen", "send"}

ExportType == [at : ExportSteps, n : 1..3, file : Files, sum : Files, ok : BOOLEAN, given : BOOLEAN]
ImportType == [at : ImportSteps, n : 1..3, kind : Kinds, node : {0} \cup Attempts, size : 0..2,
               sum : Files, file : Files, expected : Files, checked : BOOLEAN, placed : BOOLEAN,
               shared : BOOLEAN, ok : BOOLEAN, given : BOOLEAN]
CallerType == [phase : {"export", "import", "done"}, call : {0} \cup Attempts,
               reported : Files, abandoned : BOOLEAN]

(* The types of the state, as far as the proofs need them.  A handler that *)
(* works on temporary files has an inode.                                  *)
SourceTypes ==
    /\ setting \in SettingType /\ disk \in {"old", "new"} /\ pvc \in Files
    /\ ex \in [Attempts -> ExportType]
TargetTypes ==
    /\ im \in [Attempts -> ImportType]
    /\ \A a \in Attempts : im[a].at \in OnTemp => im[a].node \in Attempts
    /\ path \in [Kinds -> {0} \cup Attempts]
    /\ node \in [Kinds -> [Attempts -> Files]]
    /\ vol \in [Attempts -> Files]
Types == SourceTypes /\ TargetTypes /\ caller \in CallerType

(* A part with data of the disk in it, and a file of such parts.           *)
Has(part) == part.data \notin {"none", "hole"}
Filled(f) == \A p \in Parts : Has(f[p])

-----------------------------------------------------------------------------
(* Files: what is written is a file, and what can be read from it.         *)
LEMMA Constants ==
    /\ End \in PartType /\ Hole \in PartType /\ Empty \in Files /\ End # Hole
BY Zenon DEF End, Hole, PartType, Empty, Files, Parts, Formats

LEMMA WriteAtType ==
    ASSUME NEW f \in Files, NEW p \in Parts, NEW part \in PartType
    PROVE  /\ WriteAt(f, p, part) \in Files
           /\ \A q \in Parts : WriteAt(f, p, part)[q].data
                 = IF q = p THEN part.data
                   ELSE IF q < p /\ f[q] = End THEN "hole" ELSE f[q].data
BY Constants, Zenon DEF WriteAt, Files, Hole, Parts

LEMMA ConvertedType ==
    ASSUME NEW f \in Files, NEW format \in Formats
    PROVE  /\ Converted(f, format) \in Files
           /\ Data(Converted(f, format)) = Data(f)
           /\ Filled(f) => Filled(Converted(f, format))
<1>1. Converted(f, format) \in Files
  BY Constants, Zenon DEF Converted, Files, PartType
<1>2. \A p \in Parts : Converted(f, format)[p].data
            = IF f[p].data \in {"none", "hole"} THEN "hole" ELSE f[p].data
  BY DEF Converted, Hole
<1>3. Data(Converted(f, format)) = Data(f)
  BY <1>2 DEF Data
<1>4. Filled(f) => Filled(Converted(f, format))
  BY <1>2 DEF Filled, Has
<1> QED
  BY <1>1, <1>3, <1>4

LEMMA FilledIsWhole == ASSUME NEW f, Filled(f) PROVE Whole(f)
<1>1. End.data = "none" /\ Hole.data = "hole"
  BY DEF End, Hole
<1> QED
  BY <1>1 DEF Filled, Has, Whole

LEMMA DataType ==
    ASSUME NEW f \in Files
    PROVE  Data(f) \in [Parts -> {"none", "hole", "base", "old", "new"}]
BY Zenon DEF Data, Files, PartType

(* The part of the disk that an export reads.                              *)
LEMMA DiskPartType ==
    ASSUME SourceTypes
    PROVE  DiskPart \in PartType /\ Has(DiskPart)
<1>1. DiskInfo.data \in {"base", "old", "new"}
  BY DEF SourceTypes, DiskInfo, vsphereGetDiskInfo, proxmoxGetDiskInfo, libvirtGetDiskInfo
<1>2. setting.native \in Formats
  BY DEF SourceTypes, SettingType
<1> QED
  BY <1>1, <1>2, Zenon DEF DiskPart, PartType, Has

-----------------------------------------------------------------------------
(* There is an inode that no other live import has opened.                 *)
LEMMA FreeInode ==
    ASSUME TargetTypes, NEW a \in Attempts
    PROVE  \E i \in Attempts : \A b \in Attempts \ {a} : im[b].node # i
<1> DEFINE opened == [b \in Attempts |-> im[b].node]
<1>1. opened \in [Attempts -> {0} \cup Attempts]
  BY DEF TargetTypes, ImportType
<1>2. PICK i \in Attempts : \A b \in Attempts \ {a} : opened[b] # i
  BY <1>1, InodesAssumption, Zenon
<1> QED
  BY <1>2

LEMMA InodeType ==
    ASSUME TargetTypes, NEW a \in Attempts, NEW kind \in Kinds
    PROVE  Inode(kind, a) \in Attempts
BY FreeInode DEF Inode, TargetTypes

-----------------------------------------------------------------------------
(* The export.  Libvirt's disk is uploaded from where it is if it needs no *)
(* conversion, every other from the handler's file, which is complete when *)
(* the upload begins; what has been hashed is never a hole.                *)
FromDisk == setting.from = "direct" /\ ~ExportConverts

ExportGood(h) ==
    /\ h.at \in {"copy", "fetch", "extent", "convert", "open", "write"} => setting.from # "libvirt"
    /\ h.at # "extent"
    /\ h.at = "info" => h.n = 1
    /\ h.at = "fetch" /\ setting.from = "vsphere" => Filled(h.file)
    /\ h.at = "fetch" /\ setting.from = "proxmox" => \A q \in Parts : q < h.n => Has(h.file[q])
    /\ h.at = "convert" /\ setting.from # "direct" => Filled(h.file)
    /\ h.at \in {"open", "write"} /\ ~FromDisk => Filled(h.file)
    /\ h.at = "write" => \A q \in Parts : q < h.n => Has(h.sum[q])
    /\ h.ok => Filled(h.sum)

ExportInv ==
    ~setting.extent => /\ \A a \in Attempts : ExportGood(ex[a])
                       /\ caller.phase # "export" => Filled(caller.reported)

(* Whether the export converts does not depend on what is on the disk.     *)
LEMMA ConvertsKept ==
    ASSUME setting' = setting
    PROVE  ExportConverts' <=> ExportConverts
<1>1. DiskInfo.format = CASE setting.from = "vsphere" -> "vmdk"
                          [] setting.from = "proxmox" -> IF setting.native = "raw" THEN "raw" ELSE "qcow2"
                          [] OTHER -> setting.native
  BY DEF DiskInfo, vsphereGetDiskInfo, proxmoxGetDiskInfo, libvirtGetDiskInfo
<1>2. DiskInfo'.format = CASE setting'.from = "vsphere" -> "vmdk"
                           [] setting'.from = "proxmox" -> IF setting'.native = "raw" THEN "raw" ELSE "qcow2"
                           [] OTHER -> setting'.native
  BY DEF DiskInfo, vsphereGetDiskInfo, proxmoxGetDiskInfo, libvirtGetDiskInfo
<1> QED
  BY <1>1, <1>2 DEF ExportConverts

LEMMA GoodKept ==
    ASSUME setting' = setting, NEW b, ex'[b] = ex[b]
    PROVE  ExportGood(ex[b]) => ExportGood(ex[b])'
BY ConvertsKept, Zenon DEF ExportGood, FromDisk, Filled, Has, Parts

(* A step that leaves a handler at h.                                      *)
LEMMA ExportMoved ==
    ASSUME SourceTypes, ExportInv, NEW a \in Attempts, NEW h \in ExportType, ExportTo(a, h),
           ~setting.extent => ExportGood(h), caller' = caller, disk' = disk, pvc' \in Files
    PROVE  SourceTypes' /\ ExportInv'
<1>1. ex' = [ex EXCEPT ![a] = h] /\ setting' = setting
  BY DEF ExportTo
<1>2. ex' \in [Attempts -> ExportType]
  BY <1>1 DEF SourceTypes
<1>3. SourceTypes'
  BY <1>1, <1>2 DEF SourceTypes
<1>4. ASSUME ~setting'.extent, NEW b \in Attempts  PROVE ExportGood(ex[b])'
  <2>1. CASE b = a
    <3>1. ex'[b] = h
      BY <1>1, <2>1 DEF SourceTypes
    <3> QED
      BY <1>1, <1>4, <3>1, ConvertsKept, Zenon DEF ExportGood, FromDisk, Filled, Has, Parts
  <2>2. CASE b # a
    <3>1. ex'[b] = ex[b]
      BY <1>1, <2>2 DEF SourceTypes
    <3>2. ExportGood(ex[b])
      BY <1>1, <1>4 DEF ExportInv
    <3> QED
      BY <1>1, <3>1, <3>2, GoodKept
  <2> QED
    BY <2>1, <2>2
<1>5. ~setting'.extent /\ caller'.phase # "export" => Filled(caller'.reported)
  BY <1>1 DEF ExportInv
<1> QED
  BY <1>3, <1>4, <1>5 DEF ExportInv, Filled, Has, Parts

LEMMA ExportReturned ==
    ASSUME SourceTypes, ExportInv, NEW a \in Attempts, NEW h \in ExportType, ExportReturns(a, h),
           ~setting.extent /\ h.ok => Filled(h.sum), caller' = caller, disk' = disk, pvc' \in Files
    PROVE  SourceTypes' /\ ExportInv'
<1> DEFINE g == [h EXCEPT !.at = IF a \in copies THEN "clean" ELSE "done"]
<1>1. g \in ExportType /\ g.at \in {"clean", "done"} /\ g.ok = h.ok /\ g.sum = h.sum
  BY DEF ExportType, ExportSteps
<1>2. ~setting.extent => ExportGood(g)
  <2> HIDE DEF g
  <2> QED
    BY <1>1 DEF ExportGood
<1>3. ExportTo(a, g)
  BY DEF ExportReturns
<1> HIDE DEF g
<1> QED
  BY <1>1, <1>2, <1>3, ExportMoved

(* What a handler that is about to take a step knows.                      *)
LEMMA ExportBefore ==
    ASSUME SourceTypes, ExportInv, NEW a \in Attempts
    PROVE  /\ ex[a] \in ExportType
           /\ ~setting.extent => ExportGood(ex[a])
           /\ ~setting.extent /\ ex[a].ok => Filled(ex[a].sum)
BY DEF SourceTypes, ExportInv, ExportGood

LEMMA ExportFails ==
    ASSUME SourceTypes, ExportInv, NEW a \in Attempts, NEW at, Exporting(a, at),
           ExportReturns(a, ex[a]), pvc' \in Files
    PROVE  SourceTypes' /\ ExportInv'
BY ExportBefore, ExportReturned DEF Exporting

LEMMA GetDiskInfoStep ==
    ASSUME SourceTypes, ExportInv, NEW a \in Attempts, GetDiskInfo(a)
    PROVE  SourceTypes' /\ ExportInv'
<1>1. pvc' \in Files /\ Exporting(a, "info")
  BY DEF GetDiskInfo, SourceTypes
<1>2. CASE ExportReturns(a, ex[a])
  BY <1>1, <1>2, ExportFails
<1>3. CASE ~ExportRefused /\ ExportTo(a, [ex[a] EXCEPT !.at = Exporter.get])
  <2> DEFINE h == [ex[a] EXCEPT !.at = Exporter.get]
  <2>1. /\ setting.from # "libvirt"
        /\ Exporter.get = CASE setting.from = "vsphere" -> "copy" [] setting.from = "proxmox" -> "fetch"
                            [] OTHER -> IF ExportConverts THEN "convert" ELSE "open"
    BY <1>3, Zenon DEF ExportRefused, Exporter, vsphereExportDisk, proxmoxExportDisk, libvirtExportDisk
  <2>2. setting.from \in {"vsphere", "proxmox", "direct"}
    BY <2>1 DEF SourceTypes, SettingType
  <2>3. h \in ExportType
    BY <2>1, ExportBefore DEF ExportType, ExportSteps
  <2>4. h.at = Exporter.get /\ h.n = ex[a].n /\ h.ok = ex[a].ok /\ h.sum = ex[a].sum
    BY ExportBefore DEF ExportType
  <2>5. ~setting.extent => ex[a].n = 1
    BY <1>1, ExportBefore DEF Exporting, ExportGood
  <2>6. ~setting.extent => ExportGood(h)
    <3> HIDE DEF h
    <3> QED
      BY <2>1, <2>2, <2>4, <2>5, ExportBefore DEF ExportGood, FromDisk, Parts
  <2>7. ExportTo(a, h)
    BY <1>3
  <2> HIDE DEF h
  <2> QED
    BY <1>1, <2>3, <2>6, <2>7, ExportMoved DEF Exporting
<1> QED
  BY <1>2, <1>3 DEF GetDiskInfo

LEMMA CopyStep ==
    ASSUME SourceTypes, ExportInv, NEW a \in Attempts, cloneDiskToStreamOptimized(a)
    PROVE  SourceTypes' /\ ExportInv'
<1>1. pvc' \in Files /\ Exporting(a, "copy")
  BY DEF cloneDiskToStreamOptimized, SourceTypes
<1>2. CASE ExportReturns(a, ex[a])
  BY <1>1, <1>2, ExportFails
<1>3. CASE ExportTo(a, [ex[a] EXCEPT !.at = "fetch", !.file = [p \in Parts |-> DiskPart]])
  <2> DEFINE h == [ex[a] EXCEPT !.at = "fetch", !.file = [p \in Parts |-> DiskPart]]
  <2>1. [p \in Parts |-> DiskPart] \in Files /\ Filled([p \in Parts |-> DiskPart])
    BY DiskPartType DEF Files, Filled
  <2>2. h \in ExportType
    BY <2>1, ExportBefore, Zenon DEF ExportType, ExportSteps
  <2>3. /\ h.at = "fetch" /\ h.file = [p \in Parts |-> DiskPart]
        /\ h.ok = ex[a].ok /\ h.sum = ex[a].sum
    BY ExportBefore DEF ExportType
  <2>4. ~setting.extent => ExportGood(h)
    <3>1. ~setting.extent => setting.from # "libvirt"
      BY <1>1, ExportBefore DEF Exporting, ExportGood
    <3> HIDE DEF h
    <3>2. Filled(h.file)
      BY <2>1, <2>3
    <3> QED
      BY <2>3, <3>1, <3>2, ExportBefore DEF ExportGood, Filled
  <2>5. ExportTo(a, h)
    BY <1>3
  <2> HIDE DEF h
  <2> QED
    BY <1>1, <2>2, <2>4, <2>5, ExportMoved DEF Exporting
<1> QED
  BY <1>2, <1>3 DEF cloneDiskToStreamOptimized

LEMMA DownloadFileStep ==
    ASSUME SourceTypes, ExportInv, NEW a \in Attempts, DownloadFile(a)
    PROVE  SourceTypes' /\ ExportInv'
<1>1. pvc' \in Files /\ Exporting(a, "fetch") /\ setting.from = "vsphere"
  BY DEF DownloadFile, SourceTypes
<1>2. CASE ExportReturns(a, ex[a])
  BY <1>1, <1>2, ExportFails
<1>3. CASE ExportTo(a, [ex[a] EXCEPT !.at = IF setting.extent THEN "extent" ELSE LocalFile])
  <2> DEFINE h == [ex[a] EXCEPT !.at = IF setting.extent THEN "extent" ELSE LocalFile]
  <2>1. h \in ExportType
    BY ExportBefore DEF ExportType, ExportSteps, LocalFile
  <2>2. /\ h.at = IF setting.extent THEN "extent" ELSE IF ExportConverts THEN "convert" ELSE "open"
        /\ h.file = ex[a].file /\ h.ok = ex[a].ok /\ h.sum = ex[a].sum
    BY ExportBefore DEF ExportType, LocalFile
  <2>3. ~setting.extent => Filled(ex[a].file)
    BY <1>1, ExportBefore DEF Exporting, ExportGood
  <2>4. ~setting.extent => ExportGood(h)
    <3> HIDE DEF h
    <3> QED
      BY <1>1, <2>2, <2>3, ExportBefore DEF ExportGood, Filled
  <2>5. ExportTo(a, h)
    BY <1>3
  <2> HIDE DEF h
  <2> QED
    BY <1>1, <2>1, <2>4, <2>5, ExportMoved DEF Exporting
<1> QED
  BY <1>2, <1>3 DEF DownloadFile

LEMMA DownloadExtentStep ==
    ASSUME SourceTypes, ExportInv, NEW a \in Attempts, DownloadExtent(a)
    PROVE  SourceTypes' /\ ExportInv'
<1>1. pvc' \in Files /\ Exporting(a, "extent") /\ setting.extent
  BY ExportBefore DEF DownloadExtent, SourceTypes, SettingType, Exporting, ExportGood
<1>2. ASSUME NEW h \in ExportType, ExportTo(a, h)
      PROVE  SourceTypes' /\ ExportInv'
  BY <1>1, <1>2, ExportMoved DEF Exporting
<1>3. [ex[a] EXCEPT !.at = LocalFile] \in ExportType
  BY ExportBefore DEF ExportType, ExportSteps, LocalFile
<1>4. [ex[a] EXCEPT !.at = LocalFile, !.file[2] = Hole] \in ExportType
  BY ExportBefore, Constants, Zenon DEF ExportType, ExportSteps, LocalFile, Files, Parts
<1> QED
  BY <1>2, <1>3, <1>4 DEF DownloadExtent

LEMMA DownloadDirectStep ==
    ASSUME SourceTypes, ExportInv, NEW a \in Attempts, downloadDirectFile(a)
    PROVE  SourceTypes' /\ ExportInv'
<1>1. pvc' \in Files /\ Exporting(a, "fetch") /\ setting.from = "proxmox"
  BY DEF downloadDirectFile, SourceTypes
<1>2. CASE ExportReturns(a, ex[a])
  BY <1>1, <1>2, ExportFails
<1>3. ~setting.extent => \A q \in Parts : q < ex[a].n => Has(ex[a].file[q])
  BY <1>1, ExportBefore DEF Exporting, ExportGood
<1>4. CASE /\ ex[a].n \in Parts
           /\ ExportTo(a, [ex[a] EXCEPT !.file[ex[a].n] = DiskPart, !.n = ex[a].n + 1])
  <2> DEFINE h == [ex[a] EXCEPT !.file[ex[a].n] = DiskPart, !.n = ex[a].n + 1]
  <2>1. h \in ExportType
    <3>1. ex[a].n \in 1..3 /\ ex[a].file \in [Parts -> PartType]
      BY ExportBefore DEF ExportType, Files
    <3>2. [ex[a].file EXCEPT ![ex[a].n] = DiskPart] \in Files /\ ex[a].n + 1 \in 1..3
      BY <1>4, <3>1, DiskPartType DEF Files, Parts
    <3> QED
      BY <3>2, ExportBefore, Zenon DEF ExportType
  <2>2. /\ h.at = "fetch" /\ h.n = ex[a].n + 1 /\ h.file = [ex[a].file EXCEPT ![ex[a].n] = DiskPart]
        /\ h.ok = ex[a].ok /\ h.sum = ex[a].sum
    BY <1>1, ExportBefore DEF ExportType, Exporting
  <2>3. ex[a].n \in 1..3 /\ ex[a].file \in [Parts -> PartType]
    BY ExportBefore DEF ExportType, Files
  <2>4. ~setting.extent => \A q \in Parts : q < h.n => Has(h.file[q])
    <3> HIDE DEF h
    <3> QED
      BY <1>3, <2>2, <2>3, DiskPartType DEF Parts
  <2>5. ~setting.extent => ExportGood(h)
    <3> HIDE DEF h
    <3> QED
      BY <1>1, <2>2, <2>4, ExportBefore DEF ExportGood
  <2>6. ExportTo(a, h)
    BY <1>4
  <2> HIDE DEF h
  <2> QED
    BY <1>1, <2>1, <2>5, <2>6, ExportMoved DEF Exporting
<1>5. CASE /\ ex[a].n \notin Parts
           /\ ExportTo(a, [ex[a] EXCEPT !.n = 1, !.at = LocalFile])
  <2> DEFINE h == [ex[a] EXCEPT !.n = 1, !.at = LocalFile]
  <2>1. h \in ExportType
    <3>1. LocalFile \in ExportSteps /\ 1 \in 1..3
      BY DEF ExportSteps, LocalFile
    <3> QED
      BY <3>1, ExportBefore, Zenon DEF ExportType
  <2>2. /\ h.at \in {"convert", "open"} /\ h.file = ex[a].file
        /\ h.ok = ex[a].ok /\ h.sum = ex[a].sum
    BY ExportBefore DEF ExportType, LocalFile
  <2>3. ex[a].n = 3
    BY <1>5, ExportBefore DEF ExportType, Parts
  <2>4. ~setting.extent => Filled(ex[a].file)
    BY <1>3, <2>3 DEF Filled, Parts
  <2>5. ~setting.extent => ExportGood(h)
    <3> HIDE DEF h
    <3> QED
      BY <1>1, <2>2, <2>4, ExportBefore, Zenon DEF ExportGood, Filled
  <2>6. ExportTo(a, h)
    BY <1>5
  <2> HIDE DEF h
  <2> QED
    BY <1>1, <2>1, <2>5, <2>6, ExportMoved DEF Exporting
<1> QED
  BY <1>2, <1>4, <1>5 DEF downloadDirectFile

LEMMA ConvertExportStep ==
    ASSUME SourceTypes, ExportInv, NEW a \in Attempts, ConvertExport(a)
    PROVE  SourceTypes' /\ ExportInv'
<1> DEFINE f == IF setting.from = "direct" THEN [p \in Parts |-> DiskPart] ELSE ex[a].file
           g == Converted(f, setting.format)
           h == [ex[a] EXCEPT !.at = "open", !.file = g]
<1>1. pvc' \in Files /\ Exporting(a, "convert")
  BY DEF ConvertExport, SourceTypes
<1>2. CASE ExportReturns(a, ex[a])
  BY <1>1, <1>2, ExportFails
<1>3. CASE ExportTo(a, h)
  <2>1. f \in Files /\ (~setting.extent => Filled(f))
    <3>1. CASE setting.from = "direct"
      BY <3>1, DiskPartType DEF Files, Filled
    <3>2. CASE setting.from # "direct"
      <4>1. f = ex[a].file /\ ex[a].file \in Files
        BY <3>2, ExportBefore DEF ExportType
      <4>2. ~setting.extent => Filled(ex[a].file)
        BY <1>1, <3>2, ExportBefore, Zenon DEF Exporting, ExportGood
      <4> QED
        BY <4>1, <4>2 DEF Filled
    <3> QED
      BY <3>1, <3>2
  <2>2. setting.format \in Formats
    BY DEF SourceTypes, SettingType
  <2> HIDE DEF f
  <2>3. g \in Files /\ (~setting.extent => Filled(g))
    BY <2>1, <2>2, ConvertedType
  <2> HIDE DEF g
  <2>4. h \in ExportType
    BY <2>3, ExportBefore, Zenon DEF ExportType, ExportSteps
  <2>5. h.at = "open" /\ h.file = g /\ h.ok = ex[a].ok /\ h.sum = ex[a].sum
    BY ExportBefore DEF ExportType
  <2>6. ~setting.extent => setting.from # "libvirt"
    BY <1>1, ExportBefore DEF Exporting, ExportGood
  <2> HIDE DEF h
  <2>7. ~setting.extent => ExportGood(h)
    BY <2>3, <2>5, <2>6, ExportBefore DEF ExportGood, Filled
  <2> QED
    BY <1>1, <1>3, <2>4, <2>7, ExportMoved DEF Exporting
<1> QED
  BY <1>2, <1>3 DEF ConvertExport

LEMMA UploadCreatesStep ==
    ASSUME SourceTypes, ExportInv, NEW a \in Attempts, UploadCreates(a)
    PROVE  SourceTypes' /\ ExportInv'
<1>1. pvc' \in Files /\ Exporting(a, "open")
  BY Constants DEF UploadCreates, SourceTypes
<1>2. CASE ExportReturns(a, ex[a])
  BY <1>1, <1>2, ExportFails
<1>3. CASE ExportTo(a, [ex[a] EXCEPT !.at = "write", !.n = 1])
  <2> DEFINE h == [ex[a] EXCEPT !.at = "write", !.n = 1]
  <2>1. h \in ExportType
    <3>1. "write" \in ExportSteps /\ 1 \in 1..3
      BY DEF ExportSteps
    <3> QED
      BY <3>1, ExportBefore, Zenon DEF ExportType
  <2>2. /\ h.at = "write" /\ h.n = 1 /\ h.file = ex[a].file
        /\ h.ok = ex[a].ok /\ h.sum = ex[a].sum
    BY ExportBefore DEF ExportType
  <2>3. ~setting.extent => setting.from # "libvirt" /\ (~FromDisk => Filled(ex[a].file))
    BY <1>1, ExportBefore DEF Exporting, ExportGood
  <2>4. ExportTo(a, h)
    BY <1>3
  <2> HIDE DEF h
  <2>5. ~setting.extent => ExportGood(h)
    BY <2>2, <2>3, ExportBefore DEF ExportGood, Filled, Parts
  <2> QED
    BY <1>1, <2>1, <2>4, <2>5, ExportMoved DEF Exporting
<1> QED
  BY <1>2, <1>3 DEF UploadCreates

LEMMA UploadWritesStep ==
    ASSUME SourceTypes, ExportInv, NEW a \in Attempts, UploadWrites(a)
    PROVE  SourceTypes' /\ ExportInv'
<1> DEFINE n == ex[a].n
           part == UploadPart(a, n)
           h == [ex[a] EXCEPT !.n = n + 1, !.sum[n] = part]
<1>1. Exporting(a, "write") /\ n \in Parts
  BY DEF UploadWrites
<1>2. CASE ExportReturns(a, ex[a]) /\ UNCHANGED pvc
  BY <1>1, <1>2, ExportFails DEF SourceTypes
<1>3. CASE /\ pvc' = IF part = End THEN pvc ELSE WriteAt(pvc, n, part)
           /\ ExportTo(a, h)
  <2>1. ex[a].file \in [Parts -> PartType] /\ ex[a].sum \in [Parts -> PartType]
    BY ExportBefore DEF ExportType, Files
  <2>2. part \in PartType
    BY <1>1, <2>1, DiskPartType, Constants DEF UploadPart
  <2>3. ~setting.extent => Has(part)
    <3>1. ~setting.extent => Exporter.uploads = Parts
      BY DEF Exporter, vsphereExportDisk, proxmoxExportDisk, libvirtExportDisk
    <3>2. ~setting.extent => FromDisk \/ Filled(ex[a].file)
      BY <1>1, ExportBefore DEF Exporting, ExportGood
    <3> QED
      BY <1>1, <3>1, <3>2, DiskPartType DEF UploadPart, FromDisk, Filled
  <2> HIDE DEF part
  <2>4. pvc' \in Files
    BY <1>1, <1>3, <2>2, WriteAtType DEF SourceTypes
  <2>5. [ex[a].sum EXCEPT ![n] = part] \in Files /\ n + 1 \in 1..3
    BY <1>1, <2>1, <2>2 DEF Files, Parts
  <2>6. h \in ExportType
    BY <2>5, ExportBefore, Zenon DEF ExportType
  <2>7. /\ h.at = "write" /\ h.n = n + 1 /\ h.file = ex[a].file /\ h.ok = ex[a].ok
        /\ h.sum = [ex[a].sum EXCEPT ![n] = part]
    BY <1>1, ExportBefore DEF ExportType, Exporting
  <2>8. ~setting.extent => /\ \A q \in Parts : q < n => Has(ex[a].sum[q])
                           /\ setting.from # "libvirt" /\ (~FromDisk => Filled(ex[a].file))
    BY <1>1, ExportBefore DEF Exporting, ExportGood
  <2> HIDE DEF h
  <2>9. ~setting.extent => \A q \in Parts : q < h.n => Has(h.sum[q])
    BY <1>1, <2>1, <2>3, <2>7, <2>8 DEF Parts
  <2>10. ~setting.extent /\ h.ok => Filled(h.sum)
    BY <1>1, <2>1, <2>3, <2>7, ExportBefore, Zenon DEF Filled, Parts
  <2>11. ~setting.extent => ExportGood(h)
    BY <2>7, <2>8, <2>9, <2>10 DEF ExportGood, Filled
  <2> QED
    BY <1>1, <1>3, <2>4, <2>6, <2>11, ExportMoved DEF Exporting
<1> QED
  BY <1>2, <1>3 DEF UploadWrites

LEMMA UploadSyncsStep ==
    ASSUME SourceTypes, ExportInv, NEW a \in Attempts, UploadSyncs(a)
    PROVE  SourceTypes' /\ ExportInv'
<1> DEFINE h == [ex[a] EXCEPT !.ok = TRUE]
<1>1. Exporting(a, "write") /\ ex[a].n \notin Parts /\ pvc' \in Files
  BY DEF UploadSyncs, SourceTypes
<1>2. CASE ExportReturns(a, ex[a])
  BY <1>1, <1>2, ExportFails
<1>3. CASE ExportReturns(a, h)
  <2>1. h \in ExportType /\ h.sum = ex[a].sum
    BY ExportBefore, Zenon DEF ExportType
  <2>2. ex[a].n = 3
    BY <1>1, ExportBefore DEF ExportType, Parts
  <2>3. ~setting.extent => Filled(ex[a].sum)
    BY <1>1, <2>2, ExportBefore DEF Exporting, ExportGood, Filled, Parts
  <2> HIDE DEF h
  <2> QED
    BY <1>1, <1>3, <2>1, <2>3, ExportReturned DEF Exporting, Filled
<1> QED
  BY <1>2, <1>3 DEF UploadSyncs

LEMMA DeleteCopyStep ==
    ASSUME SourceTypes, ExportInv, NEW a \in Attempts, DeleteCopy(a)
    PROVE  SourceTypes' /\ ExportInv'
<1> DEFINE h == [ex[a] EXCEPT !.at = "done"]
<1>1. ExportTo(a, h) /\ pvc' \in Files /\ Exporting(a, "clean")
  BY DEF DeleteCopy, SourceTypes
<1>2. h \in ExportType /\ h.at = "done" /\ h.ok = ex[a].ok /\ h.sum = ex[a].sum
  BY ExportBefore DEF ExportType, ExportSteps
<1> HIDE DEF h
<1>3. ~setting.extent => ExportGood(h)
  BY <1>2, ExportBefore DEF ExportGood
<1> QED
  BY <1>1, <1>2, <1>3, ExportMoved DEF Exporting

LEMMA ExportDiskStep ==
    ASSUME SourceTypes, ExportInv, NEW a \in Attempts, ExportDisk(a)
    PROVE  SourceTypes' /\ ExportInv'
BY GetDiskInfoStep, CopyStep, DownloadFileStep, DownloadExtentStep, DownloadDirectStep,
   ConvertExportStep, UploadCreatesStep, UploadWritesStep, UploadSyncsStep, DeleteCopyStep
   DEF ExportDisk

-----------------------------------------------------------------------------
(* The steps of everybody else: what changes in the exports is who is      *)
(* called, given up or dead.                                               *)
LEMMA Quiet ==
    ASSUME SourceTypes, ExportInv, setting' = setting, disk' \in {"old", "new"}, pvc' = pvc,
           ex' \in [Attempts -> ExportType],
           ~setting.extent => \A b \in Attempts : ex'[b] = ex[b] \/ ExportGood(ex'[b]),
           \/ caller'.phase = "export"
           \/ caller'.phase # "export" /\ caller.phase # "export" /\ caller'.reported = caller.reported
           \/ ~setting.extent => Filled(caller'.reported)
    PROVE  SourceTypes' /\ ExportInv'
<1>1. SourceTypes'
  BY DEF SourceTypes
<1>2. ASSUME ~setting'.extent, NEW b \in Attempts  PROVE ExportGood(ex[b])'
  <2>1. CASE ex'[b] = ex[b]
    BY <1>2, <2>1, GoodKept, SMTT(30) DEF ExportInv
  <2>2. CASE ExportGood(ex'[b])
    BY <2>2, ConvertsKept, Zenon DEF ExportGood, FromDisk, Filled, Has, Parts
  <2> QED
    BY <1>2, <2>1, <2>2
<1>3. ~setting'.extent /\ caller'.phase # "export" => Filled(caller'.reported)
  BY DEF ExportInv
<1> QED
  BY <1>1, <1>2, <1>3 DEF ExportInv, Filled, Has, Parts

SourceSide == <<setting, disk, copies, pvc, ex, caller>>

LEMMA ImportLeavesTheSource ==
    ASSUME NEW a \in Attempts, ImportDisk(a)
    PROVE  UNCHANGED SourceSide
BY Zenon DEF SourceSide, ImportDisk, CreateTemp, DownloadReads, DownloadVerifies, ConvertImport,
       OpenUpload, SendPart, UploadFile, uploadDirectFile, copyDiskToRemote,
       CreateVolumeFromImageFile, ChecksumOfVolume, Importing, exportSide

(* An export as it is called, given up, or dead is as good as it was.      *)
LEMMA CalledExport ==
    /\ NoExport \in ExportType
    /\ [NoExport EXCEPT !.at = "info"] \in ExportType
    /\ ExportGood([NoExport EXCEPT !.at = "info"])
<1> DEFINE h == [NoExport EXCEPT !.at = "info"]
<1>1. NoExport \in ExportType
  <2>1. "idle" \in ExportSteps /\ 1 \in 1..3
    BY DEF ExportSteps
  <2> QED
    BY <2>1, Constants DEF ExportType, NoExport
<1>2. h \in ExportType
  BY <1>1 DEF ExportType, ExportSteps
<1>3. h.at = "info" /\ h.n = 1 /\ ~h.ok
  BY DEF NoExport
<1>4. ExportGood(h)
  <2> HIDE DEF h
  <2> QED
    BY <1>3 DEF ExportGood
<1> QED
  BY <1>1, <1>2, <1>4

LEMMA LeftExport ==
    ASSUME NEW h \in ExportType
    PROVE  /\ [h EXCEPT !.given = TRUE] \in ExportType
           /\ ExportGood(h) => ExportGood([h EXCEPT !.given = TRUE])
           /\ Died(h) \in ExportType
           /\ ExportGood(h) => ExportGood(Died(h))
<1>1. [h EXCEPT !.given = TRUE] \in ExportType /\ [h EXCEPT !.at = "done"] \in ExportType
  BY Zenon DEF ExportType, ExportSteps
<1>2. ExportGood(h) => ExportGood([h EXCEPT !.given = TRUE])
  BY DEF ExportGood, ExportType
<1>3. ExportGood(h) => ExportGood([h EXCEPT !.at = "done"])
  BY DEF ExportGood, ExportType
<1> QED
  BY <1>1, <1>2, <1>3 DEF Died

LEMMA SourceStep ==
    ASSUME SourceTypes, caller \in CallerType, ExportInv, [Next]_vars
    PROVE  SourceTypes' /\ ExportInv'
<1>1. ASSUME NEW a \in Attempts, ExportDisk(a)  PROVE SourceTypes' /\ ExportInv'
  BY <1>1, ExportDiskStep
<1>2. ASSUME NEW a \in Attempts, ImportDisk(a)  PROVE SourceTypes' /\ ExportInv'
  BY <1>2, ImportLeavesTheSource, Quiet DEF SourceSide, SourceTypes
<1>3. CASE callExport
  <2>1. PICK a \in Attempts : ex' = [ex EXCEPT ![a] = [NoExport EXCEPT !.at = "info"]]
    BY <1>3, Zenon DEF callExport, Free
  <2>2. ex' \in [Attempts -> ExportType]
    BY <2>1, CalledExport DEF SourceTypes
  <2>3. \A b \in Attempts : ex'[b] = ex[b] \/ ExportGood(ex'[b])
    BY <2>1, CalledExport DEF SourceTypes
  <2>4. /\ setting' = setting /\ disk' = disk /\ pvc' = pvc
        /\ caller.phase = "export" /\ caller'.phase = caller.phase
    BY <1>3 DEF callExport, importSide, CallerType
  <2> QED
    BY <2>2, <2>3, <2>4, Quiet DEF SourceTypes
<1>4. CASE exportAnswered
  <2>1. caller.call \in Attempts /\ caller.phase = "export"
    BY <1>4 DEF exportAnswered, CallerType
  <2>2. setting' = setting /\ disk' = disk /\ pvc' = pvc /\ ex' = ex
    BY <1>4 DEF exportAnswered, exportSide
  <2>3. \/ caller'.phase = "export"
        \/ ~setting.extent => Filled(caller'.reported)
    <3>1. CASE ex[caller.call].ok
      <4>1. caller'.reported = ex[caller.call].sum
        BY <1>4, <3>1 DEF exportAnswered, CallerType
      <4> QED
        BY <2>1, <3>1, <4>1, ExportBefore
    <3>2. CASE ~ex[caller.call].ok
      BY <1>4, <2>1, <3>2 DEF exportAnswered, CallerType
    <3> QED
      BY <3>1, <3>2
  <2> QED
    BY <2>2, <2>3, Quiet DEF SourceTypes
<1>5. CASE callImport \/ importAnswered
  <2>1. setting' = setting /\ disk' = disk /\ pvc' = pvc /\ ex' = ex
    BY <1>5 DEF callImport, importAnswered, exportSide
  <2>2. /\ caller.phase = "import" /\ caller'.phase \in {"import", "done"}
        /\ caller'.reported = caller.reported
    BY <1>5 DEF callImport, importAnswered, CallerType
  <2> QED
    BY <2>1, <2>2, Quiet DEF SourceTypes
<1>6. CASE GivesUp
  <2>1. setting' = setting /\ disk' = disk /\ pvc' = pvc /\ caller.call \in Attempts
    BY <1>6 DEF GivesUp, CallerType
  <2>2. caller'.phase = caller.phase /\ caller'.reported = caller.reported
    BY <1>6 DEF GivesUp, CallerType
  <2>3. ex' = ex \/ ex' = [ex EXCEPT ![caller.call] = [ex[caller.call] EXCEPT !.given = TRUE]]
    BY <1>6, <2>1 DEF GivesUp
  <2>4. ex' \in [Attempts -> ExportType]
    BY <2>1, <2>3, ExportBefore, LeftExport DEF SourceTypes
  <2>5. ~setting.extent => \A b \in Attempts : ex'[b] = ex[b] \/ ExportGood(ex'[b])
    BY <2>1, <2>3, ExportBefore, LeftExport DEF SourceTypes
  <2> QED
    BY <2>1, <2>2, <2>4, <2>5, Quiet, Zenon DEF SourceTypes
<1>7. CASE SourceRestarts
  <2>1. setting' = setting /\ disk' = disk /\ pvc' = pvc /\ caller' = caller
    BY <1>7 DEF SourceRestarts, importSide
  <2>2. ex' = [a \in Attempts |-> Died(ex[a])]
    BY <1>7 DEF SourceRestarts
  <2>3. ex' \in [Attempts -> ExportType]
    BY <2>2, ExportBefore, LeftExport, Zenon
  <2>4. ~setting.extent => \A b \in Attempts : ExportGood(ex'[b])
    BY <2>2, ExportBefore, LeftExport, Zenon
  <2> QED
    BY <2>1, <2>3, <2>4, Quiet DEF SourceTypes
<1>8. CASE TargetRestarts
  BY <1>8, Quiet DEF TargetRestarts, exportSide, SourceTypes
<1>9. CASE SourceWrites
  BY <1>9, Quiet DEF SourceWrites, importSide, SourceTypes
<1>10. CASE UNCHANGED vars
  BY <1>10, Quiet DEF vars, SourceTypes
<1> QED
  BY <1>1, <1>2, <1>3, <1>4, <1>5, <1>6, <1>7, <1>8, <1>9, <1>10 DEF Next, Migration

LEMMA CallerStep ==
    ASSUME SourceTypes, caller \in CallerType, [Next]_vars
    PROVE  caller' \in CallerType
<1>1. ASSUME NEW a \in Attempts, ExportDisk(a) \/ ImportDisk(a)  PROVE caller' = caller
  <2>1. CASE ImportDisk(a)
    BY <2>1, ImportLeavesTheSource DEF SourceSide
  <2>2. CASE ExportDisk(a)
    BY <2>2, Zenon DEF ExportDisk, GetDiskInfo, cloneDiskToStreamOptimized, DownloadFile, DownloadExtent,
          downloadDirectFile, ConvertExport, UploadCreates, UploadWrites, UploadSyncs, DeleteCopy, Exporting
  <2> QED
    BY <1>1, <2>1, <2>2
<1>2. CASE callExport \/ callImport
  BY <1>2 DEF callExport, callImport, Free, CallerType
<1>3. CASE exportAnswered
  BY <1>3, Zenon DEF exportAnswered, CallerType, SourceTypes, ExportType
<1>4. CASE importAnswered
  BY <1>4 DEF importAnswered, CallerType
<1>5. CASE GivesUp
  BY <1>5, Zenon DEF GivesUp, CallerType
<1>6. CASE SourceRestarts \/ TargetRestarts \/ SourceWrites \/ UNCHANGED vars
  BY <1>6 DEF SourceRestarts, TargetRestarts, SourceWrites, vars
<1> QED
  BY <1>1, <1>2, <1>3, <1>4, <1>5, <1>6 DEF Next, Migration

(* The source side of a transfer by itself: its types and what an export   *)
(* has read.                                                               *)
LEMMA SourceInit == Init => SourceTypes /\ caller \in CallerType /\ ExportInv
<1> SUFFICES ASSUME Init PROVE SourceTypes /\ caller \in CallerType /\ ExportInv
  OBVIOUS
<1>2. SourceTypes
  BY CalledExport, SettingsAssumption, Constants DEF Init, SourceTypes
<1>3. caller \in CallerType /\ caller.phase = "export"
  BY Constants DEF Init, CallerType
<1>4. ExportGood(NoExport)
  BY DEF ExportGood, NoExport
<1> QED
  BY <1>2, <1>3, <1>4 DEF ExportInv, Init

(* A successful export has reported the whole disk, unless it is a vSphere *)
(* disk with extent files: neither a source that failed half way nor a     *)
(* handler that went on after its caller is ever taken for the image.      *)
THEOREM ExportsAreWhole == Spec => []ExportHoldsTheDisk
<1> DEFINE Inv == SourceTypes /\ caller \in CallerType /\ ExportInv
<1>1. Init => Inv
  BY SourceInit
<1>2. Inv /\ [Next]_vars => Inv'
  BY SourceStep, CallerStep
<1>3. Inv => ExportHoldsTheDisk
  BY FilledIsWhole DEF ExportInv, ExportHoldsTheDisk, SourceTypes, SettingType
<1> QED
  BY <1>1, <1>2, <1>3, PTL DEF Spec

-----------------------------------------------------------------------------
(* The import.  What each handler knows by itself: one that runs has not   *)
(* succeeded yet, and has sent nothing before it opens the file to send.   *)
Local(h) ==
    /\ Live(h) => ~h.ok
    /\ h.at = "place" => h.sum = Empty
    /\ h.at \in {"place", "read", "convert", "reopen"} => h.file = Empty
    /\ h.at \in {"reopen", "send"} => setting.to \in {"vsphere", "proxmox"}
    /\ h.at = "reopen" => Importer.converts
    /\ h.at \in {"place", "sum"} => ~h.checked
    /\ h.at = "sum" => setting.to = "libvirt"
Locals == \A a \in Attempts : Local(im[a])

(* Whom the migration waits for.  Every other import that runs has been    *)
(* given up, and the one waited for compares with the checksum reported.   *)
Waits ==
    /\ caller.phase = "export" => \A b \in Attempts : ~Live(im[b])
    /\ \A b \in Attempts : Live(im[b]) => im[b].given \/ (b = caller.call /\ caller.phase = "import")
    /\ caller.phase = "done" =>
          caller.call # 0 /\ im[caller.call].at = "done" /\ im[caller.call].ok
    /\ caller.phase # "export" /\ caller.call # 0 =>
          /\ im[caller.call].at # "idle" /\ ~im[caller.call].given
          /\ im[caller.call].expected = caller.reported

(* The image on its way through the import a that is waited for and shares *)
(* its temporary file with nobody: no other import runs, and once the      *)
(* checksum is verified the data are the ones reported, in the temporary   *)
(* file, in the converted one, in what has been sent, and in the volume.   *)
Sending(h) ==
    /\ Data(Sent(h)) = Data(caller.reported)
    /\ \A q \in Parts : Data(h.file)[q] = IF q < h.n THEN Data(caller.reported)[q] ELSE "hole"
    /\ setting.to = "vsphere" /\ h.n > 1 => Data(vol[1]) = Data(h.file)

Carries(a) ==
    LET h == im[a] IN
    /\ h.at \in OnTemp => \A b \in Attempts \ {a} : ~Live(im[b])
    /\ h.at = "read" => path["temp"] = h.node /\ Data(node["temp"][h.node]) = Data(h.sum)
    /\ h.at = "convert" /\ h.checked => path["temp"] # 0 /\ Data(TempFile) = Data(caller.reported)
    /\ h.at = "reopen" /\ h.checked =>
          /\ path["converted"] # 0
          /\ Data(node["converted"][path["converted"]]) = Data(caller.reported)
    /\ h.at = "send" /\ h.checked => Sending(h)
    /\ h.at = "done" /\ h.ok /\ h.checked /\ h.placed => Data(vol[Place(a)]) = Data(caller.reported)

Carried ==
    caller.phase # "export" /\ caller.call # 0 /\ ~im[caller.call].shared => Carries(caller.call)

(* What a step of an import leaves alone in any of them.                   *)
Moves(c) ==
    /\ im'[c].given = im[c].given
    /\ im'[c].expected = im[c].expected
    /\ Live(im[c]) => im'[c].at # "idle"
    /\ ~Live(im[c]) => im'[c] = im[c]

LEMMA WaitsKept ==
    ASSUME Waits, caller \in CallerType, caller' = caller, \A c \in Attempts : Moves(c)
    PROVE  Waits'
<1>1. \A c \in Attempts : Live(im[c])' => Live(im[c])
  BY DEF Moves, Live
<1>2. caller.call # 0 => caller.call \in Attempts
  BY DEF CallerType
<1>3. caller'.phase = "export" => \A b \in Attempts : ~Live(im[b])'
  BY <1>1, Zenon DEF Waits
<1>4. ASSUME NEW b \in Attempts, Live(im[b])'
      PROVE  im'[b].given \/ (b = caller'.call /\ caller'.phase = "import")
  BY <1>1, <1>4 DEF Waits, Moves
<1>5. ASSUME caller'.phase = "done"
      PROVE  caller'.call # 0 /\ im'[caller'.call].at = "done" /\ im'[caller'.call].ok
  BY <1>2, <1>5 DEF Waits, Moves, Live
<1>6. ASSUME caller'.phase # "export", caller'.call # 0
      PROVE  /\ im'[caller'.call].at # "idle" /\ ~im'[caller'.call].given
             /\ im'[caller'.call].expected = caller'.reported
  <2>1. im[caller.call].at # "idle" /\ ~im[caller.call].given /\ im[caller.call].expected = caller.reported
    BY <1>6 DEF Waits
  <2> QED
    BY <1>2, <1>6, <2>1 DEF Moves, Live
<1> QED
  BY <1>3, <1>4, <1>5, <1>6, Zenon DEF Waits, Live

LEMMA ImporterKept ==
    ASSUME setting' = setting
    PROVE  Importer' = Importer
BY DEF Importer, vsphereImportDisk, proxmoxImportDisk, directImportDisk, libvirtImportDisk

(* A step that leaves a handler at h, and one by which it returns.         *)
LEMMA ImportMoved ==
    ASSUME TargetTypes, Locals, NEW b \in Attempts, Live(im[b]), NEW h \in ImportType, ImportTo(b, h),
           h.at # "idle", h.at \in OnTemp => h.node \in Attempts, Local(h),
           h.given = im[b].given, h.expected = im[b].expected, setting' = setting,
           path' \in [Kinds -> {0} \cup Attempts], node' \in [Kinds -> [Attempts -> Files]],
           vol' \in [Attempts -> Files]
    PROVE  TargetTypes' /\ Locals' /\ (\A c \in Attempts : Moves(c)) /\ im'[b] = h
<1>1. im' = [im EXCEPT ![b] = h]
  BY DEF ImportTo
<1>2. im' \in [Attempts -> ImportType] /\ im'[b] = h
  BY <1>1 DEF TargetTypes
<1>3. \A c \in Attempts \ {b} : im'[c] = im[c]
  BY <1>1 DEF TargetTypes
<1>4. TargetTypes'
  BY <1>2, <1>3, Zenon DEF TargetTypes
<1>5. Locals'
  BY <1>2, <1>3, ImporterKept DEF Locals, Local, Live
<1>6. \A c \in Attempts : Moves(c)
  BY <1>2, <1>3, Zenon DEF Moves, Live
<1> QED
  BY <1>2, <1>4, <1>5, <1>6

LEMMA ImportReturned ==
    ASSUME TargetTypes, Locals, NEW b \in Attempts, Live(im[b]), NEW h \in ImportType,
           ImportReturns(b, h), h.given = im[b].given, h.expected = im[b].expected,
           setting' = setting, vol' \in [Attempts -> Files]
    PROVE  /\ TargetTypes' /\ Locals' /\ \A c \in Attempts : Moves(c)
           /\ im'[b] = [h EXCEPT !.at = "done"] /\ im'[b].at = "done" /\ im'[b].ok = h.ok
<1> DEFINE g == [h EXCEPT !.at = "done"]
<1>1. /\ g \in ImportType /\ g.at = "done" /\ g.given = h.given /\ g.expected = h.expected
      /\ g.ok = h.ok
  BY DEF ImportType, ImportSteps
<1>2. ImportTo(b, g) /\ node' = node
  BY DEF ImportReturns
<1>3. path' \in [Kinds -> {0} \cup Attempts]
  BY DEF ImportReturns, TargetTypes
<1> HIDE DEF g
<1>4. Local(g) /\ g.at \notin OnTemp
  BY <1>1, Zenon DEF Local, Live, OnTemp
<1>5. /\ TargetTypes' /\ Locals' /\ \A c \in Attempts : Moves(c)
      /\ im'[b] = g
  BY <1>1, <1>2, <1>3, <1>4, ImportMoved, Zenon DEF TargetTypes
<1> QED
  BY <1>1, <1>5 DEF g

(* What every step of an import has to keep; the image on its way only if  *)
(* the step is taken by the import that is waited for.                     *)
Kept(b) ==
    /\ TargetTypes' /\ Locals' /\ \A c \in Attempts : Moves(c)
    /\ b = caller.call => Carried'

LEMMA ImportFailed ==
    ASSUME TargetTypes, Locals, NEW b \in Attempts, Live(im[b]), ImportReturns(b, im[b]),
           setting' = setting, caller' = caller, vol' = vol
    PROVE  Kept(b)
<1>1. im[b] \in ImportType /\ ~im[b].ok
  BY DEF TargetTypes, Locals, Local
<1>2. /\ TargetTypes' /\ Locals' /\ \A c \in Attempts : Moves(c)
      /\ im'[b].at = "done" /\ ~im'[b].ok
  BY <1>1, ImportReturned, Zenon DEF TargetTypes
<1>3. ASSUME b = caller.call  PROVE Carries(caller.call)'
  BY <1>2, <1>3, Zenon DEF Carries, OnTemp
<1> QED
  BY <1>2, <1>3, Zenon DEF Kept, Carried

(* What an import knows before its step.                                   *)
LEMMA ImportBefore ==
    ASSUME TargetTypes, Locals, NEW b \in Attempts
    PROVE  /\ im[b] \in ImportType /\ Local(im[b])
           /\ im[b].n \in 1..3 /\ im[b].sum \in [Parts -> PartType] /\ im[b].file \in [Parts -> PartType]
           /\ im[b].at \in OnTemp => im[b].node \in Attempts
BY SMTT(30) DEF TargetTypes, Locals, ImportType, Files

-----------------------------------------------------------------------------
(* An import that has been given up runs on, but it neither creates the    *)
(* temporary file anew nor reaches the volume of another.                  *)
LEMMA GivenLeavesTheOthers ==
    ASSUME TargetTypes, Locals, setting \in SettingType, NEW b \in Attempts, im[b].given, ImportDisk(b),
           NEW a \in Attempts \ {b}
    PROVE  im'[a] = im[a] /\ vol'[Place(a)] = vol[Place(a)]
<1>1. ASSUME NEW h, ImportTo(b, h)  PROVE im'[a] = im[a]
  BY <1>1 DEF ImportTo, TargetTypes
<1>2. ASSUME NEW h, ImportReturns(b, h)  PROVE im'[a] = im[a]
  BY <1>1, <1>2 DEF ImportReturns
<1>3. CASE CreateTemp(b)
  BY <1>2, <1>3 DEF CreateTemp, CtxWorks
<1>4. CASE DownloadReads(b)
  BY <1>1, <1>2, <1>4 DEF DownloadReads
<1>5. CASE DownloadVerifies(b)
  BY <1>1, <1>2, <1>5 DEF DownloadVerifies
<1>6. CASE ConvertImport(b)
  BY <1>2, <1>6 DEF ConvertImport, Convert, CtxWorks
<1>7. CASE OpenUpload(b)
  BY <1>1, <1>2, <1>7 DEF OpenUpload
<1>8. CASE SendPart(b)
  <2>1. setting.to \in {"vsphere", "proxmox"}
    BY <1>8 DEF SendPart, Importing, Locals, Local
  <2> QED
    BY <1>1, <1>2, <1>8, <2>1 DEF SendPart, CtxWorks
<1>9. CASE UploadFile(b)
  BY <1>2, <1>9 DEF UploadFile
<1>10. CASE uploadDirectFile(b)
  <2>1. im'[a] = im[a]
    BY <1>2, <1>10 DEF uploadDirectFile
  <2>2. Place(a) = a /\ Place(b) = b
    BY <1>10 DEF uploadDirectFile, Place, Importer, proxmoxImportDisk
  <2>3. vol' = vol \/ vol' = [vol EXCEPT ![b] = im[b].file]
    BY <1>10, <2>2 DEF uploadDirectFile
  <2> QED
    BY <2>1, <2>2, <2>3 DEF TargetTypes
<1>11. CASE copyDiskToRemote(b)
  BY <1>2, <1>11 DEF copyDiskToRemote, CtxWorks
<1>12. CASE CreateVolumeFromImageFile(b)
  BY <1>2, <1>12 DEF CreateVolumeFromImageFile, CtxWorks
<1>13. CASE ChecksumOfVolume(b)
  BY <1>2, <1>13 DEF ChecksumOfVolume
<1> QED
  BY <1>3, <1>4, <1>5, <1>6, <1>7, <1>8, <1>9, <1>10, <1>11, <1>12, <1>13, Zenon DEF ImportDisk

LEMMA Running ==
    ASSUME NEW b \in Attempts, ImportDisk(b)
    PROVE  Live(im[b])
BY Zenon DEF Live, ImportDisk, CreateTemp, DownloadReads, DownloadVerifies, ConvertImport,
       OpenUpload, SendPart, UploadFile, uploadDirectFile, copyDiskToRemote,
       CreateVolumeFromImageFile, ChecksumOfVolume, Importing

LEMMA OthersStep ==
    ASSUME TargetTypes, Locals, setting \in SettingType, caller \in CallerType, Waits, Carried,
           NEW b \in Attempts, ImportDisk(b), b # caller.call
    PROVE  Carried'
<1>1. setting' = setting /\ caller' = caller
  BY ImportLeavesTheSource DEF SourceSide
<1>2. Live(im[b]) /\ im[b].given
  BY Running DEF Waits
<1>3. ASSUME caller.phase # "export", caller.call # 0, ~im'[caller.call].shared
      PROVE  Carries(caller.call)'
  <2> DEFINE a == caller.call
  <2>1. a \in Attempts \ {b}
    BY <1>3 DEF CallerType
  <2>2. im'[a] = im[a] /\ vol'[Place(a)] = vol[Place(a)]
    BY <1>2, <2>1, GivenLeavesTheOthers, Zenon
  <2>3. Carries(a)
    BY <1>3, <2>2, Zenon DEF Carried
  <2>4. im[a].at \notin OnTemp
    BY <1>2, <2>1, <2>3, Zenon DEF Carries
  <2>5. Place(a)' = Place(a)
    BY <1>1 DEF Place, Importer, vsphereImportDisk, proxmoxImportDisk, directImportDisk, libvirtImportDisk
  <2>6. im'[a].at = "done" /\ im'[a].ok /\ im'[a].checked /\ im'[a].placed
           => Data(vol'[Place(a)']) = Data(caller'.reported)
    BY <1>1, <2>2, <2>3, <2>5, Zenon DEF Carries
  <2> QED
    BY <1>1, <2>2, <2>4, <2>6, Zenon DEF Carries, OnTemp, Data
<1> QED
  BY <1>1, <1>3 DEF Carried

-----------------------------------------------------------------------------
(* The steps of an import, one by one.                                     *)
LEMMA CreateTempStep ==
    ASSUME TargetTypes, Locals, NEW b \in Attempts, CreateTemp(b), setting' = setting, caller' = caller
    PROVE  Kept(b)
<1>1. im[b].at = "place" /\ Live(im[b]) /\ vol' = vol
  BY Zenon DEF CreateTemp, Importing, Live
<1>2. CASE ImportReturns(b, im[b])
  BY <1>1, <1>2, ImportFailed, Zenon
<1> DEFINE i == Inode("temp", b)
           sh == \E c \in Attempts \ {b} : Live(im[c])
           h == [im[b] EXCEPT !.at = "read", !.node = i, !.shared = sh]
           g(c) == IF Live(im[c]) THEN [im[c] EXCEPT !.shared = TRUE] ELSE im[c]
<1>3. CASE /\ path' = [path EXCEPT !["temp"] = i]
           /\ node' = [node EXCEPT !["temp"][i] = Empty]
           /\ im' = [c \in Attempts |-> IF c = b THEN h ELSE g(c)]
  <2>1. i \in Attempts
    BY InodeType DEF Kinds
  <2>2. im[b] \in ImportType /\ Local(im[b])
    BY ImportBefore
  <2> HIDE DEF i
  <2>3. sh \in BOOLEAN
    OBVIOUS
  <2>4. /\ h \in ImportType /\ h.at = "read" /\ h.node = i /\ h.given = im[b].given
        /\ h.expected = im[b].expected /\ h.ok = im[b].ok /\ h.file = im[b].file /\ h.sum = im[b].sum
    <3> HIDE DEF sh
    <3> QED
      BY <2>1, <2>2, <2>3, Zenon DEF ImportType, ImportSteps
  <2>5. h.shared <=> sh
    BY <2>2 DEF ImportType
  <2>6. ASSUME NEW c \in Attempts
        PROVE  /\ g(c) \in ImportType /\ g(c).at = im[c].at /\ g(c).given = im[c].given
               /\ g(c).node = im[c].node
               /\ g(c).expected = im[c].expected /\ g(c).ok = im[c].ok /\ g(c).file = im[c].file
               /\ g(c).sum = im[c].sum /\ g(c).checked = im[c].checked
               /\ ~Live(im[c]) => g(c) = im[c]
    <3>1. im[c] \in ImportType
      BY ImportBefore
    <3> QED
      BY <3>1, Zenon DEF ImportType
  <2> HIDE DEF sh, h, g
  <2>7. im'[b] = h /\ \A c \in Attempts \ {b} : im'[c] = g(c)
    BY <1>3
  <2>8. im' \in [Attempts -> ImportType]
    BY <1>3, <2>4, <2>6, Zenon
  <2>9. node' \in [Kinds -> [Attempts -> Files]] /\ node'["temp"][i] = Empty
    BY <1>3, <2>1, Constants DEF TargetTypes, Kinds
  <2>10. path' \in [Kinds -> {0} \cup Attempts] /\ path'["temp"] = i
    BY <1>3, <2>1 DEF TargetTypes, Kinds
  <2>11. TargetTypes'
    <3>1. ASSUME NEW c \in Attempts, im'[c].at \in OnTemp  PROVE im'[c].node \in Attempts
      <4>1. CASE c = b
        BY <2>1, <2>4, <2>7, <4>1
      <4>2. CASE c # b
        BY <2>6, <2>7, <3>1, <4>2 DEF TargetTypes
      <4> QED
        BY <4>1, <4>2
    <3>2. vol' \in [Attempts -> Files]
      BY <1>1 DEF TargetTypes
    <3> QED
      BY <2>8, <2>9, <2>10, <3>1, <3>2 DEF TargetTypes
  <2>12. Locals'
    <3>1. ASSUME NEW c \in Attempts  PROVE Local(im[c])'
      <4>1. CASE c = b
        BY <1>1, <2>2, <2>4, <2>7, <4>1, ImporterKept, Zenon DEF Local, Live
      <4>2. CASE c # b
        <5>1. Local(im[c])
          BY Zenon DEF Locals
        <5>2. /\ im'[c].at = im[c].at /\ im'[c].ok = im[c].ok /\ im'[c].file = im[c].file
              /\ im'[c].sum = im[c].sum /\ im'[c].checked = im[c].checked
          BY <2>6, <2>7, <4>2, Zenon
        <5> QED
          BY <5>1, <5>2, ImporterKept DEF Local, Live
      <4> QED
        BY <4>1, <4>2, Zenon
    <3> QED
      BY <3>1, Zenon DEF Locals
  <2>13. \A c \in Attempts : Moves(c)
    BY <1>1, <2>4, <2>6, <2>7 DEF Moves, Live
  <2>14. ASSUME ~im'[b].shared  PROVE Carries(b)'
    <3>1. \A c \in Attempts \ {b} : ~Live(im[c])
      BY <2>5, <2>7, <2>14 DEF sh
    <3>2. \A c \in Attempts \ {b} : ~Live(im[c])'
      BY <3>1, <2>6, <2>7, Zenon
    <3>3. im'[b].at = "read" /\ im'[b].node = i /\ im'[b].sum = Empty
      BY <1>1, <2>2, <2>4, <2>7, Zenon DEF Local
    <3> QED
      BY <2>9, <2>10, <3>2, <3>3, Zenon DEF Carries
  <2> QED
    BY <2>11, <2>12, <2>13, <2>14 DEF Kept, Carried
<1> QED
  BY <1>2, <1>3, ZenonT(30) DEF CreateTemp

(* What is read from a file after a part has been written.                 *)
LEMMA DataWritten ==
    ASSUME NEW f \in Files, NEW p \in Parts, NEW part \in PartType
    PROVE  \A q \in Parts : Data(WriteAt(f, p, part))[q]
              = IF q = p THEN (IF part.data = "none" THEN "hole" ELSE part.data) ELSE Data(f)[q]
<1>1. End.data = "none"
  BY DEF End
<1>2. ASSUME NEW q \in Parts
      PROVE  Data(WriteAt(f, p, part))[q]
              = IF q = p THEN (IF part.data = "none" THEN "hole" ELSE part.data) ELSE Data(f)[q]
  <2> DEFINE d == WriteAt(f, p, part)[q].data
  <2>1. d = IF q = p THEN part.data ELSE IF q < p /\ f[q] = End THEN "hole" ELSE f[q].data
    BY WriteAtType
  <2>2. Data(WriteAt(f, p, part))[q] = IF d = "none" THEN "hole" ELSE d
    BY DEF Data
  <2> HIDE DEF d
  <2> QED
    BY <1>1, <2>1, <2>2 DEF Data
<1> QED
  BY <1>2

(* An import that stays on its temporary file, and nobody else with it.    *)
LEMMA StaysAlone ==
    ASSUME TargetTypes, NEW b \in Attempts, NEW h, ImportTo(b, h), Carries(b), im[b].at \in OnTemp
    PROVE  \A c \in Attempts \ {b} : ~Live(im[c])'
<1>1. \A c \in Attempts \ {b} : im'[c] = im[c]
  BY DEF ImportTo, TargetTypes
<1> QED
  BY <1>1, Zenon DEF Carries, Live

LEMMA DownloadReadsStep ==
    ASSUME TargetTypes, Locals, Carried, pvc \in Files, NEW b \in Attempts, DownloadReads(b),
           setting' = setting, caller' = caller
    PROVE  Kept(b)
<1>1. im[b].at = "read" /\ im[b].n \in Parts /\ Live(im[b]) /\ vol' = vol
  BY ImportBefore DEF DownloadReads, Importing, Live, AtEnd
<1>2. CASE ImportReturns(b, im[b])
  BY <1>1, <1>2, ImportFailed, SMTT(30)
<1> DEFINE n == im[b].n
           i == im[b].node
           h == [im[b] EXCEPT !.n = n + 1, !.sum[n] = pvc[n]]
<1>3. CASE /\ node' = [node EXCEPT !["temp"][i] = WriteAt(@, n, pvc[n])]
           /\ ImportTo(b, h) /\ path' = path
  <2>1. im[b] \in ImportType /\ Local(im[b]) /\ i \in Attempts
    BY <1>1, ImportBefore, Zenon DEF OnTemp
  <2>2. pvc[n] \in PartType /\ [im[b].sum EXCEPT ![n] = pvc[n]] \in Files /\ n + 1 \in 1..3
    BY <1>1, <2>1 DEF ImportType, Files, Parts
  <2>3. h \in ImportType
    BY <2>1, <2>2, Zenon DEF ImportType
  <2>4. /\ h.at = "read" /\ h.node = i /\ h.given = im[b].given /\ h.expected = im[b].expected
        /\ h.ok = im[b].ok /\ h.file = im[b].file /\ h.shared = im[b].shared
        /\ h.sum = [im[b].sum EXCEPT ![n] = pvc[n]]
    BY <1>1, <2>1 DEF ImportType
  <2>5. node["temp"][i] \in Files
    BY <2>1 DEF TargetTypes, Kinds
  <2>6. WriteAt(node["temp"][i], n, pvc[n]) \in Files
    BY <1>1, <2>2, <2>5, WriteAtType, Zenon
  <2>7. /\ node' \in [Kinds -> [Attempts -> Files]]
        /\ node'["temp"][i] = WriteAt(node["temp"][i], n, pvc[n])
    BY <1>3, <2>1, <2>6 DEF TargetTypes, Kinds
  <2> HIDE DEF h
  <2>8. Local(h)
    BY <1>1, <2>1, <2>4, Zenon DEF Local, Live
  <2>9. TargetTypes' /\ Locals' /\ (\A c \in Attempts : Moves(c)) /\ im'[b] = h
    BY <1>1, <1>3, <2>1, <2>3, <2>4, <2>7, <2>8, ImportMoved, ZenonT(30) DEF TargetTypes
  <2>10. ASSUME Carries(b)  PROVE Carries(b)'
    <3>1. \A c \in Attempts \ {b} : ~Live(im[c])'
      BY <1>1, <1>3, <2>10, StaysAlone DEF OnTemp
    <3>2. path["temp"] = i /\ Data(node["temp"][i]) = Data(im[b].sum)
      BY <1>1, <2>10, ZenonT(30) DEF Carries
    <3>3. \A q \in Parts : Data(node'["temp"][i])[q]
              = IF q = n THEN (IF pvc[n].data = "none" THEN "hole" ELSE pvc[n].data)
                ELSE Data(node["temp"][i])[q]
      <4>1. PICK f : f = node["temp"][i]
        BY Zenon
      <4>2. PICK e : e = pvc[n]
        BY Zenon
      <4>3. \A q \in Parts : Data(WriteAt(f, n, e))[q]
                = IF q = n THEN (IF e.data = "none" THEN "hole" ELSE e.data) ELSE Data(f)[q]
        <5>1. f \in Files /\ n \in Parts /\ e \in PartType
          BY <1>1, <2>2, <2>5, <4>1, <4>2, Zenon
        <5> HIDE DEF n
        <5> QED
          BY <5>1, DataWritten
      <4>4. node'["temp"][i] = WriteAt(f, n, e)
        BY <2>7, <4>1, <4>2, Zenon
      <4> QED
        BY <4>1, <4>2, <4>3, <4>4, Zenon
    <3>4. \A q \in Parts : Data(h.sum)[q]
              = IF q = n THEN (IF pvc[n].data = "none" THEN "hole" ELSE pvc[n].data)
                ELSE Data(im[b].sum)[q]
      BY <1>1, <2>1, <2>4, Zenon DEF Data, ImportType, Files
    <3>5. \A q \in Parts : Data(node'["temp"][i])[q] = Data(h.sum)[q]
      BY <3>2, <3>3, <3>4, Zenon
    <3>6. Data(node'["temp"][i]) = Data(h.sum)
      BY <3>5, Zenon DEF Data
    <3>7. im'[b].at = "read" /\ path'["temp"] = im'[b].node
          /\ Data(node'["temp"][im'[b].node]) = Data(im'[b].sum)
      BY <1>3, <2>4, <2>9, <3>2, <3>6, Zenon
    <3> QED
      BY <3>1, <3>7, Zenon DEF Carries
  <2> QED
    BY <2>4, <2>9, <2>10, Zenon DEF Kept, Carried
<1> QED
  BY <1>2, <1>3 DEF DownloadReads

LEMMA DownloadVerifiesStep ==
    ASSUME TargetTypes, Locals, Waits, Carried, NEW b \in Attempts, DownloadVerifies(b),
           setting \in SettingType, setting' = setting, caller' = caller
    PROVE  Kept(b)
<1>1. im[b].at = "read" /\ Live(im[b]) /\ vol' = vol
  BY DEF DownloadVerifies, Importing, Live
<1>2. CASE ImportReturns(b, im[b])
  BY <1>1, <1>2, ImportFailed
<1> DEFINE h == [im[b] EXCEPT !.at = "convert", !.checked = setting.verify]
<1>3. CASE /\ ImportTo(b, h) /\ path' = path /\ node' = node
           /\ setting.verify => im[b].sum = im[b].expected
  <2>1. im[b] \in ImportType /\ Local(im[b]) /\ im[b].node \in Attempts /\ setting.verify \in BOOLEAN
    BY <1>1, ImportBefore DEF OnTemp, SettingType
  <2>2. h \in ImportType
    BY <2>1, ZenonT(30) DEF ImportType, ImportSteps
  <2>3. /\ h.at = "convert" /\ h.node = im[b].node /\ h.given = im[b].given
        /\ h.expected = im[b].expected
        /\ h.ok = im[b].ok /\ h.file = im[b].file /\ h.shared = im[b].shared
        /\ h.checked = setting.verify
    BY <2>1 DEF ImportType
  <2> HIDE DEF h
  <2>4. Local(h)
    BY <1>1, <2>1, <2>3, SMTT(30) DEF Local, Live
  <2>5. TargetTypes' /\ Locals' /\ (\A c \in Attempts : Moves(c)) /\ im'[b] = h
    BY <1>1, <1>3, <2>1, <2>2, <2>3, <2>4, ImportMoved, Zenon DEF TargetTypes
  <2>6. ASSUME Carries(b), caller.phase # "export", b = caller.call  PROVE Carries(b)'
    <3>1. \A c \in Attempts \ {b} : ~Live(im[c])'
      BY <1>1, <1>3, <2>6, StaysAlone, Zenon DEF OnTemp
    <3>2. path["temp"] = im[b].node /\ Data(node["temp"][im[b].node]) = Data(im[b].sum)
      BY <1>1, <2>6, Zenon DEF Carries
    <3>3. setting.verify => im[b].sum = caller.reported
      BY <1>3, <2>6, AttemptsAssumption, Zenon DEF Waits
    <3>4. TempFile' = node["temp"][im[b].node] /\ path'["temp"] # 0
      BY <1>3, <2>1, <3>2, AttemptsAssumption, Zenon DEF TempFile
    <3>5. h.checked => Data(TempFile') = Data(caller.reported)
      BY <2>3, <3>2, <3>3, <3>4, Zenon
    <3> QED
      BY <2>3, <2>5, <3>1, <3>4, <3>5, ZenonT(30) DEF Carries
  <2> QED
    BY <2>3, <2>5, <2>6 DEF Kept, Carried
<1> QED
  BY <1>2, <1>3 DEF DownloadVerifies

(* The importers: the volume is the first one except for Proxmox.          *)
LEMMA Importers ==
    ASSUME setting \in SettingType
    PROVE  /\ Importer.format \in Formats
           /\ ViaTemp <=> setting.to # "libvirt"
           /\ \A a \in Attempts : Place(a) = (IF setting.to = "proxmox" THEN a ELSE 1) /\ Place(a) \in Attempts
           /\ setting' = setting => \A a \in Attempts : Place(a)' = Place(a)
<1>1. \A a \in Attempts : Place(a) = (IF setting.to = "proxmox" THEN a ELSE 1)
  BY DEF SettingType, Place, Importer, vsphereImportDisk, proxmoxImportDisk, directImportDisk,
         libvirtImportDisk
<1>2. setting' = setting => \A a \in Attempts : Place(a)' = Place(a)
  BY DEF Place, Importer, vsphereImportDisk, proxmoxImportDisk, directImportDisk, libvirtImportDisk
<1>3. Importer.format \in Formats /\ (ViaTemp <=> setting.to # "libvirt")
  BY DEF SettingType, ViaTemp, Importer, vsphereImportDisk, proxmoxImportDisk, directImportDisk,
         libvirtImportDisk, Formats
<1> QED
  BY <1>1, <1>2, <1>3, AttemptsAssumption

LEMMA TempFileType ==
    ASSUME TargetTypes
    PROVE  TempFile \in Files
BY Constants DEF TempFile, TargetTypes, Kinds

(* An import that has succeeded with the exported data in its volume, or   *)
(* without having compared the checksum.                                   *)
LEMMA Succeeded ==
    ASSUME TargetTypes, Locals, NEW b \in Attempts, Live(im[b]), NEW h \in ImportType,
           ImportReturns(b, h), h.given = im[b].given, h.expected = im[b].expected,
           h.shared = im[b].shared,
           setting \in SettingType, setting' = setting, caller' = caller, vol' \in [Attempts -> Files],
           Carried,
           Carries(b) /\ b = caller.call /\ caller.phase # "export" /\ h.ok /\ h.checked /\ h.placed
              => Data(vol'[Place(b)]) = Data(caller.reported)
    PROVE  Kept(b)
<1>1. /\ TargetTypes' /\ Locals' /\ \A c \in Attempts : Moves(c)
      /\ im'[b] = [h EXCEPT !.at = "done"] /\ im'[b].at = "done" /\ im'[b].ok = h.ok
  BY ImportReturned
<1>2. im'[b].shared = h.shared /\ im'[b].checked = h.checked /\ im'[b].placed = h.placed
  BY <1>1 DEF ImportType
<1>3. ASSUME b = caller.call, caller.phase # "export", ~im'[b].shared  PROVE Carries(b)'
  <2>1. Carries(b)
    BY <1>2, <1>3, AttemptsAssumption, Zenon DEF Carried
  <2>2. Place(b)' = Place(b)
    BY Importers, Zenon
  <2>3. im'[b].ok /\ im'[b].checked /\ im'[b].placed => Data(vol'[Place(b)']) = Data(caller'.reported)
    BY <1>1, <1>2, <1>3, <2>1, <2>2
  <2> QED
    BY <1>1, <2>3, Zenon DEF Carries, OnTemp, Data
<1> QED
  BY <1>1, <1>3, Zenon DEF Kept, Carried

LEMMA ConvertImportStep ==
    ASSUME TargetTypes, Locals, Carried, NEW b \in Attempts, ConvertImport(b),
           setting \in SettingType, setting' = setting, caller' = caller
    PROVE  Kept(b)
<1>1. im[b].at = "convert" /\ Live(im[b]) /\ ViaTemp
  BY DEF ConvertImport, Importing, Live
<1>2. im[b] \in ImportType /\ Local(im[b]) /\ im[b].node \in Attempts
  BY <1>1, ImportBefore, Zenon DEF OnTemp
<1> DEFINE f == Converted(TempFile, Importer.format)
           i == Inode("converted", b)
<1>3. f \in Files /\ Data(f) = Data(TempFile)
  BY TempFileType, Importers, ConvertedType
<1>4. Place(b) \in Attempts
  BY Importers
<1>5. CASE ImportReturns(b, im[b]) /\ vol' = vol
  BY <1>1, <1>5, ImportFailed
<1>6. Carries(b) /\ im[b].checked => Data(TempFile) = Data(caller.reported)
  BY <1>1, Zenon DEF Carries
<1>7. CASE /\ vol' = [vol EXCEPT ![Place(b)] = f]
           /\ ImportReturns(b, [im[b] EXCEPT !.ok = TRUE])
  <2> DEFINE h == [im[b] EXCEPT !.ok = TRUE]
  <2>1. /\ h \in ImportType /\ h.given = im[b].given /\ h.expected = im[b].expected
        /\ h.shared = im[b].shared /\ h.checked = im[b].checked
    BY <1>2, Zenon DEF ImportType
  <2> HIDE DEF f
  <2>2. vol' \in [Attempts -> Files] /\ vol'[Place(b)] = f
    BY <1>3, <1>4, <1>7 DEF TargetTypes
  <2>3. ImportReturns(b, h)
    BY <1>7, SMTT(30)
  <2> HIDE DEF h
  <2> QED
    BY <1>1, <1>3, <1>6, <2>1, <2>2, <2>3, Succeeded, Zenon
<1>8. CASE /\ setting.to # "direct" /\ path' = [path EXCEPT !["converted"] = i]
           /\ node' = [node EXCEPT !["converted"][i] = f]
           /\ ImportTo(b, [im[b] EXCEPT !.at = "reopen"]) /\ vol' = vol
  <2> DEFINE h == [im[b] EXCEPT !.at = "reopen"]
  <2>1. i \in Attempts
    BY InodeType DEF Kinds
  <2>2. h \in ImportType
    BY <1>2 DEF ImportType, ImportSteps
  <2>3. /\ h.at = "reopen" /\ h.node = im[b].node /\ h.given = im[b].given
        /\ h.expected = im[b].expected /\ h.ok = im[b].ok /\ h.file = im[b].file
        /\ h.shared = im[b].shared /\ h.checked = im[b].checked
    BY <1>2 DEF ImportType
  <2>4. ImportTo(b, h)
    BY <1>8
  <2> HIDE DEF h, f, i
  <2>5. node' \in [Kinds -> [Attempts -> Files]] /\ node'["converted"][i] = f
    BY <1>3, <1>8, <2>1 DEF TargetTypes, Kinds
  <2>6. path' \in [Kinds -> {0} \cup Attempts] /\ path'["converted"] = i
    BY <1>8, <2>1 DEF TargetTypes, Kinds
  <2>7. setting.to \in {"vsphere", "proxmox"} /\ Importer.converts
    BY <1>1, <1>8, Importers DEF SettingType, ConvertImport
  <2>8. Local(h)
    BY <1>1, <1>2, <2>3, <2>7, Zenon DEF Local, Live
  <2>9. TargetTypes' /\ Locals' /\ (\A c \in Attempts : Moves(c)) /\ im'[b] = h
    BY <1>1, <1>2, <1>8, <2>2, <2>3, <2>4, <2>5, <2>6, <2>8, ImportMoved DEF TargetTypes
  <2>10. ASSUME Carries(b)  PROVE Carries(b)'
    <3>1. \A c \in Attempts \ {b} : ~Live(im[c])'
      BY <1>1, <2>4, <2>10, StaysAlone, Zenon DEF OnTemp
    <3>2. path'["converted"] # 0
      BY <2>1, <2>6, AttemptsAssumption
    <3>3. im'[b].checked => Data(node'["converted"][path'["converted"]]) = Data(caller'.reported)
      BY <1>3, <1>6, <2>3, <2>5, <2>6, <2>9, <2>10, Zenon
    <3> QED
      BY <2>3, <2>9, <3>1, <3>2, <3>3, Zenon DEF Carries
  <2> QED
    BY <2>3, <2>9, <2>10, Zenon DEF Kept, Carried
<1> QED
  BY <1>5, <1>7, <1>8 DEF ConvertImport

LEMMA OpenUploadStep ==
    ASSUME TargetTypes, Locals, Carried, NEW b \in Attempts, OpenUpload(b),
           setting \in SettingType, setting' = setting, caller' = caller
    PROVE  Kept(b)
<1>1. /\ im[b].at \in {"convert", "reopen"} /\ Live(im[b]) /\ ViaTemp /\ vol' = vol
      /\ im[b].at = "convert" => ~Importer.converts
  BY DEF OpenUpload, Importing, Live
<1>2. im[b] \in ImportType /\ Local(im[b]) /\ im[b].node \in Attempts
  BY <1>1, ImportBefore, Zenon DEF OnTemp
<1>3. im[b].at = "reopen" => Importer.converts
  BY <1>2, Zenon DEF Local
<1>4. setting.to \in {"vsphere", "proxmox"}
  <2>1. CASE im[b].at = "reopen"
    BY <1>2, <2>1, Zenon DEF Local
  <2>2. CASE im[b].at = "convert"
    <3>1. setting.to # "direct"
      BY <1>1, <2>2 DEF Importer, directImportDisk
    <3> QED
      BY <1>1, <3>1, Importers DEF SettingType
  <2> QED
    BY <1>1, <2>1, <2>2
<1> DEFINE k == IF Importer.converts THEN "converted" ELSE "temp"
           h == [im[b] EXCEPT !.at = "send", !.kind = k, !.node = path[k], !.n = 1,
                              !.size = Size(node[k][path[k]])]
<1>5. CASE ImportReturns(b, im[b])
  BY <1>1, <1>5, ImportFailed, Zenon
<1>6. CASE path[k] # 0 /\ ImportTo(b, h) /\ path' = path /\ node' = node
  <2>1. k \in Kinds /\ path[k] \in Attempts
    BY <1>6 DEF Kinds, TargetTypes
  <2>2. Size(node[k][path[k]]) \in 0..2 /\ 1 \in 1..3 /\ "send" \in ImportSteps
    BY DEF Size, ImportSteps
  <2>3. h \in ImportType
    <3> HIDE DEF k
    <3> QED
      BY <1>2, <2>1, <2>2, ZenonT(30) DEF ImportType
  <2>4. /\ h.at = "send" /\ h.kind = k /\ h.node = path[k] /\ h.n = 1
        /\ h.given = im[b].given
        /\ h.expected = im[b].expected /\ h.ok = im[b].ok /\ h.file = im[b].file
        /\ h.shared = im[b].shared /\ h.checked = im[b].checked
    <3> HIDE DEF k
    <3> QED
      BY <1>2 DEF ImportType
  <2>5. h.file = Empty
    BY <1>1, <1>2, <2>4 DEF Local
  <2>6. Carries(b) /\ im[b].checked => Data(node[k][path[k]]) = Data(caller.reported)
    <3>1. CASE im[b].at = "reopen"
      BY <1>3, <3>1, Zenon DEF Carries
    <3>2. CASE im[b].at = "convert"
      BY <1>1, <3>2, ZenonT(30) DEF Carries, TempFile
    <3> QED
      BY <1>1, <3>1, <3>2, Zenon
  <2> HIDE DEF h, k
  <2>7. Local(h)
    BY <1>2, <1>4, <2>4, <1>1, Zenon DEF Local, Live
  <2>8. TargetTypes' /\ Locals' /\ (\A c \in Attempts : Moves(c)) /\ im'[b] = h
    BY <1>1, <1>6, <2>1, <2>3, <2>4, <2>7, ImportMoved, Zenon DEF TargetTypes
  <2>9. ASSUME Carries(b)  PROVE Carries(b)'
    <3>1. \A c \in Attempts \ {b} : ~Live(im[c])'
      BY <1>1, <1>6, <2>9, StaysAlone, Zenon DEF OnTemp
    <3>2. Sent(im[b])' = node[k][path[k]]
      BY <1>6, <2>4, <2>8, Zenon DEF Sent
    <3>3. \A q \in Parts : Data(Empty)[q] = "hole"
      BY DEF Data, Empty, End
    <3>4. im'[b].checked => Sending(im[b])'
      <4>1. \A q \in Parts : ~(q < 1)
        BY DEF Parts
      <4>2. im'[b].checked => Data(Sent(im[b])') = Data(caller'.reported)
        BY <2>4, <2>6, <2>8, <2>9, <3>2, Zenon
      <4>3. \A q \in Parts : Data(im'[b].file)[q] = "hole" /\ ~(q < im'[b].n)
        BY <2>4, <2>5, <2>8, <3>3, <4>1, Zenon
      <4>4. ~(im'[b].n > 1)
        BY <2>4, <2>8
      <4> QED
        BY <4>2, <4>3, <4>4, Zenon DEF Sending
    <3> QED
      BY <2>4, <2>8, <3>1, <3>4, Zenon DEF Carries
  <2> QED
    BY <2>4, <2>8, <2>9, Zenon DEF Kept, Carried
<1> QED
  BY <1>5, <1>6 DEF OpenUpload

LEMMA SendPartStep ==
    ASSUME TargetTypes, Locals, Carried, NEW b \in Attempts, SendPart(b),
           setting \in SettingType, setting' = setting, caller' = caller
    PROVE  Kept(b)
<1>1. im[b].at = "send" /\ im[b].n \in Parts /\ Live(im[b])
  BY ImportBefore DEF SendPart, Importing, Live, AtEnd
<1>2. im[b] \in ImportType /\ Local(im[b]) /\ im[b].node \in Attempts
  BY <1>1, ImportBefore DEF OnTemp
<1>3. setting.to \in {"vsphere", "proxmox"}
  BY <1>1, <1>2, Zenon DEF Local
<1> DEFINE n == im[b].n
           part == Sent(im[b])[n]
           f == WriteAt(im[b].file, n, part)
           old == IF n = 1 THEN Empty ELSE vol[Place(b)]
           h == [im[b] EXCEPT !.n = n + 1, !.file = f]
<1>4. CASE ImportReturns(b, im[b]) /\ vol' = vol
  BY <1>1, <1>4, ImportFailed, Zenon
<1>5. CASE /\ ImportTo(b, h) /\ path' = path /\ node' = node
           /\ vol' = IF setting.to = "proxmox" THEN vol
                     ELSE [vol EXCEPT ![Place(b)] = WriteAt(old, n, part)]
  <2>1. Sent(im[b]) \in Files /\ part \in PartType
    BY <1>1, <1>2 DEF Sent, TargetTypes, ImportType, Files
  <2>2. im[b].file \in Files /\ n + 1 \in 1..3
    BY <1>1, <1>2 DEF ImportType, Parts
  <2>3. f \in Files
    BY <1>1, <2>1, <2>2, WriteAtType, Zenon
  <2>4. Place(b) \in Attempts /\ (setting.to = "vsphere" => Place(b) = 1)
    BY Importers
  <2>5. old \in Files
    BY <2>4, Constants, Zenon DEF TargetTypes
  <2>6. WriteAt(old, n, part) \in Files
    BY <1>1, <2>1, <2>5, WriteAtType, Zenon
  <2> HIDE DEF part, f, old
  <2>7. vol' \in [Attempts -> Files] /\ (setting.to = "vsphere" => vol'[1] = WriteAt(old, n, part))
    BY <1>5, <2>4, <2>6 DEF TargetTypes
  <2>8. h \in ImportType
    BY <1>2, <2>2, <2>3, ZenonT(30) DEF ImportType
  <2>9. /\ h.at = "send" /\ h.kind = im[b].kind /\ h.node = im[b].node /\ h.n = n + 1
        /\ h.given = im[b].given /\ h.file = f
        /\ h.expected = im[b].expected /\ h.ok = im[b].ok
        /\ h.shared = im[b].shared /\ h.checked = im[b].checked
    BY <1>1, <1>2, SMTT(30) DEF ImportType
  <2> HIDE DEF h
  <2>10. Local(h)
    BY <1>1, <1>2, <1>3, <2>9, Zenon DEF Local, Live
  <2>11. TargetTypes' /\ Locals' /\ (\A c \in Attempts : Moves(c)) /\ im'[b] = h
    BY <1>1, <1>2, <1>5, <2>7, <2>8, <2>9, <2>10, ImportMoved, Zenon DEF TargetTypes
  <2>12. ASSUME Carries(b)  PROVE Carries(b)'
    <3>1. \A c \in Attempts \ {b} : ~Live(im[c])'
      BY <1>1, <1>5, <2>12, StaysAlone, Zenon DEF OnTemp
    <3>2. Sent(im[b])' = Sent(im[b])
      BY <1>5, <2>9, <2>11, Zenon DEF Sent
    <3>3. ASSUME Sending(im[b])  PROVE Sending(im[b])'
      <4> DEFINE R == Data(caller.reported)
                 d == IF part.data = "none" THEN "hole" ELSE part.data
      <4>1. d = R[n]
        <5>1. Data(Sent(im[b]))[n] = d
          BY <1>1, Zenon DEF Data, part
        <5> QED
          BY <3>3, <5>1, Zenon DEF Sending
      <4>2. \A q \in Parts : Data(f)[q] = IF q = n THEN d ELSE Data(im[b].file)[q]
        BY <1>1, <2>1, <2>2, DataWritten DEF f
      <4>3. \A q \in Parts : Data(im[b].file)[q] = IF q < n THEN R[q] ELSE "hole"
        BY <3>3, Zenon DEF Sending
      <4>4. \A q \in Parts : Data(WriteAt(old, n, part))[q] = IF q = n THEN d ELSE Data(old)[q]
        BY <1>1, <2>1, <2>5, DataWritten, Zenon
      <4>5. \A q \in Parts : q # n /\ n = 1 => ~(q < n)
        BY DEF Parts
      <4>6. \A q \in Parts : setting.to = "vsphere" /\ q # n => Data(old)[q] = Data(im[b].file)[q]
        <5>1. CASE n = 1
          <6>1. old = Empty
            BY <5>1 DEF old
          <6>2. \A q \in Parts : Data(Empty)[q] = "hole"
            BY DEF Data, Empty, End
          <6> QED
            BY <4>3, <4>5, <5>1, <6>1, <6>2, Zenon
        <5>2. CASE n # 1
          <6>1. n > 1
            BY <1>1, <5>2 DEF Parts
          <6>2. setting.to = "vsphere" => old = vol[1]
            BY <2>4, <5>2 DEF old
          <6> QED
            BY <3>3, <6>1, <6>2, Zenon DEF Sending
        <5> QED
          BY <5>1, <5>2, Zenon
      <4> HIDE DEF d, R
      <4>7. \A q \in Parts : Data(f)[q] = IF q < n + 1 THEN R[q] ELSE "hole"
        <5>1. \A q \in Parts : q < n + 1 <=> (q < n \/ q = n)
          BY <1>1 DEF Parts
        <5> QED
          BY <4>1, <4>2, <4>3, <5>1, Zenon
      <4>8. setting.to = "vsphere" => \A q \in Parts : Data(WriteAt(old, n, part))[q] = Data(f)[q]
        BY <4>2, <4>4, <4>6, Zenon
      <4>9. setting.to = "vsphere" => Data(vol'[1]) = Data(f)
        BY <2>7, <4>8, Zenon DEF Data
      <4>10. Data(Sent(im[b])) = Data(caller.reported)
        BY <3>3 DEF Sending
      <4>11. Data(Sent(im[b])') = Data(caller.reported)
        BY <3>2, <4>10
      <4>12. \A q \in Parts : Data(im'[b].file)[q] = IF q < im'[b].n THEN Data(caller.reported)[q] ELSE "hole"
        BY <2>9, <2>11, <4>7, Zenon DEF R
      <4>13. setting.to = "vsphere" => Data(vol'[1]) = Data(im'[b].file)
        BY <2>9, <2>11, <4>9
      <4> QED
        BY <1>5, <4>11, <4>12, <4>13, Zenon DEF Sending
    <3>4. im'[b].checked => Sending(im[b])'
      BY <1>1, <2>9, <2>11, <2>12, <3>3, ZenonT(30) DEF Carries
    <3> QED
      BY <2>9, <2>11, <3>1, <3>4, ZenonT(30) DEF Carries
  <2> QED
    BY <2>9, <2>11, <2>12, Zenon DEF Kept, Carried
<1> QED
  BY <1>4, <1>5 DEF SendPart

(* When there is nothing left to send, everything has been sent.           *)
LEMMA AllSent ==
    ASSUME NEW h \in ImportType, Sending(h), AtEnd(Sent(h), h.n)
    PROVE  /\ Data(h.file) = Data(caller.reported)
           /\ setting.to = "vsphere" /\ h.n > 1 => Data(vol[1]) = Data(caller.reported)
           /\ h.n = 1 => Data(Empty) = Data(caller.reported)
<1> DEFINE R == Data(caller.reported)
<1>1. h.n \in 1..3
  BY DEF ImportType
<1>2. \A q \in Parts : q < h.n \/ Sent(h)[q] = End
  BY <1>1 DEF AtEnd, Parts
<1>3. \A q \in Parts : Sent(h)[q] = End => R[q] = "hole"
  <2>1. Data(Sent(h)) = R
    BY Zenon DEF Sending
  <2>2. \A q \in Parts : Sent(h)[q] = End => Data(Sent(h))[q] = "hole"
    <3>1. End.data = "none"
      BY DEF End
    <3> QED
      BY <3>1, Zenon DEF Data
  <2> QED
    BY <2>1, <2>2, Zenon
<1>4. \A q \in Parts : Data(h.file)[q] = IF q < h.n THEN R[q] ELSE "hole"
  BY Zenon DEF Sending
<1>5. \A q \in Parts : Data(h.file)[q] = R[q]
  BY <1>2, <1>3, <1>4
<1>6. Data(h.file) = R
  BY <1>5, Zenon DEF Data
<1>7. ASSUME h.n = 1  PROVE Data(Empty) = R
  <2>1. \A q \in Parts : ~(q < 1)
    BY DEF Parts
  <2>2. \A q \in Parts : Data(Empty)[q] = "hole"
    BY DEF Data, Empty, End
  <2>3. \A q \in Parts : Data(Empty)[q] = R[q]
    BY <1>2, <1>3, <1>7, <2>1, <2>2
  <2> QED
    BY <2>3 DEF Data
<1>8. setting.to = "vsphere" /\ h.n > 1 => Data(vol[1]) = Data(h.file)
  BY DEF Sending
<1> QED
  BY <1>6, <1>7, <1>8

LEMMA UploadFileStep ==
    ASSUME TargetTypes, Locals, Waits, Carried, NEW b \in Attempts, UploadFile(b),
           setting \in SettingType, setting' = setting, caller' = caller
    PROVE  Kept(b)
<1>1. im[b].at = "send" /\ AtEnd(Sent(im[b]), im[b].n) /\ Live(im[b]) /\ setting.to = "vsphere"
  BY DEF UploadFile, Importing, Live
<1>2. im[b] \in ImportType
  BY ImportBefore, Zenon
<1> DEFINE h == [im[b] EXCEPT !.ok = ~im[b].given /\ im[b].n > im[b].size]
<1>3. h \in ImportType
  BY <1>2, Zenon DEF ImportType
<1>4. /\ h.given = im[b].given /\ h.expected = im[b].expected
      /\ h.shared = im[b].shared /\ h.checked = im[b].checked
  BY <1>2 DEF ImportType
<1>5. ImportReturns(b, h) /\ vol' = IF im[b].n = 1 /\ ~im[b].given THEN [vol EXCEPT ![1] = Empty] ELSE vol
  BY DEF UploadFile
<1>6. vol' \in [Attempts -> Files]
  BY <1>5, Constants, Zenon DEF TargetTypes
<1>7. ASSUME Carries(b), b = caller.call, caller.phase # "export", h.checked
      PROVE  Data(vol'[Place(b)]) = Data(caller.reported)
  <2>1. Sending(im[b])
    BY <1>1, <1>4, <1>7 DEF Carries
  <2>2. Place(b) = 1
    BY <1>1, Importers
  <2>3. ~im[b].given
    BY <1>7, AttemptsAssumption DEF Waits
  <2>4. CASE im[b].n = 1
    BY <1>1, <1>2, <1>5, <2>1, <2>2, <2>3, <2>4, AllSent, AttemptsAssumption DEF TargetTypes
  <2>5. CASE im[b].n # 1
    <3>1. im[b].n > 1
      BY <1>2, <2>5 DEF ImportType
    <3> QED
      BY <1>1, <1>2, <1>5, <2>1, <2>2, <2>5, <3>1, AllSent
  <2> QED
    BY <2>4, <2>5, Zenon
<1> HIDE DEF h
<1> QED
  BY <1>1, <1>3, <1>4, <1>5, <1>6, <1>7, Succeeded, Zenon

LEMMA UploadDirectStep ==
    ASSUME TargetTypes, Locals, Carried, NEW b \in Attempts, uploadDirectFile(b),
           setting \in SettingType, setting' = setting, caller' = caller
    PROVE  Kept(b)
<1>1. im[b].at = "send" /\ AtEnd(Sent(im[b]), im[b].n) /\ Live(im[b])
  BY DEF uploadDirectFile, Importing, Live
<1>2. im[b] \in ImportType
  BY ImportBefore, Zenon
<1>3. CASE ImportReturns(b, im[b]) /\ vol' = vol
  BY <1>1, <1>3, ImportFailed, Zenon
<1>4. CASE ImportReturns(b, [im[b] EXCEPT !.ok = TRUE, !.placed = FALSE]) /\ vol' = vol
  <2> DEFINE h == [im[b] EXCEPT !.ok = TRUE, !.placed = FALSE]
  <2>1. /\ h \in ImportType /\ h.given = im[b].given /\ h.expected = im[b].expected
        /\ h.shared = im[b].shared /\ ~h.placed
    BY <1>2, Zenon DEF ImportType
  <2>2. ImportReturns(b, h)
    BY <1>4
  <2> HIDE DEF h
  <2> QED
    BY <1>1, <1>4, <2>1, <2>2, Succeeded DEF TargetTypes
<1>5. CASE ImportReturns(b, [im[b] EXCEPT !.ok = TRUE]) /\ vol' = [vol EXCEPT ![Place(b)] = im[b].file]
  <2> DEFINE h == [im[b] EXCEPT !.ok = TRUE]
  <2>1. /\ h \in ImportType /\ h.given = im[b].given /\ h.expected = im[b].expected
        /\ h.shared = im[b].shared /\ h.checked = im[b].checked
    BY <1>2, Zenon DEF ImportType
  <2>2. ImportReturns(b, h)
    BY <1>5
  <2>3. Place(b) \in Attempts /\ im[b].file \in Files
    BY <1>2, Importers, Zenon DEF ImportType
  <2>4. vol' \in [Attempts -> Files] /\ vol'[Place(b)] = im[b].file
    BY <1>5, <2>3 DEF TargetTypes
  <2>5. Carries(b) /\ h.checked => Data(im[b].file) = Data(caller.reported)
    BY <1>1, <1>2, <2>1, AllSent DEF Carries
  <2> HIDE DEF h
  <2> QED
    BY <1>1, <2>1, <2>2, <2>4, <2>5, Succeeded, Zenon
<1> QED
  BY <1>3, <1>4, <1>5 DEF uploadDirectFile

LEMMA CopyToRemoteStep ==
    ASSUME TargetTypes, Locals, pvc \in Files, NEW b \in Attempts, copyDiskToRemote(b),
           setting' = setting, caller' = caller
    PROVE  Kept(b)
<1>1. im[b].at = "place" /\ im[b].n \in Parts /\ Live(im[b])
  BY ImportBefore DEF copyDiskToRemote, Importing, Live, AtEnd
<1>2. im[b] \in ImportType /\ Local(im[b])
  BY ImportBefore, Zenon
<1>3. CASE ImportReturns(b, im[b]) /\ vol' = vol
  BY <1>1, <1>3, ImportFailed
<1> DEFINE n == im[b].n
           h == [im[b] EXCEPT !.n = n + 1]
           f == WriteAt(IF n = 1 THEN Empty ELSE vol[1], n, pvc[n])
<1>4. CASE vol' = [vol EXCEPT ![1] = f] /\ ImportTo(b, h) /\ path' = path /\ node' = node
  <2>1. f \in Files
    <3>1. (IF n = 1 THEN Empty ELSE vol[1]) \in Files /\ pvc[n] \in PartType
      BY <1>1, Constants, AttemptsAssumption DEF TargetTypes, Files
    <3> QED
      BY <1>1, <3>1, WriteAtType, Zenon
  <2> HIDE DEF f
  <2>2. vol' \in [Attempts -> Files]
    BY <1>4, <2>1, ZenonT(30) DEF TargetTypes
  <2>3. n + 1 \in 1..3
    BY <1>1 DEF Parts
  <2>4. /\ h \in ImportType /\ h.at = "place" /\ h.given = im[b].given
        /\ h.expected = im[b].expected /\ h.ok = im[b].ok /\ h.file = im[b].file
        /\ h.sum = im[b].sum /\ h.checked = im[b].checked
    BY <1>1, <1>2, <2>3 DEF ImportType
  <2> HIDE DEF h
  <2>5. Local(h)
    BY <1>1, <1>2, <2>4, Zenon DEF Local, Live
  <2>6. TargetTypes' /\ Locals' /\ (\A c \in Attempts : Moves(c)) /\ im'[b] = h
    BY <1>1, <1>4, <2>2, <2>4, <2>5, ImportMoved, Zenon DEF TargetTypes, OnTemp
  <2>7. Carries(b)'
    BY <2>4, <2>6, Zenon DEF Carries, OnTemp
  <2> QED
    BY <2>6, <2>7 DEF Kept, Carried
<1> QED
  BY <1>3, <1>4 DEF copyDiskToRemote

LEMMA CreateVolumeStep ==
    ASSUME TargetTypes, Locals, pvc \in Files, NEW b \in Attempts, CreateVolumeFromImageFile(b),
           setting \in SettingType, setting' = setting, caller' = caller
    PROVE  Kept(b)
<1>1. im[b].at = "place" /\ Live(im[b]) /\ setting.to = "libvirt"
  BY Importers DEF CreateVolumeFromImageFile, Importing, Live
<1>2. im[b] \in ImportType /\ Local(im[b]) /\ ~im[b].checked
  BY <1>1, ImportBefore, Zenon DEF Local
<1>3. CASE ImportReturns(b, im[b]) /\ vol' = vol
  BY <1>1, <1>3, ImportFailed, Zenon
<1> DEFINE h1 == [im[b] EXCEPT !.at = "sum"]
           h2 == [im[b] EXCEPT !.at = "done", !.ok = TRUE]
           f == Converted(pvc, "qcow2")
<1>4. /\ h1 \in ImportType /\ h1.at = "sum" /\ h1.given = im[b].given
      /\ h1.expected = im[b].expected /\ h1.ok = im[b].ok /\ ~h1.checked
  BY <1>2 DEF ImportType, ImportSteps
<1>5. /\ h2 \in ImportType /\ h2.at = "done" /\ h2.given = im[b].given
      /\ h2.expected = im[b].expected /\ ~h2.checked
  BY <1>2, ZenonT(30) DEF ImportType, ImportSteps
<1>6. CASE /\ vol' = vol \/ vol' = [vol EXCEPT ![1] = f]
           /\ ImportTo(b, h1) \/ ImportTo(b, h2)
           /\ path' = path /\ node' = node
  <2>1. f \in Files
    BY ConvertedType DEF Formats
  <2> HIDE DEF f
  <2>2. vol' \in [Attempts -> Files]
    BY <1>6, <2>1, SMTT(30) DEF TargetTypes
  <2> HIDE DEF h1, h2
  <2>3. Local(h1) /\ Local(h2)
    BY <1>1, <1>2, <1>4, <1>5, Zenon DEF Local, Live
  <2>4. PICK h \in ImportType :
              /\ ImportTo(b, h) /\ Local(h) /\ h.at \in {"sum", "done"} /\ ~h.checked
              /\ h.given = im[b].given /\ h.expected = im[b].expected
    BY <1>4, <1>5, <1>6, <2>3, ZenonT(30)
  <2>5. h.at # "idle" /\ h.at \notin OnTemp
    BY <2>4 DEF OnTemp
  <2>6. TargetTypes' /\ Locals' /\ (\A c \in Attempts : Moves(c)) /\ im'[b] = h
    BY <1>1, <1>6, <2>2, <2>4, <2>5, ImportMoved, Zenon DEF TargetTypes
  <2>7. Carries(b)'
    BY <2>4, <2>5, <2>6, Zenon DEF Carries, OnTemp
  <2> QED
    BY <2>6, <2>7 DEF Kept, Carried
<1> QED
  BY <1>3, <1>6 DEF CreateVolumeFromImageFile

LEMMA ChecksumStep ==
    ASSUME TargetTypes, Locals, Waits, Carried, NEW b \in Attempts, ChecksumOfVolume(b),
           setting \in SettingType, setting' = setting, caller' = caller
    PROVE  Kept(b)
<1>1. im[b].at = "sum" /\ Live(im[b]) /\ vol' = vol
  BY DEF ChecksumOfVolume, Importing, Live
<1>2. im[b] \in ImportType /\ ~im[b].checked /\ setting.to = "libvirt"
  BY <1>1, ImportBefore, Zenon DEF Local
<1> DEFINE same == vol[1] = im[b].expected
           h1 == [im[b] EXCEPT !.ok = same, !.checked = same]
           h2 == [im[b] EXCEPT !.ok = TRUE]
<1>3. /\ h1 \in ImportType /\ h1.given = im[b].given
      /\ h1.expected = im[b].expected /\ h1.shared = im[b].shared
      /\ h1.checked => same
  BY <1>2, Zenon DEF ImportType
<1>4. /\ h2 \in ImportType /\ h2.given = im[b].given
      /\ h2.expected = im[b].expected /\ h2.shared = im[b].shared /\ ~h2.checked
  BY <1>2, Zenon DEF ImportType
<1>5. vol' \in [Attempts -> Files] /\ Place(b) = 1
  BY <1>1, <1>2, Importers DEF TargetTypes
<1>6. b = caller.call /\ caller.phase # "export" /\ same => Data(vol'[Place(b)]) = Data(caller.reported)
  BY <1>1, <1>5, AttemptsAssumption, Zenon DEF Waits
<1>7. ImportReturns(b, h1) \/ ImportReturns(b, h2)
  BY DEF ChecksumOfVolume
<1> HIDE DEF same, h1, h2
<1>8. CASE ImportReturns(b, h1)
  BY <1>1, <1>3, <1>5, <1>6, <1>8, Succeeded, ZenonT(30)
<1>9. CASE ImportReturns(b, h2)
  BY <1>1, <1>4, <1>5, <1>9, Succeeded, Zenon
<1> QED
  BY <1>7, <1>8, <1>9

-----------------------------------------------------------------------------
(* The inductive invariant of the target side.                             *)
TargetInv == TargetTypes /\ Locals /\ Waits /\ Carried

LEMMA ImportDiskStep ==
    ASSUME Types, TargetInv, NEW b \in Attempts, ImportDisk(b)
    PROVE  TargetInv'
<1>1. setting' = setting /\ caller' = caller
  BY ImportLeavesTheSource DEF SourceSide
<1>2. setting \in SettingType /\ pvc \in Files /\ caller \in CallerType
  BY DEF Types, SourceTypes
<1> USE <1>1, <1>2 DEF TargetInv
<1>3. Kept(b)
  <2>1. CASE CreateTemp(b)
    BY <2>1, CreateTempStep
  <2>2. CASE DownloadReads(b)
    BY <2>2, DownloadReadsStep
  <2>3. CASE DownloadVerifies(b)
    BY <2>3, DownloadVerifiesStep
  <2>4. CASE ConvertImport(b)
    BY <2>4, ConvertImportStep
  <2>5. CASE OpenUpload(b)
    BY <2>5, OpenUploadStep
  <2>6. CASE SendPart(b)
    BY <2>6, SendPartStep
  <2>7. CASE UploadFile(b)
    BY <2>7, UploadFileStep
  <2>8. CASE uploadDirectFile(b)
    BY <2>8, UploadDirectStep
  <2>9. CASE copyDiskToRemote(b)
    BY <2>9, CopyToRemoteStep
  <2>10. CASE CreateVolumeFromImageFile(b)
    BY <2>10, CreateVolumeStep
  <2>11. CASE ChecksumOfVolume(b)
    BY <2>11, ChecksumStep
  <2> QED
    BY <2>1, <2>2, <2>3, <2>4, <2>5, <2>6, <2>7, <2>8, <2>9, <2>10, <2>11 DEF ImportDisk
<1>4. Waits'
  BY <1>3, WaitsKept DEF Kept
<1>5. Carried'
  BY <1>3, OthersStep DEF Kept
<1> QED
  BY <1>3, <1>4, <1>5 DEF Kept

(* Steps that leave the target's side and the waiting caller alone.        *)
LEMMA TargetQuiet ==
    ASSUME TargetInv, UNCHANGED importSide, caller' = caller
    PROVE  TargetInv'
<1>1. im' = im /\ path' = path /\ node' = node /\ vol' = vol /\ setting' = setting
  BY DEF importSide
<1>2. TargetTypes'
  BY <1>1 DEF TargetInv, TargetTypes
<1>3. Locals'
  BY <1>1, ImporterKept, Zenon DEF TargetInv, Locals, Local, Live
<1>4. Waits'
  BY <1>1, Zenon DEF TargetInv, Waits, Live
<1>5. Carried'
  <2>1. ASSUME NEW h  PROVE (Sending(h)' <=> Sending(h)) /\ (Live(h)' <=> Live(h))
    BY <1>1, Zenon DEF Sending, Sent, Data, Live
  <2>2. TempFile' = TempFile
    BY <1>1 DEF TempFile
  <2>3. ASSUME NEW a  PROVE Place(a)' = Place(a)
    BY <1>1, ImporterKept DEF Place
  <2>4. ASSUME NEW a, Carries(a)  PROVE Carries(a)'
    BY <1>1, <2>1, <2>2, <2>3, <2>4, ZenonT(30) DEF Carries
  <2> QED
    BY <1>1, <2>4 DEF TargetInv, Carried
<1> QED
  BY <1>2, <1>3, <1>4, <1>5 DEF TargetInv

LEMMA Restarted ==
    ASSUME NEW h \in ImportType, Local(h)
    PROVE  /\ Died(h) \in ImportType /\ Local(Died(h)) /\ ~Live(Died(h)) /\ Died(h).at \notin OnTemp
           /\ Died(h).given = h.given /\ Died(h).expected = h.expected /\ Died(h).shared = h.shared
           /\ (h.at # "idle" => Died(h).at = "done") /\ (Live(h) => ~Died(h).ok) /\ (~Live(h) => Died(h) = h)
<1> DEFINE g == [h EXCEPT !.at = "done"]
<1>1. /\ g \in ImportType /\ g.at = "done" /\ g.given = h.given /\ g.expected = h.expected
      /\ g.shared = h.shared /\ g.ok = h.ok
  BY DEF ImportType, ImportSteps
<1>2. Died(h) = IF Live(h) THEN g ELSE h
  BY DEF Died
<1> HIDE DEF g
<1>3. Local(g)
  BY <1>1, SMTT(30) DEF Local, Live
<1> QED
  BY <1>1, <1>2, <1>3, Zenon DEF Live, Local, OnTemp

(* An import that has ended carries on with its volume only.               *)
LEMMA CarriesDone ==
    ASSUME NEW a, im'[a].at = "done",
           im'[a].ok /\ im'[a].checked /\ im'[a].placed => Data(vol'[Place(a)']) = Data(caller'.reported)
    PROVE  Carries(a)'
<1>1. im'[a].at \notin OnTemp
  BY Zenon DEF OnTemp
<1> QED
  BY <1>1, Zenon DEF Carries

LEMMA TargetRestartsStep ==
    ASSUME Types, TargetInv, TargetRestarts
    PROVE  TargetInv'
<1>1. /\ setting' = setting /\ caller' = caller /\ node' = node /\ vol' = vol
      /\ path' = [k \in Kinds |-> 0]
      /\ \A a \in Attempts : im'[a] = Died(im[a])
  BY DEF TargetRestarts, exportSide
<1>2. \A a \in Attempts : im[a] \in ImportType /\ Local(im[a])
  BY Zenon DEF TargetInv, TargetTypes, Locals
<1>3. \A a \in Attempts :
          /\ im'[a] \in ImportType /\ Local(im'[a]) /\ ~Live(im'[a]) /\ im'[a].at \notin OnTemp
          /\ im'[a].given = im[a].given /\ im'[a].expected = im[a].expected
          /\ im'[a].shared = im[a].shared
          /\ (im[a].at # "idle" => im'[a].at = "done") /\ (Live(im[a]) => ~im'[a].ok)
          /\ (~Live(im[a]) => im'[a] = im[a])
  <2> TAKE a \in Attempts
  <2>1. PICK h : h = im[a]
    BY Zenon
  <2>2. im'[a] = Died(h) /\ h \in ImportType /\ Local(h)
    BY <1>1, <1>2, <2>1, Zenon
  <2>3. /\ Died(h) \in ImportType /\ Local(Died(h)) /\ ~Live(Died(h)) /\ Died(h).at \notin OnTemp
        /\ Died(h).given = h.given /\ Died(h).expected = h.expected /\ Died(h).shared = h.shared
        /\ (h.at # "idle" => Died(h).at = "done") /\ (Live(h) => ~Died(h).ok) /\ (~Live(h) => Died(h) = h)
    BY <2>2, Restarted, Zenon
  <2> QED
    BY <2>1, <2>2, <2>3, Zenon
<1>4. im' \in [Attempts -> ImportType]
  BY <1>3, Zenon DEF TargetRestarts
<1>5. TargetTypes'
  <2>1. path' \in [Kinds -> {0} \cup Attempts]
    BY <1>1
  <2>2. node' \in [Kinds -> [Attempts -> Files]] /\ vol' \in [Attempts -> Files]
    BY <1>1, Zenon DEF TargetInv, TargetTypes
  <2> QED
    BY <1>3, <1>4, <2>1, <2>2, Zenon DEF TargetTypes
<1>6. Locals'
  BY <1>1, <1>3, ImporterKept, Zenon DEF Locals, Local, Live
<1>7. \A c \in Attempts : Moves(c)
  BY <1>3, Zenon DEF Moves, Live
<1>8. Waits'
  BY <1>1, <1>7, WaitsKept, Zenon DEF TargetInv, Types
<1>9. ASSUME caller.phase # "export", caller.call # 0, ~im'[caller.call].shared
      PROVE  Carries(caller.call)'
  <2>1. PICK a \in Attempts : a = caller.call
    BY <1>9 DEF Types, CallerType
  <2>2. Carries(a)
    BY <1>3, <1>9, <2>1, Zenon DEF TargetInv, Carried
  <2>3. Place(a)' = Place(a)
    BY <1>1, <2>1, Importers DEF Types, SourceTypes
  <2>4. im'[a].at = "done" /\ im'[a].ok /\ im'[a].checked /\ im'[a].placed
           => Data(vol'[Place(a)']) = Data(caller'.reported)
    BY <1>1, <1>3, <2>1, <2>2, <2>3, Zenon DEF Carries
  <2> QED
    <3>1. im'[a].at = "done"
      BY <1>3, <1>9, <2>1, Zenon DEF TargetInv, Waits
    <3>2. Carries(a)'
      BY <2>4, <3>1, CarriesDone, Zenon
    <3> QED
      BY <1>1, <2>1, <3>2, Zenon
<1> QED
  BY <1>1, <1>5, <1>6, <1>8, <1>9, Zenon DEF TargetInv, Carried

(* An import as it is called, and one that is given up.                    *)
LEMMA CalledImport ==
    ASSUME NEW expected \in Files
    PROVE  LET h == [NoImport EXCEPT !.at = "place", !.expected = expected]
           IN  /\ NoImport \in ImportType /\ h \in ImportType /\ Local(NoImport) /\ Local(h)
               /\ h.at = "place" /\ ~h.given /\ h.expected = expected /\ ~h.shared
<1> DEFINE h == [NoImport EXCEPT !.at = "place", !.expected = expected]
<1>1. NoImport \in ImportType
  <2>1. "idle" \in ImportSteps /\ 1 \in 1..3 /\ 0 \in 0..2 /\ "temp" \in Kinds
    BY DEF ImportSteps, Kinds
  <2> QED
    BY <2>1, Constants, Zenon DEF ImportType, NoImport
<1>2. NoImport.at = "idle"
  BY Zenon DEF NoImport
<1>3. h \in ImportType
  BY <1>1, Zenon DEF ImportType, ImportSteps
<1>4. /\ h.at = "place" /\ ~h.given /\ h.expected = expected /\ ~h.ok /\ h.sum = Empty
      /\ h.file = Empty /\ ~h.checked /\ ~h.shared
  BY DEF NoImport
<1> HIDE DEF h
<1>5. Local(NoImport) /\ Local(h)
  BY <1>2, <1>4, Zenon DEF Local, Live
<1> QED
  BY <1>1, <1>3, <1>4, <1>5, SMTT(30) DEF h

LEMMA GivenImport ==
    ASSUME NEW h \in ImportType, Local(h)
    PROVE  LET g == [h EXCEPT !.given = TRUE]
           IN  g \in ImportType /\ Local(g) /\ g.given /\ g.at = h.at /\ g.node = h.node
BY Zenon DEF ImportType, Local, Live

LEMMA MigrationStep ==
    ASSUME Types, TargetInv, Migration
    PROVE  TargetInv'
<1>1. setting' = setting /\ path' = path /\ node' = node /\ vol' = vol
  BY DEF Migration, callExport, exportAnswered, callImport, importAnswered, importSide, exportSide
<1>2. caller \in CallerType /\ 0 \notin Attempts
  BY AttemptsAssumption, SMTT(30) DEF Types
<1>3. ASSUME im' = im  PROVE TargetTypes' /\ Locals'
  BY <1>1, <1>3, ImporterKept, Zenon DEF TargetInv, TargetTypes, Locals, Local, Live
<1>4. CASE callExport
  <2>1. im' = im /\ caller.phase = "export" /\ caller'.phase = "export"
    BY <1>2, <1>4 DEF callExport, importSide, CallerType
  <2>2. Waits' /\ Carried'
    BY <2>1, Zenon DEF TargetInv, Waits, Carried, Live
  <2> QED
    BY <1>3, <2>1, <2>2 DEF TargetInv
<1>5. CASE exportAnswered
  <2>1. im' = im /\ caller.phase = "export" /\ caller'.phase \in {"export", "import"} /\ caller'.call = 0
    BY <1>2, <1>5 DEF exportAnswered, importSide, CallerType
  <2>2. Waits' /\ Carried'
    BY <2>1, Zenon DEF TargetInv, Waits, Carried, Live
  <2> QED
    BY <1>3, <2>1, <2>2 DEF TargetInv
<1>6. CASE callImport
  <2> DEFINE h == [NoImport EXCEPT !.at = "place", !.expected = caller.reported]
  <2>1. PICK a \in Attempts : /\ ~Live(im[a]) /\ im' = [im EXCEPT ![a] = h]
                              /\ caller' = [caller EXCEPT !.call = a]
    BY <1>6, Zenon DEF callImport, Free
  <2>2. h \in ImportType /\ Local(h) /\ h.at = "place" /\ ~h.given /\ h.expected = caller.reported
    BY <1>2, CalledImport, Zenon DEF CallerType
  <2> HIDE DEF h
  <2>3. /\ im' \in [Attempts -> ImportType] /\ im'[a] = h
        /\ \A b \in Attempts \ {a} : im'[b] = im[b]
    BY <2>1, <2>2 DEF TargetInv, TargetTypes
  <2>4. /\ caller.phase = "import" /\ caller.call = 0 /\ caller'.phase = "import" /\ caller'.call = a
        /\ caller'.reported = caller.reported
    BY <1>2, <1>6, <2>1 DEF callImport, CallerType
  <2>5. TargetTypes'
    BY <1>1, <2>2, <2>3, Zenon DEF TargetInv, TargetTypes, OnTemp
  <2>6. Locals'
    BY <1>1, <2>2, <2>3, ImporterKept, Zenon DEF TargetInv, Locals, Local, Live
  <2>7. Waits'
    BY <1>2, <2>2, <2>3, <2>4, Zenon DEF TargetInv, Waits, Live
  <2>8. Carries(a)'
    BY <2>2, <2>3, Zenon DEF Carries, OnTemp
  <2> QED
    BY <2>4, <2>5, <2>6, <2>7, <2>8, Zenon DEF TargetInv, Carried
<1>7. CASE importAnswered
  <2>0. PICK a \in Attempts : a = caller.call
    BY <1>2, <1>7 DEF importAnswered, CallerType
  <2>1. /\ im' = im /\ a \in Attempts /\ caller.phase = "import" /\ im[a].at = "done"
        /\ caller'.reported = caller.reported
        /\ \/ caller'.phase = "done" /\ caller'.call = a /\ im[a].ok
           \/ caller'.phase = "import" /\ caller'.call = 0
    BY <1>2, <1>7, <2>0 DEF importAnswered, importSide, CallerType
  <2>2. ~Live(im[a])
    BY <2>1 DEF Live
  <2>3. Waits'
    BY <1>2, <2>0, <2>1, <2>2, Zenon DEF TargetInv, Waits, Live
  <2>4. Place(a)' = Place(a)
    BY <1>1, <2>1, Importers, Zenon DEF Types, SourceTypes
  <2>5. Carries(a) => Carries(a)'
    <3>1. im'[a] = im[a] /\ vol'[Place(a)'] = vol[Place(a)]
      BY <1>1, <2>1, <2>4, Zenon
    <3>2. Carries(a) /\ im[a].ok /\ im[a].checked /\ im[a].placed
             => Data(vol[Place(a)]) = Data(caller.reported)
      BY <2>1, Zenon DEF Carries
    <3> QED
      BY <2>1, <3>1, <3>2, CarriesDone, Zenon
  <2>6. Carried'
    <3>1. caller'.phase # "export" /\ caller'.call # 0 /\ ~im'[caller'.call].shared
            => caller'.call = a /\ Carries(a)
      BY <1>2, <2>0, <2>1, Zenon DEF TargetInv, Carried
    <3> QED
      BY <2>5, <3>1 DEF Carried
  <2> QED
    BY <1>3, <2>1, <2>3, <2>6 DEF TargetInv
<1> QED
  BY <1>4, <1>5, <1>6, <1>7 DEF Migration

LEMMA GivesUpStep ==
    ASSUME Types, TargetInv, GivesUp
    PROVE  TargetInv'
<1> DEFINE a == caller.call
<1>1. /\ setting' = setting /\ path' = path /\ node' = node /\ vol' = vol
      /\ caller'.phase = caller.phase /\ caller.phase # "done" /\ caller'.call = 0
      /\ a \in Attempts /\ 0 \notin Attempts
  BY AttemptsAssumption DEF GivesUp, Types, CallerType
<1>2. CASE caller.phase = "export"
  <2>1. im' = im
    BY <1>2 DEF GivesUp
  <2>2. TargetTypes' /\ Locals'
    BY <1>1, <2>1, ImporterKept, ZenonT(30) DEF TargetInv, TargetTypes, Locals, Local, Live
  <2>3. Waits' /\ Carried'
    BY <1>1, <1>2, <2>1, Zenon DEF TargetInv, Waits, Carried, Live
  <2> QED
    BY <2>2, <2>3 DEF TargetInv
<1>3. CASE caller.phase = "import"
  <2> DEFINE g == [im[a] EXCEPT !.given = TRUE]
  <2>1. im' = [im EXCEPT ![a] = g]
    BY <1>1, <1>3 DEF GivesUp, TargetInv, TargetTypes
  <2>2. g \in ImportType /\ Local(g) /\ g.given /\ g.at = im[a].at /\ g.node = im[a].node
    BY <1>1, GivenImport DEF TargetInv, TargetTypes, Locals
  <2> HIDE DEF g
  <2>3. /\ im' \in [Attempts -> ImportType] /\ im'[a] = g
        /\ \A b \in Attempts \ {a} : im'[b] = im[b]
    BY <1>1, <2>1, <2>2, Zenon DEF TargetInv, TargetTypes
  <2>4. TargetTypes'
    BY <1>1, <2>2, <2>3, Zenon DEF TargetInv, TargetTypes
  <2>5. Locals'
    <3>1. ASSUME NEW b \in Attempts  PROVE Local(im[b])'
      <4>1. PICK k : k = im'[b]
        OBVIOUS
      <4>2. Local(k)
        BY <2>2, <2>3, <4>1, SMTT(30) DEF TargetInv, Locals
      <4> QED
        BY <1>1, <4>1, <4>2, ImporterKept, Zenon DEF Local, Live
    <3> QED
      BY <3>1 DEF Locals
  <2>6. Waits' /\ Carried'
    BY <1>1, <1>3, <2>2, <2>3, Zenon DEF TargetInv, Waits, Carried, Live
  <2> QED
    BY <2>4, <2>5, <2>6 DEF TargetInv
<1> QED
  BY <1>1, <1>2, <1>3 DEF Types, CallerType

LEMMA ExportLeavesTheTarget ==
    ASSUME NEW a \in Attempts, ExportDisk(a)
    PROVE  UNCHANGED importSide /\ caller' = caller
BY DEF ExportDisk, GetDiskInfo, cloneDiskToStreamOptimized, DownloadFile, DownloadExtent,
       downloadDirectFile, ConvertExport, UploadCreates, UploadWrites, UploadSyncs, DeleteCopy, Exporting

(* The inductive invariant of the transfer, and the three facts about it.  *)
TransferInv == Types /\ ExportInv /\ TargetInv

LEMMA TransferInit == Init => TransferInv
<1> SUFFICES ASSUME Init PROVE TransferInv
  OBVIOUS
<1>1. SourceTypes /\ caller \in CallerType /\ ExportInv
  BY SourceInit
<1>2. NoImport \in ImportType /\ Local(NoImport) /\ NoImport.at = "idle"
  BY CalledImport, Constants, Zenon DEF NoImport
<1>3. /\ im \in [Attempts -> ImportType] /\ \A a \in Attempts : im[a] = NoImport
      /\ path \in [Kinds -> {0} \cup Attempts]
  BY <1>2, Zenon DEF Init
<1>4. node \in [Kinds -> [Attempts -> Files]] /\ vol \in [Attempts -> Files]
  BY Constants, Zenon DEF Init
<1>5. caller.phase = "export"
  BY Zenon DEF Init
<1>6. TargetTypes
  BY <1>2, <1>3, <1>4 DEF TargetTypes, OnTemp
<1>7. Locals /\ Waits /\ Carried
  BY <1>2, <1>3, <1>5, Zenon DEF Locals, Waits, Carried, Live
<1> QED
  BY <1>1, <1>6, <1>7 DEF TransferInv, Types, TargetInv

LEMMA TransferStep == TransferInv /\ [Next]_vars => TransferInv'
<1> SUFFICES ASSUME TransferInv, [Next]_vars PROVE TransferInv'
  OBVIOUS
<1> USE DEF TransferInv
<1>1. SourceTypes' /\ ExportInv' /\ caller' \in CallerType
  BY SourceStep, CallerStep DEF Types
<1>2. TargetInv'
  <2>1. ASSUME NEW a \in Attempts, ExportDisk(a)  PROVE TargetInv'
    BY <2>1, ExportLeavesTheTarget, TargetQuiet
  <2>2. ASSUME NEW a \in Attempts, ImportDisk(a)  PROVE TargetInv'
    BY <2>2, ImportDiskStep
  <2>3. CASE Migration
    BY <2>3, MigrationStep
  <2>4. CASE GivesUp
    BY <2>4, GivesUpStep
  <2>5. CASE SourceRestarts \/ SourceWrites
    BY <2>5, TargetQuiet DEF SourceRestarts, SourceWrites
  <2>6. CASE TargetRestarts
    BY <2>6, TargetRestartsStep
  <2>7. CASE UNCHANGED vars
    BY <2>7, TargetQuiet, Zenon DEF vars, importSide
  <2> QED
    BY <2>1, <2>2, <2>3, <2>4, <2>5, <2>6, <2>7 DEF Next
<1> QED
  BY <1>1, <1>2 DEF Types, TargetInv

-----------------------------------------------------------------------------
(* The refinement.  A step that is neither a successful export nor a       *)
(* successful import changes nothing that Transfer sees.                   *)
LEMMA Unseen ==
    ASSUME TransferInv, setting' = setting, caller'.phase = caller.phase,
           caller.phase # "export" => caller'.reported = caller.reported,
           caller.phase = "done" => /\ caller'.call = caller.call
                                    /\ im'[caller.call] = im[caller.call]
                                    /\ vol'[Place(caller.call)] = vol[Place(caller.call)]
    PROVE  UNCHANGED Promise!tvars
<1>1. exported' = exported
  BY Zenon DEF exported, Data
<1>2. installed' = installed
  <2>1. CASE caller.phase # "done"
    BY <2>1, Zenon DEF installed
  <2>2. CASE caller.phase = "done"
    <3>1. caller.call \in Attempts
      BY <2>2, Zenon DEF TransferInv, Types, CallerType, TargetInv, Waits
    <3>2. PICK a \in Attempts : a = caller.call
      BY <3>1
    <3>3. Place(a)' = Place(a)
      BY Importers, Zenon DEF TransferInv, Types, SourceTypes
    <3>4. caller'.phase = "done" /\ caller'.call = a /\ im'[a] = im[a] /\ vol'[Place(a)'] = vol[Place(a)]
      BY <2>2, <3>2, <3>3, Zenon
    <3> QED
      BY <2>2, <3>2, <3>3, <3>4, ZenonT(30) DEF installed, Data
  <2> QED
    BY <2>1, <2>2, Zenon
<1> QED
  BY <1>1, <1>2, Zenon DEF Promise!tvars

LEMMA ExportSeen ==
    ASSUME TransferInv, exportAnswered
    PROVE  [Promise!Next]_(Promise!tvars)
<1>1. caller \in CallerType /\ caller.call \in Attempts /\ caller.phase = "export" /\ setting' = setting
  BY DEF TransferInv, Types, CallerType, exportAnswered, exportSide
<1>2. CASE ~ex[caller.call].ok
  <2>1. caller'.phase = "export"
    BY <1>1, <1>2 DEF exportAnswered, CallerType
  <2> QED
    BY <1>1, <2>1, Unseen
<1>3. CASE ex[caller.call].ok
  <2>1. caller'.phase = "import" /\ caller'.reported = ex[caller.call].sum
    BY <1>1, <1>3 DEF exportAnswered, CallerType
  <2>2. ex[caller.call].sum \in Files
    BY <1>1 DEF TransferInv, Types, SourceTypes, ExportType
  <2>3. Data(caller'.reported) \in [Parts -> {"none", "hole", "base", "old", "new"}]
    BY <2>1, <2>2, DataType
  <2>4. exported' = {Data(caller'.reported)} /\ installed = {} /\ installed' = {}
    BY <1>1, <2>1, Zenon DEF exported, installed, Data
  <2>5. Promise!Export
    BY <2>3, <2>4 DEF Promise!Export, Promise!Nothing
  <2> QED
    BY <2>5 DEF Promise!Next
<1> QED
  BY <1>2, <1>3, Zenon

LEMMA ImportSeen ==
    ASSUME TransferInv, importAnswered
    PROVE  [Promise!Next]_(Promise!tvars)
<1>1. caller \in CallerType /\ caller.phase = "import" /\ setting' = setting /\ im' = im /\ vol' = vol
  BY DEF TransferInv, Types, importAnswered, exportSide, importSide
<1>2. PICK a \in Attempts : a = caller.call
  BY <1>1 DEF CallerType, importAnswered
<1>3. CASE ~im[a].ok
  <2>1. caller'.phase = "import" /\ caller'.reported = caller.reported
    BY <1>1, <1>2, <1>3 DEF importAnswered, CallerType
  <2> QED
    BY <1>1, <2>1, Unseen, Zenon
<1>4. CASE im[a].ok
  <2>1. /\ caller'.phase = "done" /\ caller'.reported = caller.reported /\ caller'.call = a
        /\ im[a].at = "done"
    BY <1>1, <1>2, <1>4 DEF importAnswered, CallerType
  <2> DEFINE r == [image |-> Data(vol[Place(a)]),
                   verified |-> im[a].checked /\ im[a].placed /\ ~im[a].shared]
  <2>2. Place(a)' = Place(a) /\ Place(a) \in Attempts
    BY <1>1, Importers DEF TransferInv, Types, SourceTypes
  <2>3. installed = {} /\ installed' = {r}
    BY <1>1, <2>1, <2>2, Zenon DEF installed, Data
  <2>4. exported = {Data(caller.reported)} /\ exported' = exported
    BY <1>1, <2>1 DEF exported, Data
  <2>5. r \in Promise!Result
    <3>1. Data(vol[Place(a)]) \in [Parts -> {"none", "hole", "base", "old", "new"}]
      BY <2>2, DataType DEF TransferInv, TargetInv, TargetTypes
    <3> QED
      BY <3>1, Zenon DEF Promise!Result
  <2>6. r.verified => r.image \in exported
    <3>1. ~im[a].shared => Carries(a)
      BY <1>1, <1>2, AttemptsAssumption DEF TransferInv, TargetInv, Carried
    <3>2. im[a].checked /\ im[a].placed /\ ~im[a].shared => Data(vol[Place(a)]) = Data(caller.reported)
      BY <1>4, <2>1, <3>1, Zenon DEF Carries
    <3> QED
      BY <2>4, <3>2, Zenon
  <2> HIDE DEF r
  <2>7. Promise!Install
    BY <2>3, <2>4, <2>5, <2>6 DEF Promise!Install, Promise!Nothing
  <2> QED
    BY <2>7 DEF Promise!Next
<1> QED
  BY <1>3, <1>4

LEMMA PromiseStep == TransferInv /\ [Next]_vars => [Promise!Next]_(Promise!tvars)
<1> SUFFICES ASSUME TransferInv, [Next]_vars PROVE [Promise!Next]_(Promise!tvars)
  OBVIOUS
<1>1. ASSUME NEW b \in Attempts, ImportDisk(b)  PROVE UNCHANGED Promise!tvars
  <2>1. setting' = setting /\ caller' = caller
    BY <1>1, ImportLeavesTheSource DEF SourceSide
  <2>2. ASSUME caller.phase = "done"
        PROVE  im'[caller.call] = im[caller.call] /\ vol'[Place(caller.call)] = vol[Place(caller.call)]
    <3>1. caller.call \in Attempts /\ im[b].given /\ b # caller.call
      BY <1>1, <2>2, Running, Zenon DEF TransferInv, Types, CallerType, TargetInv, Waits, Live
    <3> QED
      BY <1>1, <3>1, GivenLeavesTheOthers, Zenon DEF TransferInv, Types, SourceTypes, TargetInv
  <2> QED
    BY <2>1, <2>2, Unseen, Zenon
<1>2. ASSUME NEW a \in Attempts, ExportDisk(a)  PROVE UNCHANGED Promise!tvars
  BY <1>2, ExportLeavesTheTarget, Unseen DEF importSide
<1>3. CASE callExport \/ callImport
  <2>1. /\ setting' = setting /\ caller.phase # "done" /\ caller'.phase = caller.phase
        /\ caller'.reported = caller.reported
    BY <1>3 DEF callExport, callImport, importSide, exportSide, TransferInv, Types, CallerType
  <2> QED
    BY <2>1, Unseen
<1>4. CASE GivesUp
  <2>1. /\ setting' = setting /\ caller.phase # "done" /\ caller'.phase = caller.phase
        /\ caller'.reported = caller.reported
    BY <1>4 DEF GivesUp, TransferInv, Types, CallerType
  <2> QED
    BY <2>1, Unseen
<1>5. CASE TargetRestarts
  <2>1. setting' = setting /\ caller' = caller /\ vol' = vol
    BY <1>5 DEF TargetRestarts, exportSide
  <2>2. caller.phase = "done" => im'[caller.call] = im[caller.call]
    BY <1>5 DEF TargetRestarts, Died, Live, TransferInv, Types, CallerType, TargetInv, Waits
  <2> QED
    BY <2>1, <2>2, Unseen
<1>6. CASE SourceRestarts \/ SourceWrites \/ UNCHANGED vars
  BY <1>6, Unseen DEF SourceRestarts, SourceWrites, vars, importSide
<1> QED
  BY <1>1, <1>2, <1>3, <1>4, <1>5, <1>6, ExportSeen, ImportSeen DEF Next, Migration

(* The transfer implements Transfer: whatever the two providers are, and   *)
(* however often a handler fails, is given up or dies, an import counted   *)
(* as verified has installed the data of the image that was exported.      *)
THEOREM TransferImplementsItsPromise == Spec => VerifiedImportIsTheExport
<1>1. Init => Promise!Init
  BY DEF Init, exported, installed, Promise!Init, Promise!Nothing
<1> QED
  BY <1>1, TransferInit, TransferStep, PromiseStep, PTL DEF Spec, VerifiedImportIsTheExport, Promise!Spec
================================================================================

---------------------------- MODULE CreateRequest ----------------------------
(***************************************************************************)
(* The way of a creation from the objects in the cluster to a provider:     *)
(* the VirtualMachine controller builds a request from the VirtualMachine,  *)
(* its VMClass, VMImage, VMNetworkAttachments and Secrets                   *)
(* (virtualmachine_controller.go, cloudinit.go), the gRPC client encodes it *)
(* (transport/grpc/client.go), and each provider's server parses it.        *)
(*                                                                          *)
(* Constant operators, used by the provider modules.  An optional value is  *)
(* a set with at most one element; "" is the empty string.  Sizes are in    *)
(* half GiB in the objects and in GiB in the request.  A network carries    *)
(* the parts of the VMNetworkAttachment it refers to, if any.               *)
(***************************************************************************)
EXTENDS Integers, Sequences

The(S) == CHOOSE x \in S : TRUE
NoBus == -1      \* a disk with no SCSI controller of its own

(* The objects of one machine, reduced to what the parts below tell apart. *)
Optional(S) == {T \in SUBSET S : \A x, y \in T : x = y}
PathType == [dir : STRING, file : STRING]

ClassType == [cpu : Nat, size : Nat, tpm : BOOLEAN]
ImportedDiskType == [id : STRING, path : Optional(PathType), format : STRING]
ProxmoxImageType == STRING
ImageType ==
    [vsphere : Optional([template : STRING, ova : STRING]),
     libvirt : Optional([path : Optional(PathType), url : STRING, format : STRING]),
     proxmox : Optional(ProxmoxImageType)]
VSphereNetworkType == STRING
LibvirtNetworkType == [network : STRING, bridge : STRING]
ProxmoxNetworkType == STRING
NetworkType ==
    [name : STRING, ip : STRING, vsphere : Optional(VSphereNetworkType),
     libvirt : Optional(LibvirtNetworkType), proxmox : Optional(ProxmoxNetworkType)]
DiskSpecType == {NoBus} \cup 0..3      \* the bus of its SCSI controller
CloudInitType == [inline : BOOLEAN, secret : {"none", "missing", "noKey", "empty", "present"}]
ObjectType ==
    [class : ClassType, imported : Optional(ImportedDiskType), image : Optional(ImageType),
     networks : Seq(NetworkType), disks : Seq(DiskSpecType),
     userData : CloudInitType, metaData : CloudInitType]

(* A request: contracts.CreateRequest and the structures it is made of.     *)
RequestType ==
    [class : [cpu : Nat, sizeGB : Nat, tpm : BOOLEAN],
     image : [template : STRING, url : STRING, path : Optional(PathType), format : STRING],
     networks : Seq([name : STRING, ip : STRING, network : STRING, bridge : STRING]),
     disks : Seq({NoBus}),
     userData : Seq({"inline", "secret"}), metaData : Seq({"inline", "secret"})]

-----------------------------------------------------------------------------
(* Cloud-init content: what is written inline, and a reference to a Secret, *)
(* which may be missing, lack every accepted key, or have nothing under it. *)
(* The result is the sequence of the parts, or {} for an error.             *)

Value(s) == IF s = "present" THEN {"secret"} ELSE IF s = "empty" THEN {""} ELSE {}
extractCloudInitFromSecret(s) == Value(s)
extractMetaDataFromSecret(s) == Value(s)

(* An empty part adds nothing.                                              *)
Join(content, part) == IF part = "" THEN content ELSE Append(content, part)

(* Mutant of resolveCloudInitUserData: the Secret is only looked at when    *)
(* nothing is written inline.                                               *)
inlineOnly(ci) ==
    IF ci.inline THEN {<<"inline">>}
    ELSE IF ci.secret = "none" THEN {<<>>}
    ELSE {Join(<<>>, part) : part \in extractCloudInitFromSecret(ci.secret)}

(* Both parts are merged into one multipart document.                       *)
resolveCloudInitUserData(ci) ==
    LET inline == IF ci.inline THEN <<"inline">> ELSE <<>>
    IN  IF ci.secret = "none" THEN {inline}
        ELSE {Join(inline, part) : part \in extractCloudInitFromSecret(ci.secret)}

(* Both parts are joined by a line break.                                   *)
resolveCloudInitMetaData(ci) ==
    LET inline == IF ci.inline THEN <<"inline">> ELSE <<>>
    IN  IF ci.secret = "none" THEN {inline}
        ELSE {Join(inline, part) : part \in extractMetaDataFromSecret(ci.secret)}

-----------------------------------------------------------------------------
(* buildCreateRequest, part by part.                                        *)

(* Bytes are divided into whole GiB.                                        *)
vmClass(class) ==
    [cpu |-> class.cpu, sizeGB |-> class.size \div 2, tpm |-> class.tpm]

(* An imported disk without a path gets one in libvirt's image directory.   *)
importedImage(disk) ==
    [template |-> "", url |-> "",
     path |-> IF disk.path # {} THEN disk.path ELSE {[dir |-> "images", file |-> disk.id]},
     format |-> IF disk.format = "" THEN "qcow2" ELSE disk.format]

(* The sources of a VMImage are all copied into the one request, the later  *)
(* over the earlier: libvirt's after vSphere's, then Proxmox's template if  *)
(* it names one.                                                            *)
templateImage(source) ==
    [template |-> IF source.proxmox \notin {{}, {""}} THEN The(source.proxmox)
                  ELSE IF source.vsphere # {} THEN The(source.vsphere).template
                  ELSE "",
     path |-> IF source.libvirt # {} THEN The(source.libvirt).path ELSE {},
     url |-> IF source.libvirt # {} THEN The(source.libvirt).url
             ELSE IF source.vsphere # {} THEN The(source.vsphere).ova
             ELSE "",
     format |-> IF source.libvirt # {} THEN The(source.libvirt).format ELSE "template"]

(* A network without a reference keeps the template's adapter, but its      *)
(* address is passed on.  Libvirt's name replaces vSphere's port group, and *)
(* Proxmox's bridge replaces libvirt's.                                     *)
networkAttachment(net) ==
    [name |-> net.name, ip |-> net.ip,
     network |-> IF net.libvirt # {} THEN The(net.libvirt).network
                 ELSE IF net.vsphere # {} THEN The(net.vsphere) ELSE "",
     bridge |-> IF net.proxmox # {} THEN The(net.proxmox)
                ELSE IF net.libvirt # {} THEN The(net.libvirt).bridge ELSE ""]

(* A disk's size, type and name are copied, its SCSI controller is not.     *)
diskSpec(disk) == NoBus

(* The request for the objects o and the cloud-init content found.          *)
requestWith(o, userData, metaData) ==
    [class |-> vmClass(o.class),
     image |-> IF o.imported # {} THEN importedImage(The(o.imported))
               ELSE templateImage(The(o.image)),
     networks |-> [i \in DOMAIN o.networks |-> networkAttachment(o.networks[i])],
     disks |-> [i \in DOMAIN o.disks |-> diskSpec(o.disks[i])],
     userData |-> userData, metaData |-> metaData]

(* createVM's check of the source, then the request; {} is an error, after  *)
(* which no call is made.                                                   *)
buildCreateRequest(o) ==
    {requestWith(o, u, m) :
        u \in IF (o.image = {}) = (o.imported = {}) THEN {}
              ELSE resolveCloudInitUserData(o.userData),
        m \in resolveCloudInitMetaData(o.metaData)}

(* The client sends metadata only along with user data.                     *)
convertCreateRequest(req) ==
    [req EXCEPT !.metaData = IF req.userData = <<>> THEN <<>> ELSE @]

(* What reaches the wire for the objects o.                                 *)
Sent(o) == {convertCreateRequest(req) : req \in buildCreateRequest(o)}

-----------------------------------------------------------------------------
(* parseCreateRequest of the vSphere server: the class as it is.            *)
vsphereClass(class) == [cpu |-> class.cpu, sizeGB |-> class.sizeGB, tpm |-> class.tpm]

(* The rest: a path is an imported disk whatever else is given, and of the  *)
(* networks only the first counts.                                          *)
vsphereParseCreateRequest(req) ==
    LET class == vsphereClass(req.class) IN
    [cpu |-> class.cpu, sizeGB |-> class.sizeGB, tpm |-> class.tpm,
     diskPath |-> req.image.path,
     templateName |-> IF req.image.path = {} THEN req.image.template ELSE "",
     networkName |-> IF Len(req.networks) > 0 THEN req.networks[1].network ELSE "",
     additionalDisks |-> req.disks,
     cloudInit |-> req.userData, metaData |-> req.metaData]

(* addCloudInitToConfigSpec, called when there is user data.                *)
guestinfo(spec) ==
    [userdata |-> spec.cloudInit,
     metadata |-> IF spec.cloudInit = <<>> THEN <<>>
                  ELSE IF spec.metaData = <<>> THEN <<"instance-id">> ELSE spec.metaData]

(* parseCreateRequest of the libvirt server keeps the fields as they are,   *)
(* but does not read the metadata.                                          *)
libvirtParseCreateRequest(req) == [req EXCEPT !.metaData = <<>>]

GetPredefinedTemplates ==
    {"ubuntu-22.04-server", "ubuntu-20.04-server", "centos-stream-9", "debian-12"}

(* A predefined template is downloaded from its URL, others are refused.    *)
CreateVolumeFromTemplate(name) ==
    [source |-> IF name \in GetPredefinedTemplates THEN "url" ELSE "unknown", image |-> name]

(* extractImageSpec, and what createVMWithCloudInit makes of it: a path,    *)
(* else a URL, else a template's name; with none of them a blank disk.      *)
extractImageSpec(req) ==
    IF req.image.path # {}
    THEN [source |-> IF The(req.image.path).dir = "images" THEN "pool" ELSE "file",
          image |-> The(req.image.path).file]
    ELSE IF req.image.url # "" THEN [source |-> "url", image |-> req.image.url]
    ELSE IF req.image.template # "" THEN CreateVolumeFromTemplate(req.image.template)
    ELSE [source |-> "blank", image |-> ""]

(* parseCreateRequest of the Proxmox server: a network's name, VLAN and     *)
(* address are looked up under keys the client does not write, so that      *)
(* every adapter is the default one.                                        *)
proxmoxNetworks(networks) ==
    LET default == [model |-> "virtio", bridge |-> "vmbr0", dhcp |-> TRUE]
    IN  IF networks = <<>> THEN <<default>> ELSE [i \in DOMAIN networks |-> default]

(* With user data, whatever is in it, the machine gets a cloud-init drive.  *)
proxmoxCloudInit(userData) == userData # <<>>

(* The CPUs are looked up under such a key too; of the image the template   *)
(* is all that is found.                                                    *)
proxmoxParseCreateRequest(req) ==
    [template |-> req.image.template, cpus |-> 0,
     networks |-> proxmoxNetworks(req.networks),
     cloudInit |-> proxmoxCloudInit(req.userData)]
=============================================================================

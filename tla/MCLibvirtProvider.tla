------------------------- MODULE MCLibvirtProvider -------------------------
(***************************************************************************)
(* Instances of LibvirtProvider for TLC.                                   *)
(***************************************************************************)
EXTENDS LibvirtProvider

(* A VirtualMachine of an image with libvirt's source only.                 *)
Object(path, url, inline, secret) ==
    [class |-> [cpu |-> 1, size |-> 4, tpm |-> FALSE], imported |-> {},
     image |-> {[vsphere |-> {}, proxmox |-> {},
                 libvirt |-> {[path |-> path, url |-> url, format |-> "qcow2"]}]},
     networks |-> <<>>, disks |-> <<>>,
     userData |-> [inline |-> inline, secret |-> secret],
     metaData |-> [inline |-> FALSE, secret |-> "none"]]

File == Object({[dir |-> "srv", file |-> "i1"]}, "", FALSE, "none")
Blank == Object({}, "", TRUE, "none")
Url == Object({}, "http://i1", FALSE, "present")

(* An image for vSphere, and a disk imported under the name of the image.   *)
Foreign ==
    [Blank EXCEPT !.image = {[vsphere |-> {[template |-> "tpl", ova |-> ""]},
                              proxmox |-> {}, libvirt |-> {}]}]
Imported ==
    [Blank EXCEPT !.image = {}, !.imported = {[id |-> "i1", path |-> {}, format |-> ""]},
                  !.userData.inline = FALSE]

(* Copied and blank machines over ssh, the first with snapshots; a          *)
(* downloaded image and one used in place on a local connection; and an     *)
(* image that libvirt cannot use.                                           *)
MCSettings ==
    {[remote |-> TRUE, object |-> [n \in Names |-> IF n = "a" THEN File ELSE Blank],
      snapshotted |-> {"a"}],
     [remote |-> FALSE, object |-> [n \in Names |-> IF n = "a" THEN Url ELSE Imported],
      snapshotted |-> {}],
     [remote |-> FALSE, object |-> [n \in Names |-> Foreign], snapshotted |-> {}]}

MCNoPairs == {}
=============================================================================

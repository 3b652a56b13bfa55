------------------------- MODULE MCProxmoxProvider -------------------------
(***************************************************************************)
(* Instances of ProxmoxProvider for TLC.                                   *)
(***************************************************************************)
EXTENDS ProxmoxProvider

(* A VirtualMachine of an image with Proxmox's source, with or without      *)
(* user data.                                                               *)
Object(template, userData) ==
    [class |-> [cpu |-> 1, size |-> 4, tpm |-> FALSE], imported |-> {},
     image |-> {[vsphere |-> {}, libvirt |-> {}, proxmox |-> {template}]},
     networks |-> <<>>, disks |-> <<>>,
     userData |-> [inline |-> userData, secret |-> "none"],
     metaData |-> [inline |-> FALSE, secret |-> "none"]]
Clone(userData) == Object("9000", userData)

(* An imported disk, which becomes a blank machine, and images for another  *)
(* provider: a URL, and a template's name.                                  *)
Imported ==
    [Clone(FALSE) EXCEPT !.image = {}, !.userData.secret = "present",
                         !.imported = {[id |-> "d", path |-> {}, format |-> ""]}]
Url ==
    [Clone(FALSE) EXCEPT
        !.image = {[vsphere |-> {}, proxmox |-> {},
                    libvirt |-> {[path |-> {}, url |-> "u", format |-> "qcow2"]}]}]
Foreign ==
    [Clone(FALSE) EXCEPT
        !.image = {[vsphere |-> {[template |-> "tpl", ova |-> ""]}, proxmox |-> {},
                    libvirt |-> {}]}]

Setting(auth, slow, disk, a, b) ==
    [auth |-> auth, slow |-> slow, disk |-> disk, names |-> Names, operated |-> {},
     object |-> [n \in Names |-> IF n = "a" THEN a ELSE b]]

(* Two machines, a clone and a blank one, two clones, a clone that outlasts *)
(* the deadline, images that cannot be used, the other credentials, and one *)
(* machine that is operated on.                                             *)
MCSettings ==
    {Setting("token", FALSE, "scsi0", Clone(TRUE), Imported),
     Setting("token", FALSE, "virtio0", Clone(FALSE), Clone(TRUE)),
     [Setting("token", TRUE, "scsi0", Clone(TRUE), Url) EXCEPT !.names = {"a"}],
     Setting("token", FALSE, "scsi0", Foreign, Object("9999", FALSE)),
     Setting("password", FALSE, "scsi0", Url, Clone(FALSE)),
     Setting("none", FALSE, "scsi0", Url, Url),
     [Setting("token", FALSE, "scsi0", Clone(TRUE), Url)
        EXCEPT !.names = {"a"}, !.operated = {"a"}]}
=============================================================================

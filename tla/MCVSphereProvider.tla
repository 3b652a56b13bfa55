-------------------------- MODULE MCVSphereProvider --------------------------
(* Controllers with four units, the third of them reserved.               *)
EXTENDS VSphereProvider

NoNetwork == [name |-> "n", ip |-> "", vsphere |-> {}, libvirt |-> {}, proxmox |-> {}]
Network == [NoNetwork EXCEPT !.vsphere = {"pg"}]
Nothing == [inline |-> FALSE, secret |-> "none"]
Both == [inline |-> TRUE, secret |-> "present"]

(* A VirtualMachine of a template, with a class of so many half GiB.       *)
Object(size) ==
    [class |-> [cpu |-> 1, size |-> size, tpm |-> FALSE], imported |-> {},
     image |-> {[vsphere |-> {[template |-> "tpl", ova |-> ""]}, libvirt |-> {},
                 proxmox |-> {}]},
     networks |-> <<NoNetwork>>, disks |-> <<>>, userData |-> Nothing, metaData |-> Nothing]

Base == [object |-> Object(5), client |-> "controller", disks |-> 1, tplSize |-> 3,
         wants |-> "On", tools |-> TRUE, ops |-> {}, nested |-> FALSE, maxFailures |-> 4]

MCSettings ==
    {[Base EXCEPT !.ops = {"outside"}, !.maxFailures = 3, !.object.userData = Both,
                  !.object.metaData = Both],
     [Base EXCEPT !.ops = {"offline"}, !.object.class.tpm = TRUE, !.object.image = {},
                  !.object.imported = {[id |-> "disk", format |-> "vmdk",
                                        path |-> {[dir |-> "datastore", file |-> "disk"]}]},
                  !.object.networks = <<Network, NoNetwork>>],
     [Base EXCEPT !.object.image = {},
                  !.object.imported = {[id |-> "disk", path |-> {}, format |-> "vmdk"]},
                  !.maxFailures = 1],
     [Base EXCEPT !.object.disks = <<NoBus, 1, 1>>, !.object.class.tpm = TRUE,
                  !.client = "other", !.maxFailures = 2],
     [Base EXCEPT !.object.disks = <<0, NoBus, 0>>, !.disks = 2, !.client = "other",
                  !.object.networks = <<Network>>, !.maxFailures = 2],
     [Base EXCEPT !.object.disks = <<1, 0>>, !.object.networks = <<Network>>,
                  !.object.userData.inline = TRUE, !.object.metaData.secret = "present",
                  !.maxFailures = 2],
     [Base EXCEPT !.object.userData = [inline |-> TRUE, secret |-> "missing"],
                  !.ops = {"delete"}],
     [Base EXCEPT !.object.metaData.secret = "noKey"],
     [Base EXCEPT !.object.userData = [inline |-> TRUE, secret |-> "empty"],
                  !.object.metaData.secret = "empty", !.maxFailures = 1],
     [Base EXCEPT !.object.image = {[vsphere |-> {[template |-> "", ova |-> "ova"]},
                                     libvirt |-> {}, proxmox |-> {}]}],
     [Base EXCEPT !.ops = {"delete", "offline", "outside"}, !.object = Object(0)],
     [Base EXCEPT !.wants = "Off", !.object = Object(2), !.object.metaData.inline = TRUE],
     [Base EXCEPT !.wants = "OffGraceful", !.object = Object(0), !.maxFailures = 3],
     [Base EXCEPT !.wants = "OffGraceful", !.tools = FALSE, !.object = Object(1),
                  !.maxFailures = 3],
     [Base EXCEPT !.ops = {"snapshot", "delete"}, !.object = Object(0), !.maxFailures = 1],
     [Base EXCEPT !.ops = {"clone"}, !.object = Object(0), !.maxFailures = 2],
     [Base EXCEPT !.ops = {"upgrade"}, !.wants = "Off", !.object = Object(0),
                  !.maxFailures = 2],
     [Base EXCEPT !.ops = {"reconfigure"}, !.nested = TRUE, !.maxFailures = 3],
     [Base EXCEPT !.ops = {"reconfigure"}, !.object = Object(0), !.maxFailures = 2]}
=============================================================================

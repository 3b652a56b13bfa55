---------------------------- MODULE MCVMAdoption ----------------------------
(* Two machines and five of the objects' names; "Web_1" and "web.1" become *)
(* "web-1", and nothing is left of "__".                                   *)
EXTENDS VMAdoption

MCSanitized ==
    [r \in {"Web_1", "__"} \cup Names |->
        IF r \in {"Web_1", "web.1"} THEN "web-1" ELSE IF r = "__" THEN None ELSE r]
MCFallback == [m \in Machines |-> "vm-m1"]

Base == [kind |-> "libvirt", named |-> [m \in Machines |-> IF m = "m1" THEN "web-1" ELSE "db"],
         cpu |-> [m \in Machines |-> IF m = "m1" THEN 1 ELSE 2],
         templates |-> {}, minCPU |-> 1, maxCPU |-> 2, user |-> {},
         managed |-> [n \in Names |-> None], deletes |-> FALSE, toggles |-> FALSE]
Colliding == [m \in Machines |-> IF m = "m1" THEN "Web_1" ELSE "web-1"]
Nameless == [m \in Machines |-> IF m = "m1" THEN "__" ELSE "db"]
Renamed == [n \in Names |-> IF n = "old" THEN "m1" ELSE None]
Taken == [n \in Names |-> IF n = "old" THEN "m2" ELSE None]

(* Each kind of provider, with and without what makes it hard: an object   *)
(* under another name, one a user makes, deletions, names that collide, a  *)
(* filter, templates, and the annotation removed and set again.            *)
MCSettings ==
    {[Base EXCEPT !.kind = "libvirt"],
     [Base EXCEPT !.kind = "vsphere"],
     [Base EXCEPT !.kind = "vsphere", !.user = {"web-1"}, !.maxCPU = 1],
     [Base EXCEPT !.kind = "libvirt", !.toggles = TRUE, !.minCPU = 2],
     [Base EXCEPT !.kind = "vsphere", !.managed = Renamed, !.maxCPU = 1],
     [Base EXCEPT !.kind = "libvirt", !.deletes = TRUE, !.managed = Renamed, !.maxCPU = 1],
     [Base EXCEPT !.kind = "vsphere", !.named = Colliding],
     [Base EXCEPT !.kind = "libvirt", !.named = Nameless, !.maxCPU = 0, !.minCPU = 0,
                  !.cpu = [m \in Machines |-> IF m = "m1" THEN 0 ELSE 3]],
     [Base EXCEPT !.kind = "vsphere", !.named = Nameless, !.maxCPU = 1],
     [Base EXCEPT !.kind = "vsphere", !.named = Colliding, !.managed = Taken],
     [Base EXCEPT !.kind = "vsphere", !.user = {"web.1"}, !.maxCPU = 1],
     [Base EXCEPT !.kind = "proxmox", !.user = {"web-1"}, !.templates = {"m2"}]}

(* Proxmox, whose Create does not look for a machine of the name.          *)
MCSecondSettings == {[Base EXCEPT !.kind = "proxmox"]}
=============================================================================

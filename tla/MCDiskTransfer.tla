--------------------------- MODULE MCDiskTransfer ---------------------------
(* Three attempts of each kind, and the pairs of providers and formats that *)
(* differ in what they copy, convert, compare and leave behind.             *)
EXTENDS DiskTransfer

Base == [from |-> "proxmox", to |-> "vsphere", native |-> "qcow2", format |-> "qcow2",
         backing |-> "sparse", extent |-> FALSE, ssh |-> FALSE, verify |-> TRUE,
         live |-> FALSE, maxFailures |-> 1]

MCSettings == {
    [Base EXCEPT !.maxFailures = 2],
    [Base EXCEPT !.live = TRUE],
    [Base EXCEPT !.to = "proxmox", !.format = "raw", !.live = TRUE],
    [Base EXCEPT !.to = "proxmox"],
    [Base EXCEPT !.from = "vsphere", !.native = "vmdk", !.to = "libvirt"],
    [Base EXCEPT !.from = "vsphere", !.native = "vmdk", !.to = "libvirt", !.ssh = TRUE, !.backing = "delta",
                 !.maxFailures = 2],
    [Base EXCEPT !.from = "vsphere", !.native = "vmdk", !.to = "vsphere", !.format = "vmdk", !.extent = TRUE],
    [Base EXCEPT !.from = "vsphere", !.native = "vmdk", !.to = "proxmox", !.extent = TRUE, !.verify = FALSE],
    [Base EXCEPT !.from = "vsphere", !.native = "vmdk", !.backing = "flat"],
    [Base EXCEPT !.from = "libvirt"],
    [Base EXCEPT !.from = "direct", !.to = "direct", !.live = TRUE, !.maxFailures = 2],
    [Base EXCEPT !.from = "direct", !.to = "direct", !.native = "raw"],
    [Base EXCEPT !.from = "direct", !.to = "libvirt"],
    [Base EXCEPT !.from = "proxmox", !.to = "libvirt", !.verify = FALSE],
    [Base EXCEPT !.to = "direct", !.format = "vmdk"]
}

MCAttempts == 1..3
=============================================================================

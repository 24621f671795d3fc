------------------------------- MODULE UsbOpen -------------------------------
(***************************************************************************)
(* usb.c, usb_parse_type() and usb_open_type(): the program looks for the  *)
(* first USB device of a type in sysfs and opens its device file.  Every   *)
(* attribute is a file of its own, read at a moment of its own, while      *)
(* devices are plugged in and out and nodes come and go below /dev; a      *)
(* directory of sysfs stands for a port, not for the device in it.         *)
(*                                                                         *)
(* Sysfs, the device nodes and the devices are external.  Devices are      *)
(* numbered as they appear, the number stands for devnum and for the       *)
(* device number of the node, and is not used again during one opening     *)
(* (the kernel hands out 127 of them in turn).                             *)
(***************************************************************************)
EXTENDS Integers, Sequences

CONSTANTS
    Ports,      \* the names listed in /sys/bus/usb/devices
    Models,     \* what can be plugged in
    Options,    \* the arguments of -T
    IdMod,      \* idVendor and idProduct are uint16_t: 65536
    Page,       \* the most that one read() of a sysfs file returns
    MaxPlugs,   \* bound: devices plugged in during one run
    Misplaced   \* may /dev hold nodes that lead to other devices at first?

Missing == -1   \* what the program makes of an attribute that is not there
None == 0       \* no device, no node
Bad == -1       \* text strtoul() does not take whole

Model == [vendor : 0..(IdMod - 1), product : 0..(IdMod - 1), len : Nat \ {0}]

(* A product that is not given is 0, as if it were given so. *)
Option == [vendor : Nat \cup {Bad}, product : Nat \cup {Bad}]

ASSUME ModelsAssumption == Models \subseteq Model
ASSUME OptionsAssumption == Options \subseteq Option
ASSUME SizesAssumption ==
    /\ IdMod \in Nat \ {0} /\ Page \in Nat \ {0}
    /\ MaxPlugs \in Nat /\ Misplaced \in BOOLEAN

VARIABLES
    devices,    \* every device plugged in so far, by number
    ports,      \* the device in each port
    nodes,      \* the device each node leads to, by the number in its name
    option,     \* the argument of -T
    pc,         \* the next step of usb_open_type(), or "opened", "failed",
                \* "notfound"
    type,       \* what is looked for
    visited,    \* directory entries readdir() has returned
    dir,        \* sysfs_dir
    devaddr,    \* dev->devaddr, the name of the node
    linuxdev,   \* the local of __uusb_attach_device()
    ids,        \* dev->type
    fd,         \* the device whose descriptors are read
    buf, count, \* sysfs_read_buffer(): what it has in memory, how much it read
    opened,     \* the device behind dev->fd
    steady      \* ports whose device has been there since opendir()

busVars == <<devices, ports, nodes, steady>>
devVars == <<devaddr, linuxdev, ids, fd, buf, count, opened>>
vars == <<busVars, option, pc, type, visited, dir, devVars>>

Numbers == 1..MaxPlugs

Present == {ports[p] : p \in Ports} \ {None}

Steps == {"start", "opendir", "scan", "matchVendor", "matchProduct", "busnum", "devnum",
          "dev", "stat", "idVendor", "idProduct", "descriptors", "read", "open"}

Results == {"opened", "failed", "notfound"}

Init ==
    /\ devices = <<>> /\ ports = [p \in Ports |-> None]
    /\ nodes \in IF Misplaced THEN [Numbers -> {None} \cup Numbers] ELSE [Numbers -> {None}]
    /\ option \in Options
    /\ pc = "start" /\ type = [vendor |-> 0, product |-> 0]
    /\ visited = {} /\ dir \in Ports
    /\ devaddr = [bus |-> Missing, dev |-> Missing] /\ linuxdev = None
    /\ ids = [vendor |-> Missing, product |-> Missing]
    /\ fd = None /\ buf = <<>> /\ count = 0 /\ opened = None
    /\ steady = {}

-------------------------------------------------------------------------------
(* usb_parse_type() *)

ParseId_NotTruncated(n) == n

ParseId(n) == n % IdMod

UsbParseType ==
    /\ pc = "start"
    /\ \/ Bad \in {option.vendor, option.product} /\ pc' = "failed" /\ UNCHANGED type
       \/ /\ Bad \notin {option.vendor, option.product} /\ pc' = "opendir"
          /\ type' = [vendor |-> ParseId(option.vendor), product |-> ParseId(option.product)]
    /\ UNCHANGED <<busVars, option, visited, dir, devVars>>

-------------------------------------------------------------------------------
(* usb_find_device(), usb_match_type() *)

(* An attribute in the directory at hand: of an interface, of which there  *)
(* are entries too, and of a device that has gone, it is missing.          *)
Attribute(name) == IF ports[dir] = None THEN Missing ELSE devices[ports[dir]][name]

DeviceNumber == IF ports[dir] = None THEN Missing ELSE ports[dir]

OpenDir ==
    /\ pc = "opendir"
    /\ \/ pc' = "scan" /\ steady' = {p \in Ports : ports[p] # None}
       \/ pc' = "failed" /\ UNCHANGED steady
    /\ UNCHANGED <<devices, ports, nodes, option, type, visited, dir, devVars>>

(* readdir() may return the name of a device that has gone or came late. *)
ReadEntry(p) ==
    /\ pc = "scan" /\ p \notin visited
    /\ visited' = visited \cup {p}
    /\ dir' = p
    /\ pc' = "matchVendor"
    /\ UNCHANGED <<busVars, option, type, devVars>>

NoMoreEntries ==
    /\ pc = "scan" /\ steady \subseteq visited
    /\ pc' = "notfound"
    /\ UNCHANGED <<busVars, option, type, visited, dir, devVars>>

Fits_NoWildcard(wanted, id) == wanted = id

Fits_Inverted(wanted, id) == wanted = 0 \/ wanted # id

Fits(wanted, id) == wanted = 0 \/ wanted = id

Goto(step) ==
    /\ pc' = step
    /\ UNCHANGED <<busVars, option, type, visited, dir>>

MatchVendor ==
    /\ pc = "matchVendor"
    /\ Goto(IF Fits(type.vendor, Attribute("vendor")) THEN "matchProduct" ELSE "scan")
    /\ UNCHANGED devVars

MatchProduct ==
    /\ pc = "matchProduct"
    /\ Goto(IF Fits(type.product, Attribute("product")) THEN "busnum" ELSE "scan")
    /\ UNCHANGED devVars

-------------------------------------------------------------------------------
(* __usb_open(): the one entry that matched is attached, identified, its   *)
(* descriptors are read, and its node is opened.  Whatever fails on the    *)
(* way ends the search.                                                    *)

(* There is one bus, number 1. *)
ReadBusnum ==
    /\ pc = "busnum"
    /\ devaddr' = [devaddr EXCEPT !.bus = IF ports[dir] = None THEN Missing ELSE 1]
    /\ Goto("devnum")
    /\ UNCHANGED <<linuxdev, ids, fd, buf, count, opened>>

ReadDevnum ==
    /\ pc = "devnum"
    /\ devaddr' = [devaddr EXCEPT !.dev = DeviceNumber]
    /\ Goto("dev")
    /\ UNCHANGED <<linuxdev, ids, fd, buf, count, opened>>

SysfsGetDevT ==
    /\ pc = "dev"
    /\ linuxdev' = IF ports[dir] = None THEN linuxdev ELSE ports[dir]
    /\ Goto(IF ports[dir] = None THEN "failed" ELSE "stat")
    /\ UNCHANGED <<devaddr, ids, fd, buf, count, opened>>

(* The node at dev_path, if the two numbers name one. *)
NodeAtPath == IF Missing \in {devaddr.bus, devaddr.dev} THEN None ELSE nodes[devaddr.dev]

SameDevice_NotCompared(rdev) == TRUE

SameDevice(rdev) == rdev = linuxdev

StatPath ==
    /\ pc = "stat"
    /\ Goto(IF NodeAtPath # None /\ SameDevice(NodeAtPath) THEN "idVendor" ELSE "failed")
    /\ UNCHANGED devVars

IdentifyVendor ==
    /\ pc = "idVendor"
    /\ ids' = [ids EXCEPT !.vendor = Attribute("vendor")]
    /\ Goto("idProduct")
    /\ UNCHANGED <<devaddr, linuxdev, fd, buf, count, opened>>

IdentifyProduct ==
    /\ pc = "idProduct"
    /\ ids' = [ids EXCEPT !.product = Attribute("product")]
    /\ Goto("descriptors")
    /\ UNCHANGED <<devaddr, linuxdev, fd, buf, count, opened>>

(* sysfs_read_buffer() *)
OpenDescriptors ==
    /\ pc = "descriptors"
    /\ fd' = ports[dir]
    /\ Goto(IF ports[dir] = None THEN "failed" ELSE "read")
    /\ UNCHANGED <<devaddr, linuxdev, ids, buf, count, opened>>

(* Byte k of the descriptors of device d *)
Byte(d, k) == [dev |-> d, at |-> k]

(* The next read() of the file: it goes on where the last one stopped. *)
Chunk ==
    LET left == devices[fd].len - count
    IN  [k \in 1..(IF left < Page THEN left ELSE Page) |-> Byte(fd, count + k)]

Into_Appended(chunk, mem) == mem \o chunk

(* ... and is stored from the start of the memory every time. *)
Into(chunk, mem) == chunk \o SubSeq(mem, Len(chunk) + 1, Len(mem))

AtEof_Ignored == FALSE

AtEof == Chunk = <<>>

(* The file of a device that has gone cannot be read, although it is open. *)
ReadDescriptors ==
    /\ pc = "read"
    /\ \/ /\ fd \in Present /\ ~AtEof
          /\ buf' = Into(Chunk, buf)
          /\ count' = count + Len(Chunk)
          /\ Goto("read")
       \/ fd \notin Present /\ Goto("failed") /\ UNCHANGED <<buf, count>>
    /\ UNCHANGED <<devaddr, linuxdev, ids, fd, opened>>

(* At the end of the file the `count' bytes at hand are parsed, which      *)
(* UsbDescriptors is about.                                                *)
ParseDescriptors ==
    /\ pc = "read" /\ fd \in Present /\ AtEof
    /\ \E result \in {"open", "failed"} : Goto(result)
    /\ UNCHANGED devVars

(* open() fails if the node or its device is not there; and for other      *)
(* reasons.                                                                *)
OpenNode ==
    /\ pc = "open"
    /\ \/ NodeAtPath \in Present /\ opened' = NodeAtPath /\ Goto("opened")
       \/ Goto("failed") /\ UNCHANGED opened
    /\ UNCHANGED <<devaddr, linuxdev, ids, fd, buf, count>>

-------------------------------------------------------------------------------
(* The bus and /dev (external) *)

HostUnchanged == UNCHANGED <<option, pc, type, visited, dir, devVars>>

Plug(p) ==
    /\ ports[p] = None /\ Len(devices) < MaxPlugs
    /\ \E m \in Models : devices' = Append(devices, m)
    /\ ports' = [ports EXCEPT ![p] = Len(devices) + 1]
    /\ UNCHANGED <<nodes, steady>> /\ HostUnchanged

Unplug(p) ==
    /\ ports[p] # None
    /\ ports' = [ports EXCEPT ![p] = None]
    /\ steady' = steady \ {p}
    /\ UNCHANGED <<devices, nodes>> /\ HostUnchanged

MakeNode(d) ==
    /\ d \in Present /\ nodes[d] # d
    /\ nodes' = [nodes EXCEPT ![d] = d]
    /\ UNCHANGED <<devices, ports, steady>> /\ HostUnchanged

RemoveNode(d) ==
    /\ nodes[d] # None
    /\ nodes' = [nodes EXCEPT ![d] = None]
    /\ UNCHANGED <<devices, ports, steady>> /\ HostUnchanged

-------------------------------------------------------------------------------
Host ==
    \/ UsbParseType \/ OpenDir
    \/ \E p \in Ports : ReadEntry(p)
    \/ NoMoreEntries \/ MatchVendor \/ MatchProduct
    \/ ReadBusnum \/ ReadDevnum \/ SysfsGetDevT \/ StatPath
    \/ IdentifyVendor \/ IdentifyProduct
    \/ OpenDescriptors \/ ReadDescriptors \/ ParseDescriptors \/ OpenNode

(* What happens once the search is over is left out. *)
Environment ==
    /\ pc \notin Results
    /\ \/ \E p \in Ports : Plug(p) \/ Unplug(p)
       \/ \E d \in Numbers : MakeNode(d) \/ RemoveNode(d)

Finished == pc \in Results /\ UNCHANGED vars

Next == Host \/ Environment \/ Finished

Spec == Init /\ [][Next]_vars

(* None of these calls waits for anything. *)
FairSpec == Spec /\ WF_vars(Host)

-------------------------------------------------------------------------------
(* Properties *)

TypeOK ==
    /\ devices \in Seq(Model) /\ Len(devices) <= MaxPlugs
    /\ ports \in [Ports -> 0..Len(devices)]
    /\ nodes \in [Numbers -> {None} \cup Numbers]
    /\ option \in Option
    /\ pc \in Steps \cup Results
    /\ type \in [vendor : 0..(IdMod - 1), product : 0..(IdMod - 1)]
    /\ visited \subseteq Ports /\ dir \in Ports /\ steady \subseteq Ports
    /\ devaddr \in [bus : {Missing, 1}, dev : {Missing} \cup Numbers]
    /\ linuxdev \in {None} \cup Numbers
    /\ ids \in [vendor : Missing..(IdMod - 1), product : Missing..(IdMod - 1)]
    /\ fd \in 0..Len(devices)
    /\ buf \in Seq([dev : Numbers, at : Nat]) /\ count \in Nat
    /\ opened \in {None} \cup Numbers

(* The uusb_dev_t is about one device: the one opened has the ids that     *)
(* were identified, and the descriptors that were parsed are its own and   *)
(* (if they fit in one read) all of them in their order, although each was *)
(* read on its own while another device may have taken the port, and the   *)
(* name of the node may have been put together from both.                  *)
OpenedIsOneDevice ==
    pc = "opened" =>
      /\ ids = [vendor |-> devices[opened].vendor, product |-> devices[opened].product]
      /\ \A k \in 1..Len(buf) : buf[k].dev = opened
      /\ count = devices[opened].len
      /\ count <= Page => buf = [k \in 1..count |-> Byte(opened, k)]

(* Device d is what -T asks for, in the numbers the user gave; 0, or none, *)
(* stands for any.                                                         *)
Wanted(d) == /\ option.vendor \in {0, devices[d].vendor}
             /\ option.product \in {0, devices[d].product}

(* Whatever usb_open_type() returns, usb_find_device() has walked past no  *)
(* device that was there all the time and wanted: it is the one at which   *)
(* the search ended, or listed behind it; and there is none if the         *)
(* directory was read to its end.  "Did not find USB device" (main.c 131)  *)
(* is printed for every NULL and means no more than that: when the device  *)
(* that matched fails to open, those behind it are not tried.              *)
NonePassedOver ==
    pc \in Results =>
      \A p \in steady : Wanted(ports[p]) => pc # "notfound" /\ (p = dir \/ p \notin visited)

(* A device that was there when the search began is opened only if it is   *)
(* of the type asked for, unless an id does not fit in its 16 bits: what   *)
(* is left of it may be another id, or 0, which is any.  A device that     *)
(* took the place of the one that matched is opened whatever it is: the    *)
(* ids are read a second time but not compared again.                      *)
SteadyIsWanted ==
    /\ pc = "opened" /\ dir \in steady
    /\ {option.vendor, option.product} \subseteq 0..(IdMod - 1)
    => Wanted(opened)

(* The opening ends, however devices come and go. *)
OpeningEnds == <>(pc \in Results)

===============================================================================

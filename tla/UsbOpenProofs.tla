---------------------------- MODULE UsbOpenProofs -----------------------------
(***************************************************************************)
(* Proofs about UsbOpen: for any number of ports, devices and nodes, and   *)
(* whatever is plugged in and out between the reads, what usb_open_type()  *)
(* opens is one device, and a device that stays where it is is neither     *)
(* overlooked nor mistaken.                                                *)
(***************************************************************************)
EXTENDS UsbOpen, SequenceTheorems, TLAPS

(* The steps after __uusb_attach_device() has read the device number, in   *)
(* their order                                                             *)
Attached == {"stat", "idVendor", "idProduct", "descriptors", "read", "open"}

(* The steps after the entry at hand has matched *)
Matched == {"busnum", "devnum", "dev"} \cup Attached

(* No device is in two ports, and one that is `steady' is still there.     *)
Bus ==
    /\ \A p, q \in Ports : ports[p] = ports[q] /\ ports[p] # None => p = q
    /\ \A p \in steady : ports[p] # None

(* The number in devaddr is that of the device in the port, unless it has  *)
(* gone for good.                                                          *)
Named ==
    /\ devaddr.dev <= Len(devices)
    /\ pc = "dev" /\ devaddr.dev \in Present => devaddr.dev = ports[dir]
    /\ pc \in Attached /\ devaddr.dev \in Present => devaddr.dev = linuxdev

(* So is linuxdev, and once compared the node leads to it or nowhere: only *)
(* a device that is there gets its node made anew.                         *)
Compared ==
    /\ pc \in Attached =>
         /\ linuxdev \in 1..Len(devices)
         /\ linuxdev \in Present => linuxdev = ports[dir]
    /\ pc \in Attached \ {"stat"} =>
         devaddr.dev \in Numbers /\ nodes[devaddr.dev] \in {None, linuxdev}

(* As long as linuxdev has not gone, its ids and descriptors are read.     *)
Identified ==
    linuxdev \in Present =>
      /\ pc \in {"idProduct", "descriptors", "read", "open"} =>
           ids.vendor = devices[linuxdev].vendor
      /\ pc \in {"descriptors", "read", "open"} => ids.product = devices[linuxdev].product
      /\ pc \in {"read", "open"} => fd = linuxdev

(* The first read() gets all of the file or fills a page.                  *)
InMemory ==
    /\ pc \in Steps \ {"read", "open"} => buf = <<>> /\ count = 0
    /\ pc \in {"read", "open"} =>
         /\ fd \in 1..Len(devices)
         /\ buf \in Seq([dev : {fd}, at : Nat])
         /\ count <= devices[fd].len
         /\ count <= Page => buf = [k \in 1..count |-> Byte(fd, k)]
         /\ count = 0 \/ count >= Page \/ count = devices[fd].len
    /\ pc = "open" => count = devices[fd].len

(* Device d is what the program looks for. *)
Matches(d) == /\ type.vendor \in {0, devices[d].vendor}
              /\ type.product \in {0, devices[d].product}

(* Entries seen so far whose device has stayed do not match; the one at    *)
(* hand does as far as it was compared.                                    *)
Searched ==
    /\ pc \in {"start", "opendir"} => visited = {}
    /\ pc \in {"scan", "matchVendor", "matchProduct"} \cup Matched =>
         \A p \in steady \cap visited :
             ~Matches(ports[p]) \/ (p = dir /\ pc # "scan")
    /\ pc \in {"matchProduct"} \cup Matched /\ dir \in steady =>
         type.vendor \in {0, devices[ports[dir]].vendor}
    /\ pc \in Matched /\ dir \in steady =>
         type.product \in {0, devices[ports[dir]].product}
    /\ pc \in Attached /\ dir \in steady => linuxdev = ports[dir]

(* NonePassedOver and SteadyIsWanted of what is looked for *)
Passed ==
    pc \in Results =>
      \A p \in steady : Matches(ports[p]) => pc # "notfound" /\ (p = dir \/ p \notin visited)

SteadyMatches ==
    pc = "opened" => opened \in 1..Len(devices) /\ (dir \in steady => Matches(opened))

(* What is looked for is what the option leaves in 16 bits.                *)
Cut ==
    \/ pc \in {"start", "failed"} /\ visited = {}
    \/ type = [vendor |-> ParseId(option.vendor), product |-> ParseId(option.product)]

Result == OpenedIsOneDevice /\ Passed /\ SteadyMatches

OpenInv ==
    /\ TypeOK
    /\ Bus /\ Named /\ Compared /\ Identified /\ InMemory /\ Searched
    /\ Result

-------------------------------------------------------------------------------
(* Devices that are there are among those plugged in so far.               *)
LEMMA PresentIsKnown ==
    ASSUME TypeOK
    PROVE  /\ Len(devices) \in Nat /\ Present \subseteq 1..Len(devices)
           /\ 1..Len(devices) \subseteq Numbers
           /\ None \notin Present /\ Missing \notin Present
           /\ \A d \in 1..Len(devices) : devices[d] \in Model
           /\ \A p \in Ports : ports[p] # None => ports[p] \in Present
<1>1. /\ devices \in Seq(Model) /\ Len(devices) <= MaxPlugs
      /\ ports \in [Ports -> 0..Len(devices)]
  BY DEF TypeOK
<1>2. Len(devices) \in Nat /\ \A d \in 1..Len(devices) : devices[d] \in Model
  BY <1>1
<1>3. 1..Len(devices) \subseteq Numbers  BY <1>1, <1>2, SizesAssumption DEF Numbers
<1>4. \A p \in Ports : ports[p] # None => ports[p] \in Present  BY DEF Present
<1>5. Present \subseteq 1..Len(devices)
  <2>1. ASSUME NEW p \in Ports, ports[p] # None  PROVE ports[p] \in 1..Len(devices)
    BY <1>1, <1>2, <2>1 DEF None
  <2> QED  BY <2>1 DEF Present
<1>6. None \notin Present /\ Missing \notin Present
  BY <1>2, <1>5 DEF None, Missing
<1> QED  BY <1>2, <1>3, <1>4, <1>5, <1>6

LEMMA InvInit == Init => OpenInv
<1> SUFFICES ASSUME Init PROVE OpenInv  OBVIOUS
<1>1. devices \in Seq(Model) /\ Len(devices) = 0  BY DEF Init
<1>2. TypeOK
  BY <1>1, OptionsAssumption, SizesAssumption
  DEF Init, TypeOK, Steps, Missing, None, Numbers
<1>3. Present = {}  BY DEF Init, Present
<1>4. Bus /\ Named /\ Compared /\ Identified /\ InMemory
  BY <1>1, <1>3 DEF Init, Bus, Named, Compared, Identified, InMemory, Attached, Steps, Missing
<1>5. Searched /\ Result
  BY DEF Init, Searched, Result, OpenedIsOneDevice, Passed, SteadyMatches,
         Attached, Matched
<1> QED  BY <1>2, <1>4, <1>5 DEF OpenInv

-------------------------------------------------------------------------------
(* The bus *)

(* A device that is plugged in is a new one.                               *)
LEMMA PlugKeeps ==
    ASSUME OpenInv, pc \notin Results, NEW p \in Ports, Plug(p)
    PROVE  OpenInv'
<1> DEFINE n == Len(devices) + 1
<1> USE DEF OpenInv
<1>1. /\ Len(devices) \in Nat /\ Present \subseteq 1..Len(devices) /\ n \in Numbers
      /\ ports \in [Ports -> 0..Len(devices)]
  BY PresentIsKnown, SizesAssumption DEF Plug, Numbers, TypeOK
<1>2. /\ devices' \in Seq(Model) /\ Len(devices') = n
      /\ \A d \in 1..Len(devices) : devices'[d] = devices[d]
  BY ModelsAssumption DEF Plug, TypeOK
<1>3. \A q \in Ports : ports'[q] = IF q = p THEN n ELSE ports[q]
  BY <1>1 DEF Plug
<1>4. \A d \in 1..Len(devices) : d \in Present' <=> d \in Present
  BY <1>1, <1>3 DEF Present, Plug, None
<1>5. TypeOK'
  BY <1>1, <1>2, <1>3 DEF TypeOK, Plug, HostUnchanged, devVars, Numbers
<1>6. Bus'  BY <1>1, <1>3 DEF Bus, Plug, TypeOK, None
<1>7. Named' /\ Compared'
  <2>1. None \notin Present /\ Missing \notin Present'
    BY <1>1, <1>3, PresentIsKnown DEF Present, None, Missing, Plug
  <2>2. devaddr.dev \in {Missing} \cup Numbers /\ dir \in Ports  BY DEF TypeOK
  <2>3. Named'
    BY <1>1, <1>2, <1>3, <1>4, <2>1, <2>2
    DEF Named, Plug, HostUnchanged, devVars, Numbers, Missing, None
  <2>4. Compared'
    BY <1>1, <1>2, <1>3, <1>4, <2>1, <2>2
    DEF Compared, Plug, HostUnchanged, devVars, Attached, None
  <2> QED  BY <2>3, <2>4
<1>8. Identified' /\ InMemory'
  BY <1>1, <1>2, <1>4
  DEF Identified, InMemory, Compared, Plug, HostUnchanged, devVars, Attached, Byte
<1>9. Searched'
  BY <1>1, <1>2, <1>3
  DEF Searched, Bus, Matches, Plug, HostUnchanged, devVars, TypeOK, Attached, Matched, None
<1>10. Result'
  BY DEF Result, OpenedIsOneDevice, Passed, SteadyMatches, Plug, HostUnchanged, Results
<1> QED  BY <1>5, <1>6, <1>7, <1>8, <1>9, <1>10

(* A device that is unplugged is gone from the only port it was in.        *)
LEMMA UnplugKeeps ==
    ASSUME OpenInv, pc \notin Results, NEW p \in Ports, Unplug(p)
    PROVE  OpenInv'
<1> USE DEF OpenInv
<1>1. /\ Len(devices) \in Nat /\ Present \subseteq 1..Len(devices)
      /\ ports \in [Ports -> 0..Len(devices)] /\ dir \in Ports
  BY PresentIsKnown DEF TypeOK
<1>2. devices' = devices /\ nodes' = nodes /\ steady' = steady \ {p}
  BY DEF Unplug
<1>3. \A q \in Ports : ports'[q] = IF q = p THEN None ELSE ports[q]
  BY <1>1 DEF Unplug
<1>4. \A d : d \in Present' <=> d \in Present /\ d # ports[p]
  BY <1>1, <1>3 DEF Present, Unplug, None, Bus
<1>5. TypeOK'
  BY <1>1, <1>2, <1>3 DEF TypeOK, Unplug, HostUnchanged, devVars, None
<1>6. Bus'  BY <1>1, <1>2, <1>3 DEF Bus, Unplug, TypeOK, None
<1>7. Named' /\ Compared'
  BY <1>1, <1>2, <1>3, <1>4
  DEF Named, Compared, Unplug, HostUnchanged, devVars, Attached, None
<1>8. Identified' /\ InMemory'
  BY <1>1, <1>2, <1>4
  DEF Identified, InMemory, Unplug, HostUnchanged, devVars, Byte
<1>9. Searched'
  BY <1>1, <1>2, <1>3
  DEF Searched, Matches, Unplug, HostUnchanged, devVars, TypeOK, Attached, Matched
<1>10. Result'
  BY DEF Result, OpenedIsOneDevice, Passed, SteadyMatches, Unplug, HostUnchanged, Results
<1> QED  BY <1>5, <1>6, <1>7, <1>8, <1>9, <1>10

(* A node is made for a device that is there; and it may go.               *)
LEMMA NodesKeep ==
    ASSUME OpenInv, pc \notin Results, NEW d \in Numbers, MakeNode(d) \/ RemoveNode(d)
    PROVE  OpenInv'
<1> USE DEF OpenInv
<1>1. /\ UNCHANGED <<devices, ports, steady>> /\ HostUnchanged
      /\ nodes \in [Numbers -> {None} \cup Numbers]
      /\ \/ d \in Present /\ nodes' = [nodes EXCEPT ![d] = d]
         \/ nodes' = [nodes EXCEPT ![d] = None]
  BY DEF MakeNode, RemoveNode, TypeOK
<1>2. Present' = Present  BY <1>1 DEF Present
<1>3. TypeOK'  BY <1>1 DEF TypeOK, HostUnchanged, devVars
<1>4. Bus' /\ Named' /\ Identified' /\ InMemory' /\ Searched'
  BY <1>1, <1>2
  DEF Bus, Named, Identified, InMemory, Searched, Matches, HostUnchanged, devVars, Byte
<1>5. Compared'
  BY <1>1, <1>2 DEF Compared, Named, HostUnchanged, devVars, Attached, None
<1>6. Result'
  BY <1>1 DEF Result, OpenedIsOneDevice, Passed, SteadyMatches, HostUnchanged, Results
<1> QED  BY <1>3, <1>4, <1>5, <1>6

-------------------------------------------------------------------------------
(* The search *)

(* As long as no entry has matched nothing is known of a device.           *)
LEMMA NothingKnown ==
    ASSUME OpenInv, UNCHANGED <<devices, ports, nodes, devVars>>,
           pc \in {"start", "opendir", "scan", "matchVendor", "matchProduct"},
           pc' \in Steps \cup Results, pc' \notin {"dev", "opened"} \cup Attached
    PROVE  Named' /\ Compared' /\ Identified' /\ InMemory' /\ OpenedIsOneDevice' /\ SteadyMatches'
<1>1. pc' \notin {"read", "open"} /\ pc \notin {"read", "open"}  BY DEF Attached
<1> QED
  BY <1>1
  DEF OpenInv, Named, Compared, Identified, InMemory, OpenedIsOneDevice, SteadyMatches,
      devVars, Attached, Steps, Results

LEMMA UsbParseTypeKeeps == OpenInv /\ UsbParseType => OpenInv'
<1> SUFFICES ASSUME OpenInv, UsbParseType PROVE OpenInv'  OBVIOUS
<1> USE DEF OpenInv
<1>1. pc = "start" /\ pc' \in {"failed", "opendir"}  BY DEF UsbParseType
<1>2. TypeOK'
  <2>1. ASSUME NEW n \in Nat  PROVE ParseId(n) \in 0..(IdMod - 1)
    BY SizesAssumption DEF ParseId
  <2>2. option \in Option  BY DEF TypeOK
  <2>3. type' \in [vendor : 0..(IdMod - 1), product : 0..(IdMod - 1)]
    <3>1. CASE UNCHANGED type  BY <3>1 DEF TypeOK
    <3>2. CASE /\ Bad \notin {option.vendor, option.product}
               /\ type' = [vendor |-> ParseId(option.vendor), product |-> ParseId(option.product)]
      <4>1. option.vendor \in Nat /\ option.product \in Nat  BY <2>2, <3>2 DEF Option
      <4>2. /\ ParseId(option.vendor) \in 0..(IdMod - 1)
            /\ ParseId(option.product) \in 0..(IdMod - 1)
        BY <2>1, <4>1
      <4> QED  BY <3>2, <4>2
    <3> QED  BY <3>1, <3>2 DEF UsbParseType
  <2> QED  BY <1>1, <2>3 DEF TypeOK, UsbParseType, busVars, devVars, Steps, Results
<1>3. Bus'  BY DEF Bus, UsbParseType, busVars
<1>4. Named' /\ Compared' /\ Identified' /\ InMemory' /\ OpenedIsOneDevice' /\ SteadyMatches'
  BY <1>1, NothingKnown DEF UsbParseType, busVars, Attached, Steps, Results
<1>5. Searched' /\ Passed'
  BY <1>1 DEF Searched, Passed, UsbParseType, Attached, Matched
<1> QED  BY <1>2, <1>3, <1>4, <1>5 DEF Result

LEMMA OpenDirKeeps == OpenInv /\ OpenDir => OpenInv'
<1> SUFFICES ASSUME OpenInv, OpenDir PROVE OpenInv'  OBVIOUS
<1> USE DEF OpenInv
<1>1. pc = "opendir" /\ pc' \in {"failed", "scan"}  BY DEF OpenDir
<1>2. TypeOK'  BY <1>1 DEF TypeOK, OpenDir, devVars, Steps, Results
<1>3. Bus'  BY DEF Bus, OpenDir
<1>4. Named' /\ Compared' /\ Identified' /\ InMemory' /\ OpenedIsOneDevice' /\ SteadyMatches'
  BY <1>1, NothingKnown DEF OpenDir, Attached, Steps, Results
<1>5. Searched' /\ Passed'
  BY <1>1 DEF Searched, Passed, OpenDir, Attached, Matched
<1> QED  BY <1>2, <1>3, <1>4, <1>5 DEF Result

LEMMA ReadEntryKeeps ==
    ASSUME OpenInv, NEW p \in Ports, ReadEntry(p)
    PROVE  OpenInv'
<1> USE DEF OpenInv
<1>1. pc = "scan" /\ pc' = "matchVendor"  BY DEF ReadEntry
<1>2. TypeOK'  BY <1>1 DEF TypeOK, ReadEntry, busVars, devVars, Steps
<1>3. Bus'  BY DEF Bus, ReadEntry, busVars
<1>4. Named' /\ Compared' /\ Identified' /\ InMemory' /\ OpenedIsOneDevice' /\ SteadyMatches'
  BY <1>1, NothingKnown DEF ReadEntry, busVars, Attached, Steps, Results
<1>5. Searched' /\ Passed'
  BY <1>1 DEF Searched, Passed, ReadEntry, busVars, Matches, Attached, Matched
<1> QED  BY <1>2, <1>3, <1>4, <1>5 DEF Result

(* The directory ends when all that has stayed was seen, and turned down.  *)
LEMMA NoMoreEntriesKeeps == OpenInv /\ NoMoreEntries => OpenInv'
<1> SUFFICES ASSUME OpenInv, NoMoreEntries PROVE OpenInv'  OBVIOUS
<1> USE DEF OpenInv
<1>1. pc = "scan" /\ pc' = "notfound"  BY DEF NoMoreEntries
<1>2. TypeOK'  BY <1>1 DEF TypeOK, NoMoreEntries, busVars, devVars, Results
<1>3. Bus'  BY DEF Bus, NoMoreEntries, busVars
<1>4. Named' /\ Compared' /\ Identified' /\ InMemory' /\ OpenedIsOneDevice' /\ SteadyMatches'
  BY <1>1, NothingKnown DEF NoMoreEntries, busVars, Attached, Steps, Results
<1>5. Searched'  BY <1>1 DEF Searched, Attached, Matched
<1>6. Passed'
  BY <1>1 DEF Passed, Searched, NoMoreEntries, busVars, Matches
<1> QED  BY <1>2, <1>3, <1>4, <1>5, <1>6 DEF Result

(* What a comparison says of the device at hand, if it has stayed          *)
LEMMA Compares ==
    ASSUME OpenInv, dir \in steady
    PROVE  /\ Fits(type.vendor, Attribute("vendor"))
                 <=> type.vendor \in {0, devices[ports[dir]].vendor}
           /\ Fits(type.product, Attribute("product"))
                 <=> type.product \in {0, devices[ports[dir]].product}
BY DEF OpenInv, Bus, Fits, Attribute

LEMMA MatchVendorKeeps == OpenInv /\ MatchVendor => OpenInv'
<1> SUFFICES ASSUME OpenInv, MatchVendor PROVE OpenInv'  OBVIOUS
<1> USE DEF OpenInv
<1>1. pc = "matchVendor" /\ pc' \in {"scan", "matchProduct"}  BY DEF MatchVendor, Goto
<1>2. TypeOK'  BY <1>1 DEF TypeOK, MatchVendor, Goto, busVars, devVars, Steps
<1>3. Bus'  BY DEF Bus, MatchVendor, Goto, busVars
<1>4. Named' /\ Compared' /\ Identified' /\ InMemory' /\ OpenedIsOneDevice' /\ SteadyMatches'
  BY <1>1, NothingKnown DEF MatchVendor, Goto, busVars, Attached, Steps, Results
<1>5. Searched' /\ Passed'
  BY <1>1, Compares
  DEF Searched, Passed, MatchVendor, Goto, busVars, Matches, Attached, Matched
<1> QED  BY <1>2, <1>3, <1>4, <1>5 DEF Result

LEMMA MatchProductKeeps == OpenInv /\ MatchProduct => OpenInv'
<1> SUFFICES ASSUME OpenInv, MatchProduct PROVE OpenInv'  OBVIOUS
<1> USE DEF OpenInv
<1>1. pc = "matchProduct" /\ pc' \in {"scan", "busnum"}  BY DEF MatchProduct, Goto
<1>2. TypeOK'  BY <1>1 DEF TypeOK, MatchProduct, Goto, busVars, devVars, Steps
<1>3. Bus'  BY DEF Bus, MatchProduct, Goto, busVars
<1>4. Named' /\ Compared' /\ Identified' /\ InMemory' /\ OpenedIsOneDevice' /\ SteadyMatches'
  BY <1>1, NothingKnown DEF MatchProduct, Goto, busVars, Attached, Steps, Results
<1>5. Searched' /\ Passed'
  BY <1>1, Compares
  DEF Searched, Passed, MatchProduct, Goto, busVars, Matches, Attached, Matched
<1> QED  BY <1>2, <1>3, <1>4, <1>5 DEF Result

-------------------------------------------------------------------------------
(* The attachment *)

(* Steps between a match and the opening leave the bus and the search as   *)
(* they are.                                                               *)
LEMMA StillMatched ==
    ASSUME OpenInv, pc \in Matched, NEW s, s \in Matched \cup {"failed"}, Goto(s)
    PROVE  /\ Bus'
           /\ (s \in {"failed", "busnum", "devnum", "dev"}
                 \/ (linuxdev' = linuxdev /\ pc \in Attached)) => Searched'
           /\ Result'
<1>1. pc' = s /\ UNCHANGED <<devices, ports, nodes, steady, type, visited, dir>>
  BY DEF Goto, busVars
<1>2. Bus'  BY <1>1 DEF OpenInv, Bus
<1>3. ASSUME s \in {"failed", "busnum", "devnum", "dev"} \/ (linuxdev' = linuxdev /\ pc \in Attached)
      PROVE  Searched'
  BY <1>1, <1>3 DEF OpenInv, Searched, Matches, Attached, Matched
<1>4. Result'
  BY <1>1
  DEF OpenInv, Result, OpenedIsOneDevice, Passed, SteadyMatches, Searched, Matches, Matched, Attached,
      Results
<1> QED  BY <1>1, <1>2, <1>3, <1>4

LEMMA ReadBusnumKeeps == OpenInv /\ ReadBusnum => OpenInv'
<1> SUFFICES ASSUME OpenInv, ReadBusnum PROVE OpenInv'  OBVIOUS
<1> USE DEF OpenInv
<1>1. pc = "busnum" /\ pc' = "devnum" /\ Goto("devnum")  BY DEF ReadBusnum, Goto
<1>2. /\ UNCHANGED <<devices, ports, nodes, linuxdev, ids, fd, buf, count, opened>>
      /\ devaddr' \in [bus : {Missing, 1}, dev : {Missing} \cup Numbers]
      /\ devaddr'.dev = devaddr.dev
  BY DEF ReadBusnum, Goto, busVars, TypeOK
<1>3. TypeOK'  BY <1>1, <1>2 DEF TypeOK, Goto, busVars, Steps
<1>4. Bus' /\ Searched' /\ Result'  BY <1>1, StillMatched DEF Matched
<1>5. Named' /\ Compared' /\ Identified' /\ InMemory'
  BY <1>1, <1>2 DEF Named, Compared, Identified, InMemory, Attached, Steps
<1> QED  BY <1>3, <1>4, <1>5

LEMMA ReadDevnumKeeps == OpenInv /\ ReadDevnum => OpenInv'
<1> SUFFICES ASSUME OpenInv, ReadDevnum PROVE OpenInv'  OBVIOUS
<1> USE DEF OpenInv
<1>1. pc = "devnum" /\ pc' = "dev" /\ Goto("dev")  BY DEF ReadDevnum, Goto
<1>2. /\ ports[dir] \in 0..Len(devices) /\ Len(devices) \in Nat /\ Len(devices) <= MaxPlugs
      /\ MaxPlugs \in Nat /\ Missing \notin Present
  BY PresentIsKnown, SizesAssumption DEF TypeOK
<1>3. /\ UNCHANGED <<devices, ports, nodes, dir, linuxdev, ids, fd, buf, count, opened>>
      /\ devaddr' \in [bus : {Missing, 1}, dev : {Missing} \cup Numbers]
      /\ devaddr'.dev = DeviceNumber
  <2>1. DeviceNumber \in {Missing} \cup Numbers
    BY <1>2 DEF DeviceNumber, Numbers, None
  <2>2. /\ UNCHANGED <<devices, ports, nodes, dir, linuxdev, ids, fd, buf, count, opened>>
        /\ devaddr' = [devaddr EXCEPT !.dev = DeviceNumber]
    BY DEF ReadDevnum, Goto, busVars
  <2>3. devaddr \in [bus : {Missing, 1}, dev : {Missing} \cup Numbers]  BY DEF TypeOK
  <2> QED  BY <2>1, <2>2, <2>3
<1>4. TypeOK'  BY <1>1, <1>3 DEF TypeOK, Goto, busVars, Steps
<1>5. Bus' /\ Searched' /\ Result'  BY <1>1, StillMatched DEF Matched
<1>6. Present' = Present  BY <1>3 DEF Present
<1>7. Named'  BY <1>1, <1>2, <1>3, <1>6 DEF Named, DeviceNumber, Missing, Attached
<1>8. Compared' /\ Identified' /\ InMemory'
  BY <1>1, <1>3 DEF Compared, Identified, InMemory, Attached, Steps
<1> QED  BY <1>4, <1>5, <1>7, <1>8

LEMMA SysfsGetDevTKeeps == OpenInv /\ SysfsGetDevT => OpenInv'
<1> SUFFICES ASSUME OpenInv, SysfsGetDevT PROVE OpenInv'  OBVIOUS
<1> USE DEF OpenInv
<1>1. /\ pc = "dev" /\ pc' \in {"failed", "stat"} /\ Goto(pc')
      /\ pc' = "stat" => ports[dir] # None /\ linuxdev' = ports[dir]
      /\ pc' = "failed" => linuxdev' = linuxdev
  BY DEF SysfsGetDevT, Goto
<1>2. /\ ports[dir] \in 0..Len(devices) /\ Len(devices) \in Nat /\ Len(devices) <= MaxPlugs
      /\ MaxPlugs \in Nat
  BY PresentIsKnown, SizesAssumption DEF TypeOK
<1>3. UNCHANGED <<devices, ports, nodes, steady, type, visited, dir, devaddr, ids, fd, buf, count,
                opened>>
  BY DEF SysfsGetDevT, Goto, busVars
<1>4. TypeOK'
  BY <1>1, <1>2, <1>3 DEF TypeOK, Goto, busVars, Steps, Results, Numbers, None
<1>5. Bus' /\ Result'  BY <1>1, StillMatched DEF Matched, Attached
<1>6. Searched'
  BY <1>1, <1>3 DEF Searched, Matches, Attached, Matched
<1>7. Present' = Present  BY <1>3 DEF Present
<1>8. Named' /\ Compared'
  BY <1>1, <1>2, <1>3, <1>7 DEF Named, Compared, Attached, None
<1>9. Identified' /\ InMemory'
  BY <1>1, <1>3 DEF Identified, InMemory, Attached, Steps
<1> QED  BY <1>4, <1>5, <1>6, <1>8, <1>9

(* The node leads to the device whose number was read last.                *)
LEMMA StatPathKeeps == OpenInv /\ StatPath => OpenInv'
<1> SUFFICES ASSUME OpenInv, StatPath PROVE OpenInv'  OBVIOUS
<1> USE DEF OpenInv
<1>1. /\ pc = "stat" /\ pc' \in {"idVendor", "failed"} /\ Goto(pc')
      /\ pc' = "idVendor" => NodeAtPath # None /\ NodeAtPath = linuxdev
  BY DEF StatPath, Goto, SameDevice
<1>2. UNCHANGED <<devices, ports, nodes, dir, devVars>>
  BY DEF StatPath, Goto, busVars
<1>3. TypeOK'  BY <1>1, <1>2 DEF TypeOK, Goto, busVars, devVars, Steps, Results
<1>4. Bus' /\ Searched' /\ Result'
  BY <1>1, <1>2, StillMatched DEF Matched, Attached, devVars
<1>5. Present' = Present  BY <1>2 DEF Present
<1>6. Named'  BY <1>1, <1>2, <1>5 DEF Named, Attached, devVars
<1>7. Compared'
  BY <1>1, <1>2, <1>5 DEF Compared, NodeAtPath, TypeOK, Attached, devVars
<1>8. Identified' /\ InMemory'
  BY <1>1, <1>2 DEF Identified, InMemory, Attached, Steps, devVars
<1> QED  BY <1>3, <1>4, <1>6, <1>7, <1>8

-------------------------------------------------------------------------------
(* The identification and the descriptors *)

(* What is read in the directory at hand is of linuxdev, if that is there. *)
LEMMA AttributeOfDevice ==
    ASSUME OpenInv, pc \in Attached
    PROVE  /\ Attribute("vendor") \in Missing..(IdMod - 1)
           /\ Attribute("product") \in Missing..(IdMod - 1)
           /\ linuxdev \in Present =>
                /\ ports[dir] = linuxdev
                /\ Attribute("vendor") = devices[linuxdev].vendor
                /\ Attribute("product") = devices[linuxdev].product
<1> USE DEF OpenInv
<1>1. ports[dir] \in 0..Len(devices) /\ None \notin Present /\ IdMod \in Nat \ {0}
  BY PresentIsKnown, SizesAssumption DEF TypeOK
<1>2. ports[dir] # None => devices[ports[dir]] \in Model
  BY <1>1, PresentIsKnown DEF None
<1>3. linuxdev \in Present => ports[dir] = linuxdev  BY DEF Compared
<1>4. ASSUME NEW id \in 0..(IdMod - 1)  PROVE id \in Missing..(IdMod - 1)
  BY <1>1 DEF Missing
<1>5. Missing \in Missing..(IdMod - 1)  BY <1>1 DEF Missing
<1> QED  BY <1>1, <1>2, <1>3, <1>4, <1>5 DEF Attribute, Model

(* A step that leaves what __usb_open() has compared *)
LEMMA StillCompared ==
    ASSUME OpenInv, pc \in Attached \ {"stat"}, NEW s, s \in (Attached \ {"stat"}) \cup {"failed"},
           Goto(s), UNCHANGED <<devaddr, linuxdev>>
    PROVE  Bus' /\ Searched' /\ Result' /\ Named' /\ Compared' /\ Present' = Present
<1>1. pc' = s /\ UNCHANGED <<devices, ports, nodes, dir>>  BY DEF Goto, busVars
<1>2. Bus' /\ Searched' /\ Result'  BY StillMatched DEF Matched
<1>3. Present' = Present  BY <1>1 DEF Present
<1> QED  BY <1>1, <1>2, <1>3 DEF OpenInv, Named, Compared, Attached

LEMMA IdentifyVendorKeeps == OpenInv /\ IdentifyVendor => OpenInv'
<1> SUFFICES ASSUME OpenInv, IdentifyVendor PROVE OpenInv'  OBVIOUS
<1> USE DEF OpenInv
<1>1. pc = "idVendor" /\ pc' = "idProduct" /\ Goto("idProduct")  BY DEF IdentifyVendor, Goto
<1>2. UNCHANGED <<devices, ports, devaddr, linuxdev, fd, buf, count, opened>>
  BY DEF IdentifyVendor, Goto, busVars
<1>3. /\ Attribute("vendor") \in Missing..(IdMod - 1)
      /\ linuxdev \in Present => Attribute("vendor") = devices[linuxdev].vendor
  BY <1>1, AttributeOfDevice DEF Attached
<1>4. /\ ids' \in [vendor : Missing..(IdMod - 1), product : Missing..(IdMod - 1)]
      /\ ids'.vendor = Attribute("vendor")
  BY <1>3 DEF IdentifyVendor, TypeOK
<1>5. TypeOK'  BY <1>1, <1>2, <1>4 DEF TypeOK, Goto, busVars, Steps
<1>6. Bus' /\ Searched' /\ Result' /\ Named' /\ Compared' /\ Present' = Present
  BY <1>1, <1>2, StillCompared DEF Attached
<1>7. Identified'  BY <1>1, <1>2, <1>3, <1>4, <1>6 DEF Identified
<1>8. InMemory'  BY <1>1, <1>2 DEF InMemory, Steps
<1> QED  BY <1>5, <1>6, <1>7, <1>8

LEMMA IdentifyProductKeeps == OpenInv /\ IdentifyProduct => OpenInv'
<1> SUFFICES ASSUME OpenInv, IdentifyProduct PROVE OpenInv'  OBVIOUS
<1> USE DEF OpenInv
<1>1. pc = "idProduct" /\ pc' = "descriptors" /\ Goto("descriptors")
  BY DEF IdentifyProduct, Goto
<1>2. UNCHANGED <<devices, ports, devaddr, linuxdev, fd, buf, count, opened>>
  BY DEF IdentifyProduct, Goto, busVars
<1>3. /\ Attribute("product") \in Missing..(IdMod - 1)
      /\ linuxdev \in Present => Attribute("product") = devices[linuxdev].product
  BY <1>1, AttributeOfDevice DEF Attached
<1>4. /\ ids' \in [vendor : Missing..(IdMod - 1), product : Missing..(IdMod - 1)]
      /\ ids'.vendor = ids.vendor /\ ids'.product = Attribute("product")
  BY <1>3 DEF IdentifyProduct, TypeOK
<1>5. TypeOK'  BY <1>1, <1>2, <1>4 DEF TypeOK, Goto, busVars, Steps
<1>6. Bus' /\ Searched' /\ Result' /\ Named' /\ Compared' /\ Present' = Present
  BY <1>1, <1>2, StillCompared DEF Attached
<1>7. Identified'  BY <1>1, <1>2, <1>3, <1>4, <1>6 DEF Identified
<1>8. InMemory'  BY <1>1, <1>2 DEF InMemory, Steps
<1> QED  BY <1>5, <1>6, <1>7, <1>8

LEMMA OpenDescriptorsKeeps == OpenInv /\ OpenDescriptors => OpenInv'
<1> SUFFICES ASSUME OpenInv, OpenDescriptors PROVE OpenInv'  OBVIOUS
<1> USE DEF OpenInv
<1>1. /\ pc = "descriptors" /\ pc' \in {"read", "failed"} /\ Goto(pc')
      /\ pc' = "read" => ports[dir] # None
  BY DEF OpenDescriptors, Goto
<1>2. /\ UNCHANGED <<devices, ports, devaddr, linuxdev, ids, buf, count, opened>>
      /\ fd' = ports[dir]
  BY DEF OpenDescriptors, Goto, busVars
<1>3. ports[dir] \in 0..Len(devices) /\ Len(devices) \in Nat  BY PresentIsKnown DEF TypeOK
<1>4. TypeOK'  BY <1>1, <1>2, <1>3 DEF TypeOK, Goto, busVars, Steps, Results
<1>5. Bus' /\ Searched' /\ Result' /\ Named' /\ Compared' /\ Present' = Present
  BY <1>1, <1>2, StillCompared DEF Attached
<1>6. linuxdev \in Present => ports[dir] = linuxdev  BY <1>1, AttributeOfDevice DEF Attached
<1>7. Identified'  BY <1>1, <1>2, <1>5, <1>6 DEF Identified
<1>8. InMemory'
  <2>1. pc' \notin Steps \ {"read", "open"} /\ pc' # "open"  BY <1>1 DEF Steps, Results
  <2>2. CASE pc' = "failed"  BY <2>1, <2>2 DEF InMemory
  <2>3. CASE pc' = "read"
    <3>1. /\ fd' \in 1..Len(devices) /\ buf' = <<>> /\ count' = 0 /\ devices' = devices
          /\ devices[fd'] \in Model
      BY <1>1, <1>2, <1>3, <2>3, PresentIsKnown DEF InMemory, Steps, None
    <3>2. buf' \in Seq([dev : {fd'}, at : Nat])  BY <3>1
    <3>3. buf' = [k \in 1..count' |-> Byte(fd', k)]  BY <3>1
    <3>4. count' <= devices'[fd'].len  BY <3>1 DEF Model
    <3> QED  BY <2>1, <3>1, <3>2, <3>3, <3>4 DEF InMemory
  <2> QED  BY <1>1, <2>2, <2>3
<1> QED  BY <1>4, <1>5, <1>7, <1>8

(* One read(): bytes of the device whose file is open, in their order, as  *)
(* many as there are and as go into a page.                                *)
LEMMA ChunkIs ==
    ASSUME NEW d, fd = d, count \in Nat, NEW len \in Nat, devices[d].len = len, count <= len
    PROVE  \E n \in Nat :
             /\ Chunk \in Seq([dev : {d}, at : Nat]) /\ Len(Chunk) = n
             /\ Chunk = [k \in 1..n |-> Byte(d, count + k)]
             /\ count + n <= len
             /\ n <= Page /\ (n = Page \/ count + n = len)
<1> DEFINE left == len - count
           n == IF left < Page THEN left ELSE Page
           c == [k \in 1..n |-> Byte(d, count + k)]
<1>1. /\ n \in Nat /\ count + n <= len /\ n <= Page /\ (n = Page \/ count + n = len)
  BY SizesAssumption
<1>2. Chunk = c  BY DEF Chunk
<1> HIDE DEF n
<1> DEFINE S == [dev : {d}, at : Nat]
<1>3. \A k \in 1..n : Byte(d, count + k) \in S  BY <1>1 DEF Byte
<1> HIDE DEF S
<1>4. c \in Seq(S) /\ Len(c) = n  BY <1>1, <1>3
<1> QED  BY <1>1, <1>2, <1>4 DEF S

(* The chunk and what is left of the memory behind it.                     *)
LEMMA IntoIs ==
    ASSUME NEW S, NEW chunk \in Seq(S), NEW mem \in Seq(S)
    PROVE  Into(chunk, mem) \in Seq(S) /\ (mem = <<>> => Into(chunk, mem) = chunk)
<1>1. SubSeq(mem, Len(chunk) + 1, Len(mem)) \in Seq(S)  OBVIOUS
<1>2. mem = <<>> => SubSeq(mem, Len(chunk) + 1, Len(mem)) = <<>>  OBVIOUS
<1>3. chunk \o <<>> = chunk  OBVIOUS
<1> QED  BY <1>1, <1>2, <1>3 DEF Into

LEMMA ReadDescriptorsKeeps == OpenInv /\ ReadDescriptors => OpenInv'
<1> SUFFICES ASSUME OpenInv, ReadDescriptors PROVE OpenInv'  OBVIOUS
<1> USE DEF OpenInv
<1>1. /\ pc = "read" /\ pc' \in {"read", "failed"} /\ Goto(pc')
      /\ \/ pc' = "read" /\ ~AtEof /\ buf' = Into(Chunk, buf) /\ count' = count + Len(Chunk)
         \/ pc' = "failed" /\ UNCHANGED <<buf, count>>
  BY DEF ReadDescriptors, Goto
<1>2. UNCHANGED <<devices, ports, devaddr, linuxdev, ids, fd, opened>>
  BY DEF ReadDescriptors, Goto, busVars
<1>3. Bus' /\ Searched' /\ Result' /\ Named' /\ Compared' /\ Present' = Present
  BY <1>1, <1>2, StillCompared DEF Attached
<1>4. Identified'  BY <1>1, <1>2, <1>3 DEF Identified
<1>5. /\ fd \in 1..Len(devices) /\ buf \in Seq([dev : {fd}, at : Nat])
      /\ count \in Nat /\ count <= devices[fd].len
      /\ count <= Page => buf = [k \in 1..count |-> Byte(fd, k)]
      /\ count = 0 \/ count >= Page \/ count = devices[fd].len
      /\ devices[fd].len \in Nat /\ fd \in Numbers
  BY <1>1, PresentIsKnown DEF InMemory, TypeOK, Model
<1>6. CASE pc' = "failed"
  <2>1. UNCHANGED <<buf, count>>  BY <1>1, <1>6
  <2>2. TypeOK'  BY <1>1, <1>2, <1>6, <2>1 DEF TypeOK, Goto, busVars, Results
  <2>3. InMemory'  BY <1>6 DEF InMemory, Steps
  <2> QED  BY <1>3, <1>4, <2>2, <2>3
<1>7. CASE pc' = "read"
  <2>1. ~AtEof /\ buf' = Into(Chunk, buf) /\ count' = count + Len(Chunk)  BY <1>1, <1>7
  <2>2. PICK n \in Nat :
          /\ Chunk \in Seq([dev : {fd}, at : Nat]) /\ Len(Chunk) = n
          /\ Chunk = [k \in 1..n |-> Byte(fd, count + k)]
          /\ count + n <= devices[fd].len
          /\ n <= Page /\ (n = Page \/ count + n = devices[fd].len)
    BY <1>5, ChunkIs
  <2>3. n # 0  BY <2>1, <2>2 DEF AtEof
  <2>4. buf' \in Seq([dev : {fd}, at : Nat]) /\ (buf = <<>> => buf' = Chunk)
    BY <1>5, <2>1, <2>2, IntoIs
  <2>5. count' = count + n /\ count' \in Nat  BY <1>5, <2>1, <2>2
  <2>6. /\ count' = 0 \/ count' >= Page \/ count' = devices[fd].len
        /\ count' <= devices[fd].len
    BY <1>5, <2>2, <2>5, SizesAssumption
  <2>7. ASSUME count' <= Page  PROVE buf' = [k \in 1..count' |-> Byte(fd, k)]
    <3>1. count = 0  BY <1>5, <2>2, <2>3, <2>5, <2>7, SizesAssumption
    <3>2. buf = <<>>  BY <1>5, <3>1, SizesAssumption
    <3>3. count' = n /\ \A k \in 1..n : count + k = k  BY <2>5, <3>1
    <3>4. [k \in 1..n |-> Byte(fd, count + k)] = [k \in 1..n |-> Byte(fd, k)]  BY <3>3
    <3> QED  BY <2>2, <2>4, <3>2, <3>3, <3>4
  <2>8. InMemory'
    BY <1>2, <1>5, <1>7, <2>4, <2>6, <2>7 DEF InMemory, Byte
  <2>9. buf' \in Seq([dev : Numbers, at : Nat])
    <3> DEFINE S == [dev : {fd}, at : Nat]
               T == [dev : Numbers, at : Nat]
    <3>1. S \subseteq T /\ buf' \in Seq(S)  BY <1>5, <2>4
    <3> HIDE DEF S, T
    <3>2. buf' \in Seq(T)  BY <3>1, SeqMonotonic
    <3> QED  BY <3>2 DEF T
  <2>10. TypeOK'  BY <1>1, <1>2, <1>7, <2>5, <2>9 DEF TypeOK, Goto, busVars, Steps
  <2> QED  BY <1>3, <1>4, <2>8, <2>10
<1> QED  BY <1>1, <1>6, <1>7

LEMMA ParseDescriptorsKeeps == OpenInv /\ ParseDescriptors => OpenInv'
<1> SUFFICES ASSUME OpenInv, ParseDescriptors PROVE OpenInv'  OBVIOUS
<1> USE DEF OpenInv
<1>1. /\ pc = "read" /\ pc' \in {"open", "failed"} /\ Goto(pc') /\ AtEof
  BY DEF ParseDescriptors, Goto
<1>2. UNCHANGED <<devices, ports, devaddr, linuxdev, ids, fd, buf, count, opened>>
  BY DEF ParseDescriptors, Goto, busVars, devVars
<1>3. TypeOK'  BY <1>1, <1>2 DEF TypeOK, Goto, busVars, Steps, Results
<1>4. Bus' /\ Searched' /\ Result' /\ Named' /\ Compared' /\ Present' = Present
  BY <1>1, <1>2, StillCompared DEF Attached
<1>5. Identified'  BY <1>1, <1>2, <1>4 DEF Identified
<1>6. count = devices[fd].len
  <2>1. count \in Nat /\ count <= devices[fd].len /\ devices[fd].len \in Nat
    BY <1>1, PresentIsKnown DEF InMemory, TypeOK, Model
  <2>2. PICK n \in Nat : Len(Chunk) = n /\ (n = Page \/ count + n = devices[fd].len)
    BY <2>1, ChunkIs
  <2>3. n = 0  BY <1>1, <2>2 DEF AtEof
  <2> QED  BY <2>1, <2>2, <2>3, SizesAssumption
<1>7. InMemory'  BY <1>1, <1>2, <1>6 DEF InMemory, Steps, Results, Byte
<1> QED  BY <1>3, <1>4, <1>5, <1>7

(* If the node still leads to a device that is there, then it leads to the *)
(* one that was compared, which has been there all along.                  *)
LEMMA OpenNodeKeeps == OpenInv /\ OpenNode => OpenInv'
<1> SUFFICES ASSUME OpenInv, OpenNode PROVE OpenInv'  OBVIOUS
<1> USE DEF OpenInv
<1>1. /\ pc = "open" /\ pc' \in {"opened", "failed"} /\ Goto(pc')
      /\ pc' = "opened" => NodeAtPath \in Present /\ opened' = NodeAtPath
      /\ pc' = "failed" => opened' = opened
  BY DEF OpenNode, Goto
<1>2. UNCHANGED <<devices, ports, nodes, steady, type, visited, dir,
                  devaddr, linuxdev, ids, fd, buf, count>>
  BY DEF OpenNode, Goto, busVars
<1>3. pc' = "opened" => opened' = linuxdev /\ linuxdev \in Present /\ linuxdev \in 1..Len(devices)
  <2>1. None \notin Present  BY PresentIsKnown
  <2> QED  BY <1>1, <2>1 DEF Compared, NodeAtPath, Attached
<1>4. TypeOK'
  <2>1. opened' \in {None} \cup Numbers  BY <1>1, <1>3, PresentIsKnown DEF TypeOK
  <2> QED  BY <1>1, <1>2, <2>1 DEF TypeOK, Goto, busVars, Results
<1>5. pc' \notin Steps /\ pc' \notin Attached /\ pc' \notin Matched /\ pc' \notin {"read", "open"}
  BY <1>1 DEF Steps, Attached, Matched
<1>6. Bus' /\ Named' /\ Compared' /\ Identified' /\ InMemory'
  BY <1>1, <1>2, <1>5 DEF Bus, Named, Compared, Identified, InMemory
<1>7. Searched'  BY <1>1, <1>5 DEF Searched
<1>8. OpenedIsOneDevice'
  <2> SUFFICES ASSUME pc' = "opened" PROVE OpenedIsOneDevice'
    BY DEF OpenedIsOneDevice
  <2>1. /\ opened' = linuxdev /\ fd = linuxdev
        /\ ids.vendor = devices[linuxdev].vendor /\ ids.product = devices[linuxdev].product
    BY <1>1, <1>3 DEF Identified
  <2>2. ids = [vendor |-> devices[linuxdev].vendor, product |-> devices[linuxdev].product]
    BY <2>1 DEF TypeOK
  <2>3. /\ buf \in Seq([dev : {fd}, at : Nat]) /\ count = devices[fd].len
        /\ count <= Page => buf = [k \in 1..count |-> Byte(fd, k)]
    BY <1>1 DEF InMemory
  <2>4. \A k \in 1..Len(buf) : buf[k].dev = fd
    <3>1. ASSUME NEW k \in 1..Len(buf)  PROVE buf[k] \in [dev : {fd}, at : Nat]
      BY <2>3, ElementOfSeq
    <3> QED  BY <3>1
  <2> QED  BY <1>2, <2>1, <2>2, <2>3, <2>4 DEF OpenedIsOneDevice, Byte
<1>9. SteadyMatches'
  BY <1>1, <1>2, <1>3 DEF SteadyMatches, Searched, Matches, Attached, Matched
<1>10. Passed'
  BY <1>1, <1>2 DEF Passed, Searched, Matches, Matched, Attached, Results
<1> QED  BY <1>4, <1>6, <1>7, <1>8, <1>9, <1>10 DEF Result

-------------------------------------------------------------------------------
LEMMA InvNext == OpenInv /\ [Next]_vars => OpenInv'
<1> SUFFICES ASSUME OpenInv, [Next]_vars PROVE OpenInv'  OBVIOUS
<1>1. CASE Host
  BY <1>1, UsbParseTypeKeeps, OpenDirKeeps, ReadEntryKeeps, NoMoreEntriesKeeps, MatchVendorKeeps,
     MatchProductKeeps, ReadBusnumKeeps, ReadDevnumKeeps, SysfsGetDevTKeeps, StatPathKeeps,
     IdentifyVendorKeeps, IdentifyProductKeeps, OpenDescriptorsKeeps, ReadDescriptorsKeeps,
     ParseDescriptorsKeeps, OpenNodeKeeps
  DEF Host
<1>2. CASE Environment
  BY <1>2, PlugKeeps, UnplugKeeps, NodesKeep DEF Environment
<1>3. CASE UNCHANGED vars
  BY <1>3
  DEF vars, busVars, devVars, OpenInv, TypeOK, Bus, Named, Compared, Identified, InMemory, Searched,
      Result, OpenedIsOneDevice, Passed, SteadyMatches, Present, Matches, Byte
<1> QED  BY <1>1, <1>2, <1>3 DEF Next, Finished

LEMMA Invariance == Spec => []OpenInv
<1>1. Init => OpenInv  BY InvInit
<1>2. OpenInv /\ [Next]_vars => OpenInv'  BY InvNext
<1> QED  BY <1>1, <1>2, PTL DEF Spec

(* Whatever happens on the bus, uusb_dev_t and the locals of usb.c are     *)
(* what TypeOK says; the ids asked for fit in 16 bits.                     *)
THEOREM TypeCorrect == Spec => []TypeOK
<1>1. OpenInv => TypeOK  BY DEF OpenInv
<1> QED  BY <1>1, Invariance, PTL

(* The device that __usb_open() returns is the one whose ids and           *)
(* descriptors it has read, for every interleaving of the reads with       *)
(* devices that come and go and with their nodes.                          *)
THEOREM OneDeviceIsOpened == Spec => []OpenedIsOneDevice
<1>1. OpenInv => OpenedIsOneDevice  BY DEF OpenInv, Result
<1> QED  BY <1>1, Invariance, PTL

(* usb_parse_type() cuts the ids once, and later nothing changes what is   *)
(* looked for.                                                             *)
LEMMA CutAlways == Spec => []Cut
<1>1. Init => Cut  BY DEF Init, Cut
<1>2. Cut /\ [Next]_vars => Cut'
  <2> SUFFICES ASSUME Cut, [Next]_vars PROVE Cut'  OBVIOUS
  <2>1. CASE UsbParseType  BY <2>1 DEF UsbParseType, Cut, ParseId
  <2>2. CASE UNCHANGED <<option, pc, type, visited>>  BY <2>2 DEF Cut, ParseId
  <2>3. CASE pc \notin {"start", "failed"} /\ UNCHANGED <<option, type>>
    BY <2>3 DEF Cut, ParseId
  <2>4. ASSUME Host PROVE UsbParseType \/ (pc \notin {"start", "failed"} /\ UNCHANGED <<option, type>>)
    BY <2>4
    DEF Host, OpenDir, ReadEntry, NoMoreEntries, MatchVendor, MatchProduct, ReadBusnum, ReadDevnum,
        SysfsGetDevT, StatPath, IdentifyVendor, IdentifyProduct, OpenDescriptors, ReadDescriptors,
        ParseDescriptors, OpenNode, Goto
  <2>5. CASE Environment
    BY <2>2, <2>5 DEF Environment, Plug, Unplug, MakeNode, RemoveNode, HostUnchanged
  <2>6. CASE UNCHANGED vars  BY <2>2, <2>6 DEF vars
  <2> QED  BY <2>1, <2>3, <2>4, <2>5, <2>6 DEF Next, Finished
<1> QED  BY <1>1, <1>2, PTL DEF Spec

(* An id that fits is not changed by the cut, and that of a device fits.   *)
LEMMA FitsUncut ==
    ASSUME NEW n \in 0..(IdMod - 1)
    PROVE  ParseId(n) = n
BY SizesAssumption DEF ParseId

(* So what -T asks for is found, and, if its ids fit, nothing else is.     *)
LEMMA WantedMatches ==
    ASSUME TypeOK, type = [vendor |-> ParseId(option.vendor), product |-> ParseId(option.product)],
           NEW d \in 1..Len(devices)
    PROVE  /\ Wanted(d) => Matches(d)
           /\ {option.vendor, option.product} \subseteq 0..(IdMod - 1) /\ Matches(d) => Wanted(d)
<1>1. devices[d] \in Model  BY PresentIsKnown
<1>2. devices[d].vendor \in 0..(IdMod - 1) /\ devices[d].product \in 0..(IdMod - 1)
  BY <1>1 DEF Model
<1>3. 0 \in 0..(IdMod - 1)  BY SizesAssumption
<1>4. type.vendor = ParseId(option.vendor) /\ type.product = ParseId(option.product)  OBVIOUS
<1>5. ASSUME Wanted(d)  PROVE Matches(d)
  <2>1. option.vendor \in 0..(IdMod - 1) /\ option.product \in 0..(IdMod - 1)
    BY <1>2, <1>3, <1>5 DEF Wanted
  <2> QED  BY <1>4, <1>5, <2>1, FitsUncut DEF Wanted, Matches
<1>6. ASSUME {option.vendor, option.product} \subseteq 0..(IdMod - 1), Matches(d)
      PROVE  Wanted(d)
  BY <1>4, <1>6, FitsUncut DEF Wanted, Matches
<1> QED  BY <1>5, <1>6

(* usb_open_type() walks past no device that has been there since it       *)
(* opened the directory and is wanted, whatever it returns.                *)
THEOREM NoDeviceIsMissed == Spec => []NonePassedOver
<1>1. OpenInv /\ Cut => NonePassedOver
  <2> SUFFICES ASSUME OpenInv, Cut, pc \in Results,
                      NEW p \in steady, Wanted(ports[p])
               PROVE  pc # "notfound" /\ (p = dir \/ p \notin visited)
    BY DEF NonePassedOver
  <2>1. CASE pc = "failed" /\ visited = {}  BY <2>1
  <2>2. CASE type = [vendor |-> ParseId(option.vendor), product |-> ParseId(option.product)]
    <3>1. ports[p] \in 1..Len(devices)
      BY PresentIsKnown DEF OpenInv, Bus, TypeOK
    <3>2. Matches(ports[p])  BY <2>2, <3>1, WantedMatches DEF OpenInv
    <3> QED  BY <3>2 DEF OpenInv, Result, Passed
  <2> QED  BY <2>1, <2>2 DEF Cut, Results
<1> QED  BY <1>1, Invariance, CutAlways, PTL

(* A device that has been there since then is opened only if it is of the  *)
(* type that -T asks for, provided that its ids fit in 16 bits.            *)
THEOREM WantedIfSteady == Spec => []SteadyIsWanted
<1>1. OpenInv /\ Cut => SteadyIsWanted
  <2> SUFFICES ASSUME OpenInv, Cut, pc = "opened", dir \in steady,
                      {option.vendor, option.product} \subseteq 0..(IdMod - 1)
               PROVE  Wanted(opened)
    BY DEF SteadyIsWanted
  <2>1. type = [vendor |-> ParseId(option.vendor), product |-> ParseId(option.product)]
    BY DEF Cut
  <2>2. opened \in 1..Len(devices)  BY DEF OpenInv, Result, SteadyMatches
  <2>3. Matches(opened)  BY DEF OpenInv, Result, SteadyMatches
  <2> QED  BY <2>1, <2>2, <2>3, WantedMatches DEF OpenInv
<1> QED  BY <1>1, Invariance, CutAlways, PTL

===============================================================================

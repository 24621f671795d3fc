---------------------------- MODULE UsbDescriptors ----------------------------
(***************************************************************************)
(* descriptor.c, ccid.c and the interface selection of usb.c: the bytes of *)
(* the `descriptors' file of sysfs become the tree of configurations,      *)
(* interfaces and endpoints of a uusb_dev_t, in one pass with two          *)
(* pointers, `config' and `interface'; then uusb_dev_select_ccid_interface *)
(* walks the tree for the first CCID interface that has a bulk endpoint in *)
(* each direction and that the kernel grants.                              *)
(*                                                                         *)
(* The file is the sequence of descriptors the loop finds in it: one       *)
(* begins at the byte `at' where the length of the one before leads.  `n'  *)
(* is the count in a device, configuration or interface descriptor,        *)
(* `value' its bConfigurationValue, bInterfaceNumber or bEndpointAddress,  *)
(* `class' that of an interface and `ep' the direction and type of an      *)
(* endpoint.                                                               *)
(*                                                                         *)
(* A write behind the end of an array of the tree is undefined behaviour:  *)
(* the program is then "wild", and nothing is said of what it does next.   *)
(***************************************************************************)
EXTENDS Integers, FiniteSets, Sequences, SequencesExt, Functions

CONSTANTS
    Files,           \* what the file may hold
    MaxConfigs,      \* UUSB_MAX_CONFIGS, 8
    MaxInterfaces,   \* UUSB_MAX_INTERFACES, 8, of a configuration
    MaxEndpoints     \* UUSB_MAX_ENDPOINTS, 4, of an interface

Types == {"DEVICE", "CONFIG", "INTERFACE", "ENDPOINT", "CLASS"}
Endpoints == {"bulk in", "bulk out", "interrupt in", "none"}

Classes == {"ccid", "hid", "storage", "unknown"}

Item == [type : Types, at : Nat, len : 0..255, n : 0..255, value : 0..255,
         class : Classes, ep : Endpoints]

(* One begins where the length of the one before leads, in the middle of   *)
(* that one if the length is 1.  What stands behind a length of 0 is never *)
(* found; it is listed for its bytes.                                      *)
ASSUME FilesAssumption ==
    /\ Files \subseteq Seq(Item)
    /\ \A f \in Files : \A k, l \in DOMAIN f :
          /\ k = 1 => f[k].at = 0
          /\ l = k + 1 => f[l].at = f[k].at + f[k].len
          /\ k < l => f[l].at >= f[k].at + f[k].len
ASSUME ArraysAssumption ==
    MaxConfigs \in Nat \ {0} /\ MaxInterfaces \in Nat /\ MaxEndpoints \in Nat

VARIABLES
    file,       \* the bytes, of which the last `cut' are missing
    cut,
    pos,        \* descriptors parsed
    declared,   \* bNumConfigurations
    configs,    \* dev->config[0 .. num_configs - 1]
    interface,  \* is the local pointer set? (then to the last interface)
    pc,         \* "parse", "select", "ok", "failed" or "wild"
    i, j,       \* the interface that is tried
    endpoints,  \* dev->endpoints: ep_i and ep_o, -1 if there is none
    active,     \* the configuration the kernel has selected (external)
    claimed     \* interfaces claimed for this process (external)

parseVars == <<pos, declared, configs, interface>>
selectVars == <<i, j, endpoints, active, claimed>>
vars == <<file, cut, parseVars, pc, selectVars>>

NoEndpoints == [ep_i |-> -1, ep_o |-> -1]

(* How long a descriptor must be for the uusb_dt_get_*() calls to succeed. *)
Needs == [DEVICE |-> 18, CONFIG |-> 9, INTERFACE |-> 9, ENDPOINT |-> 7, CLASS |-> 54]

(* The kernel runs a configuration that it could read. *)
Runnable(d) == d.type = "CONFIG" /\ d.len >= Needs.CONFIG

Init ==
    /\ file \in Files /\ cut \in 0..1
    /\ pos = 0 /\ declared = 0 /\ configs = <<>> /\ interface = FALSE
    /\ pc = "parse" /\ i = 1 /\ j = 1 /\ endpoints = NoEndpoints
    /\ active \in {file[k].value : k \in {l \in DOMAIN file : Runnable(file[l])}}
    /\ claimed = {}

-------------------------------------------------------------------------------
(* uusb_parse_descriptors() *)

dt == file[pos + 1]

LongEnough == dt.len >= Needs[dt.type]

config == configs[Len(configs)]

LastInterface_NotAdvanced == config.interfaces[1]

LastInterface == Last(config.interfaces)

(* uusb_find_interface_type(): "hid" stands for the boot keyboard; of the  *)
(* three types in the list only "ccid" has a handler.                      *)
HasHandler(class) == class = "ccid"

(* data[pos ..]: what is left of the file *)
Remaining == (Last(file).at + Last(file).len - cut) - dt.at

(* `pos + 2 < len' *)
Parsing == pc = "parse" /\ pos < Len(file) /\ Remaining > 2

RoomFor_Always(count, n) == TRUE

(* `if (num > bNum) "Too many ... descriptors"', tested before num++ *)
RoomFor(count, n) == count <= n

InterfaceAfterConfig_Kept == interface

InterfaceAfterConfig == FALSE

AtDevice == pos = 0 /\ dt.type = "DEVICE" /\ LongEnough /\ dt.n \in 1..MaxConfigs

(* A descriptor that the counts let in, and that takes the next element of *)
(* its array.                                                              *)
ConfigComes == pos > 0 /\ dt.type = "CONFIG" /\ RoomFor(Len(configs), declared)

InterfaceComes == /\ pos > 0 /\ dt.type = "INTERFACE"
                  /\ configs # <<>> /\ RoomFor(Len(config.interfaces), config.n)

EndpointComes == /\ pos > 0 /\ dt.type = "ENDPOINT"
                 /\ interface /\ RoomFor(Len(LastInterface.endpoints), LastInterface.n)

AtConfig == ConfigComes /\ Len(configs) < MaxConfigs /\ LongEnough

AtInterface == InterfaceComes /\ Len(config.interfaces) < MaxInterfaces /\ LongEnough

AtEndpoint == EndpointComes /\ Len(LastInterface.endpoints) < MaxEndpoints /\ LongEnough

(* The element is behind the end, and the descriptor long enough for its   *)
(* first field to be stored there.                                         *)
BeyondArray ==
    \/ ConfigComes /\ Len(configs) >= MaxConfigs /\ dt.len > 4
    \/ InterfaceComes /\ Len(config.interfaces) >= MaxInterfaces /\ dt.len > 2
    \/ EndpointComes /\ Len(LastInterface.endpoints) >= MaxEndpoints /\ dt.len > 2

(* Any other descriptor goes to the handler of the interface, if it has    *)
(* one: ccid_parse_usb_descriptor() takes all of them for CCID descriptors.*)
Handled == interface /\ HasHandler(LastInterface.class)

AtOther == pos > 0 /\ dt.type = "CLASS" /\ (Handled => LongEnough)

NextPos_KnownOnly == IF dt.type = "CLASS" THEN pos ELSE pos + 1

(* `pos += data[pos]', whatever the descriptor was: a length of 0 leads to *)
(* the same one again.                                                     *)
NextPos == IF dt.len = 0 THEN pos ELSE pos + 1

Parse(At) ==
    /\ Parsing /\ dt.len <= Remaining /\ At
    /\ pos' = NextPos
    /\ UNCHANGED <<file, cut, pc, selectVars>>

ParseDevice ==
    /\ Parse(AtDevice)
    /\ declared' = dt.n
    /\ UNCHANGED <<configs, interface>>

ParseConfig ==
    /\ Parse(AtConfig)
    /\ configs' = Append(configs, [value |-> dt.value, n |-> dt.n, interfaces |-> <<>>])
    /\ interface' = InterfaceAfterConfig
    /\ UNCHANGED declared

WithInterfaces(interfaces) ==
    [configs EXCEPT ![Len(configs)].interfaces = interfaces]

ParseInterface ==
    /\ Parse(AtInterface)
    /\ configs' = WithInterfaces(Append(config.interfaces,
                      [value |-> dt.value, n |-> dt.n, class |-> dt.class,
                       ccid |-> 0, endpoints |-> <<>>]))
    /\ interface' = TRUE
    /\ UNCHANGED declared

WithLastInterface(intf) ==
    WithInterfaces([config.interfaces EXCEPT ![Len(config.interfaces)] = intf])

ParseEndpoint ==
    /\ Parse(AtEndpoint)
    /\ configs' = WithLastInterface([LastInterface EXCEPT
                      !.endpoints = Append(@, [ep |-> dt.ep, value |-> dt.value])])
    /\ UNCHANGED <<declared, interface>>

ParseOther ==
    /\ Parse(AtOther)
    /\ configs' = IF Handled THEN WithLastInterface([LastInterface EXCEPT !.ccid = pos + 1])
                             ELSE configs
    /\ UNCHANGED <<declared, interface>>

ParseOverruns ==
    /\ Parsing /\ dt.len <= Remaining /\ BeyondArray
    /\ pc' = "wild"
    /\ UNCHANGED <<file, cut, parseVars, selectVars>>

(* Every other case is an error return. *)
ParseFails ==
    /\ Parsing
    /\ \/ dt.len > Remaining
       \/ ~(\/ AtDevice \/ AtConfig \/ AtInterface \/ AtEndpoint \/ AtOther
            \/ BeyondArray)
    /\ pc' = "failed"
    /\ UNCHANGED <<file, cut, parseVars, selectVars>>

ParseReturns ==
    /\ pc = "parse" /\ ~Parsing
    /\ pc' = "select"
    /\ UNCHANGED <<file, cut, parseVars, selectVars>>

-------------------------------------------------------------------------------
(* uusb_dev_select_ccid_interface() *)

Interface == configs[i].interfaces[j]

Trying == pc = "select" /\ i <= Len(configs) /\ j <= Len(configs[i].interfaces)

IndicesOf(ep) == {k \in DOMAIN Interface.endpoints : Interface.endpoints[k].ep = ep}

LastOf(ep) ==
    IF IndicesOf(ep) = {} THEN -1
    ELSE Interface.endpoints[CHOOSE k \in IndicesOf(ep) : \A l \in IndicesOf(ep) : l <= k].value

EndpointsFound_NotReset ==
    [ep_i |-> IF LastOf("bulk in") < 0 THEN endpoints.ep_i ELSE LastOf("bulk in"),
     ep_o |-> IF LastOf("bulk out") < 0 THEN endpoints.ep_o ELSE LastOf("bulk out")]

(* uusb_set_endpoints(): the last of each kind counts. *)
EndpointsFound == [ep_i |-> LastOf("bulk in"), ep_o |-> LastOf("bulk out")]

Complete(eps) == eps.ep_i >= 0 /\ eps.ep_o >= 0

TryNextInterface == j' = j + 1 /\ UNCHANGED i

(* No CCID descriptor, or not both endpoints (which stay set). *)
SkipInterface ==
    /\ Trying
    /\ \/ Interface.ccid = 0 /\ UNCHANGED endpoints
       \/ /\ Interface.ccid # 0 /\ ~Complete(EndpointsFound)
          /\ endpoints' = EndpointsFound
    /\ TryNextInterface
    /\ UNCHANGED <<file, cut, parseVars, pc, active, claimed>>

NeedsSetConfig == declared > 1

NeedsClaim == Interface.value # 0

(* uusb_select_interface(): each of the two ioctls may fail, the second    *)
(* when the configuration has been set.                                    *)
SelectInterface ==
    /\ Trying
    /\ Interface.ccid # 0 /\ Complete(EndpointsFound)
    /\ endpoints' = EndpointsFound
    /\ \/ /\ NeedsSetConfig
          /\ TryNextInterface
          /\ UNCHANGED <<pc, active, claimed>>
       \/ /\ NeedsClaim
          /\ active' = IF NeedsSetConfig THEN configs[i].value ELSE active
          /\ TryNextInterface
          /\ UNCHANGED <<pc, claimed>>
       \/ /\ active' = IF NeedsSetConfig THEN configs[i].value ELSE active
          /\ claimed' = IF NeedsClaim THEN claimed \cup {Interface.value} ELSE claimed
          /\ pc' = "ok"
          /\ UNCHANGED <<i, j>>
    /\ UNCHANGED <<file, cut, parseVars>>

NextConfig ==
    /\ pc = "select" /\ i <= Len(configs) /\ j > Len(configs[i].interfaces)
    /\ i' = i + 1 /\ j' = 1
    /\ UNCHANGED <<file, cut, parseVars, pc, endpoints, active, claimed>>

NoInterface ==
    /\ pc = "select" /\ i > Len(configs)
    /\ pc' = "failed"
    /\ UNCHANGED <<file, cut, parseVars, selectVars>>

Finished == pc \in {"ok", "failed", "wild"} /\ UNCHANGED vars

Next ==
    \/ ParseDevice \/ ParseConfig \/ ParseInterface \/ ParseEndpoint \/ ParseOther
    \/ ParseOverruns \/ ParseFails \/ ParseReturns
    \/ SkipInterface \/ SelectInterface \/ NextConfig \/ NoInterface
    \/ Finished

Spec == Init /\ [][Next]_vars

(* Parsing and selection are one thread that waits for nobody. *)
FairSpec == Spec /\ WF_vars(Next)

-------------------------------------------------------------------------------
(* What the file says, read without pointers *)

Positions(type) == {k \in 1..pos : file[k].type = type}

(* k describes something of the descriptor at c: it comes after c and      *)
(* before the next descriptor of one of these types.                       *)
Under(k, c, types) == c < k /\ \A l \in c + 1 .. k - 1 : file[l].type \notin types

(* The descriptor at c is the m-th of its type after `from'. *)
Ordinal(c, type, from) == Cardinality({l \in from + 1 .. c : file[l].type = type})

EndpointsUnder(c) ==
    {k \in Positions("ENDPOINT") : Under(k, c, {"INTERFACE", "CONFIG"})}

CcidUnder(c) == {k \in Positions("CLASS") : Under(k, c, {"INTERFACE", "CONFIG"})}

(* Where the tree has the configuration at c, and the interface at f under it *)
ConfigOf(c) == configs[Ordinal(c, "CONFIG", 0)]

InterfaceOf(f, c) == ConfigOf(c).interfaces[Ordinal(f, "INTERFACE", c)]

InterfaceMatches(f, intf) ==
    /\ intf.value = file[f].value /\ intf.class = file[f].class /\ intf.n = file[f].n
    /\ Len(intf.endpoints) = Cardinality(EndpointsUnder(f))
    /\ \A k \in EndpointsUnder(f) :
         intf.endpoints[Ordinal(k, "ENDPOINT", f)].value = file[k].value
    /\ IF intf.class # "ccid" \/ CcidUnder(f) = {} THEN intf.ccid = 0
       ELSE intf.ccid \in CcidUnder(f) /\ \A k \in CcidUnder(f) : k <= intf.ccid

TreeSoFar ==
    \A c \in Positions("CONFIG") :
      /\ ConfigOf(c).value = file[c].value /\ ConfigOf(c).n = file[c].n
      /\ \A f \in Positions("INTERFACE") :
           Under(f, c, {"CONFIG"}) => InterfaceMatches(f, InterfaceOf(f, c))

-------------------------------------------------------------------------------
(* Properties *)

InterfaceRec ==
    [value : 0..255, n : 0..255, class : Classes, ccid : Nat,
     endpoints : Seq([ep : Endpoints, value : 0..255])]

TypeOK ==
    /\ pos \in 0..Len(file) /\ cut \in 0..1
    /\ declared \in 0..MaxConfigs
    /\ configs \in Seq([value : 0..255, n : 0..255, interfaces : Seq(InterfaceRec)])
    /\ interface \in BOOLEAN
    /\ interface => configs # <<>> /\ config.interfaces # <<>>
    /\ pc \in {"parse", "select", "ok", "failed", "wild"}
    /\ i \in 1..(Len(configs) + 1) /\ j \in Nat \ {0}
    /\ endpoints \in [ep_i : -1..255, ep_o : -1..255]
    /\ active \in 0..255 /\ claimed \subseteq 0..255

(* As long as the arrays reach, and they do as far as ArraysSuffice says:  *)
(* every configuration and every interface of the file is in the tree at   *)
(* its place, an interface with exactly the endpoints that follow it before*)
(* the next interface or configuration; and a CCID interface has the last  *)
(* class-specific descriptor among them, never one that follows another    *)
(* interface or stands between a configuration and its first interface.    *)
TreeMatchesFile == pc # "wild" => TreeSoFar

(* The parser writes behind the end of an array of the tree only for a     *)
(* descriptor that really is one more than the array holds, and only if    *)
(* the device itself announces at least as many as the array holds: a      *)
(* device with fewer, however many it then has, is refused in time, for    *)
(* all that the counts let in one more than announced.                     *)
ArraysSuffice ==
    pc = "wild" =>
      \/ declared >= MaxConfigs /\ Ordinal(pos + 1, "CONFIG", 0) > MaxConfigs
      \/ \E c \in Positions("CONFIG") :
           /\ Under(pos + 1, c, {"CONFIG"}) /\ file[c].n >= MaxInterfaces
           /\ Ordinal(pos + 1, "INTERFACE", c) > MaxInterfaces
      \/ \E f \in Positions("INTERFACE") :
           /\ Under(pos + 1, f, {"INTERFACE", "CONFIG"}) /\ file[f].n >= MaxEndpoints
           /\ Ordinal(pos + 1, "ENDPOINT", f) > MaxEndpoints

(* The interface the reader gets is usable: it has a CCID descriptor; the  *)
(* bulk pipes the program will use are endpoints of that very interface,   *)
(* one for each direction, not remembered from one tried before; the       *)
(* kernel runs its configuration (if the device has as many of them as it  *)
(* says), and has claimed it unless that happens by itself.                *)
SelectedIsUsable ==
    pc = "ok" =>
      /\ Interface.class = "ccid" /\ Interface.ccid # 0
      /\ \E e \in Range(Interface.endpoints) : e.ep = "bulk in" /\ e.value = endpoints.ep_i
      /\ \E e \in Range(Interface.endpoints) : e.ep = "bulk out" /\ e.value = endpoints.ep_o
      /\ Len(configs) <= declared => active = configs[i].value
      /\ Interface.value # 0 => Interface.value \in claimed

(* Where the parser finds the same descriptor for ever *)
StandsStill == Parsing /\ dt.type = "CLASS" /\ dt.len = 0 /\ ~Handled

(* Whatever the kernel grants, the walk over the descriptors and over the  *)
(* interfaces ends, unless it comes upon the one kind of descriptor whose  *)
(* length 0 nobody refuses: a class-specific one where there is no handler *)
(* to parse it.  There, and only there, the program stays for ever.  Every *)
(* other length moves on, a length of 1 into the middle of a descriptor.   *)
SelectionEnds == <>(pc \in {"ok", "failed", "wild"}) \/ <>[]StandsStill

(* `Too many config descriptors', `Too many interface descriptors', `Too   *)
(* many endpoint descriptors': a device never gets to have more of them    *)
(* than the enclosing descriptor announces.                                *)
NoMoreThanDeclared ==
    pc \notin {"failed", "wild"} =>
      /\ Len(configs) <= declared
      /\ \A c \in Range(configs) :
           /\ Len(c.interfaces) <= c.n
           /\ \A f \in Range(c.interfaces) : Len(f.endpoints) <= f.n

===============================================================================

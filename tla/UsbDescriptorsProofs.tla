------------------------ MODULE UsbDescriptorsProofs -------------------------
(***************************************************************************)
(* What parsing and selection guarantee for a file of any length, however  *)
(* the descriptors in it follow one another and whatever the kernel        *)
(* grants: as far as the arrays of the tree reach, it is the file's, and   *)
(* the interface that is selected is usable; and they are overrun only by  *)
(* a device that announces as many as they hold.                           *)
(***************************************************************************)
EXTENDS UsbDescriptors, FiniteSetTheorems, TLAPS

(* A set of positions that is not empty has a last one. *)
LEMMA LastExists ==
    ASSUME NEW n \in Nat, NEW S \in SUBSET (1..n), S # {}
    PROVE  \E k \in S : \A l \in S : l <= k
<1> DEFINE T == {n - k : k \in S}
<1>1. T \subseteq Nat /\ T # {}
    <2>1. PICK k \in S : TRUE OBVIOUS
    <2>2. n - k \in T OBVIOUS
    <2>3. T \subseteq Nat OBVIOUS
    <2> QED BY <2>2, <2>3
<1> DEFINE R == OpToRel(<, Nat)
<1>2. IsWellFoundedOn(R, Nat) BY NatLessThanWellFounded
<1>3. \A x, y \in Nat : <<y, x>> \in R <=> y < x BY DEF OpToRel
<1> HIDE DEF R
<1>4. \E x \in T : \A y \in T : <<y, x>> \notin R
    <2> HIDE DEF T
    <2> QED BY <1>1, <1>2, WFMin, Zenon
<1>5. PICK x \in T : \A y \in T : ~(y < x)
    <2>1. PICK x \in T : \A y \in T : <<y, x>> \notin R BY <1>4
    <2>2. \A y \in T : ~(y < x) BY <1>1, <1>3, <2>1
    <2> QED BY <2>2
<1>6. PICK k \in S : x = n - k OBVIOUS
<1>7. ASSUME NEW l \in S PROVE l <= k
    <2>1. n - l \in T OBVIOUS
    <2>2. ~(n - l < n - k) BY <1>5, <1>6, <2>1
    <2> QED BY <2>2
<1> QED BY <1>7

-------------------------------------------------------------------------------
(* Counting the descriptors of one type up to a position *)

(* The count is that of a finite set, and 0 where there is none. *)
LEMMA CountIsFinite ==
    ASSUME NEW b \in Nat, NEW a \in Nat, NEW type
    PROVE  /\ Ordinal(b, type, a) \in Nat
           /\ IsFiniteSet({l \in a + 1 .. b : file[l].type = type})
           /\ (\A l \in a + 1 .. b : file[l].type # type) => Ordinal(b, type, a) = 0
<1> DEFINE S == {l \in a + 1 .. b : file[l].type = type}
<1>1. IsFiniteSet(a + 1 .. b) BY FS_Interval
<1>2. S \in SUBSET (a + 1 .. b) OBVIOUS
<1>3. IsFiniteSet(S) BY <1>1, <1>2, FS_Subset
<1>4. Cardinality(S) \in Nat BY <1>3, FS_CardinalityType
<1>5. ASSUME \A l \in a + 1 .. b : file[l].type # type PROVE Cardinality(S) = 0
    <2>1. S = {} BY <1>5
    <2> QED BY <2>1, FS_EmptySet
<1> QED BY <1>3, <1>4, <1>5 DEF Ordinal

LEMMA CountIsNat ==
    \A a, b \in Nat : \A type : Ordinal(b, type, a) \in Nat
BY CountIsFinite

(* One descriptor more counts if it has the type. *)
LEMMA CountNext ==
    ASSUME NEW a \in Nat, NEW b \in Nat, a <= b, NEW type
    PROVE  Ordinal(b + 1, type, a) =
               IF file[b + 1].type = type THEN Ordinal(b, type, a) + 1 ELSE Ordinal(b, type, a)
<1> DEFINE S == {l \in a + 1 .. b : file[l].type = type}
<1> DEFINE T == {l \in a + 1 .. b + 1 : file[l].type = type}
<1>1. IsFiniteSet(S) BY CountIsFinite
<1>2. CASE file[b + 1].type = type
    <2>1. T = S \cup {b + 1} BY <1>2
    <2>2. b + 1 \notin S OBVIOUS
    <2>3. Cardinality(S \cup {b + 1}) = Cardinality(S) + 1 BY <1>1, <2>2, FS_AddElement
    <2> QED BY <1>2, <2>1, <2>3 DEF Ordinal
<1>3. CASE file[b + 1].type # type
    <2>1. T = S BY <1>3
    <2> QED BY <1>3, <2>1 DEF Ordinal
<1> QED BY <1>2, <1>3

(* The count does not fall, and does not stay where one of the type comes. *)
LEMMA CountGrows ==
    ASSUME NEW a \in Nat, NEW b \in Nat, NEW c \in Nat, b <= c, NEW type
    PROVE  /\ Ordinal(b, type, a) <= Ordinal(c, type, a)
           /\ (\A l \in b + 1 .. c : file[l].type # type)
                => Ordinal(b, type, a) = Ordinal(c, type, a)
           /\ (a <= b /\ \E l \in b + 1 .. c : file[l].type = type)
                => Ordinal(b, type, a) < Ordinal(c, type, a)
<1> DEFINE S == {l \in a + 1 .. b : file[l].type = type}
<1> DEFINE T == {l \in a + 1 .. c : file[l].type = type}
<1>1. IsFiniteSet(T) /\ Cardinality(S) \in Nat /\ Cardinality(T) \in Nat
    BY CountIsFinite DEF Ordinal
<1>2. S \in SUBSET T OBVIOUS
<1>3. Cardinality(S) <= Cardinality(T) /\ (Cardinality(T) = Cardinality(S) => T = S)
    BY <1>1, <1>2, FS_Subset
<1>4. ASSUME \A l \in b + 1 .. c : file[l].type # type PROVE S = T
    <2>1. ASSUME NEW l \in T PROVE l \in S BY <1>4, <2>1
    <2> QED BY <1>2, <2>1
<1>5. ASSUME a <= b, NEW l \in b + 1 .. c, file[l].type = type PROVE S # T
    <2>1. l \in T /\ l \notin S BY <1>5
    <2> QED BY <2>1
<1> HIDE DEF S, T
<1>6. Cardinality(S) <= Cardinality(T) BY <1>3
<1>7. (\A l \in b + 1 .. c : file[l].type # type) => Cardinality(S) = Cardinality(T) BY <1>4
<1>8. (a <= b /\ \E l \in b + 1 .. c : file[l].type = type) => Cardinality(S) < Cardinality(T)
    BY <1>1, <1>3, <1>5
<1>9. Ordinal(b, type, a) = Cardinality(S) /\ Ordinal(c, type, a) = Cardinality(T)
    BY DEF Ordinal, S, T
<1> QED BY <1>6, <1>7, <1>8, <1>9

-------------------------------------------------------------------------------
(* The tree and its last interface *)

ConfigRec == [value : 0..255, n : 0..255, interfaces : Seq(InterfaceRec)]

LEMMA LastConfigTyped ==
    ASSUME configs \in Seq(ConfigRec), configs # <<>>
    PROVE  config \in ConfigRec /\ config.interfaces \in Seq(InterfaceRec)
<1>1. config \in ConfigRec BY DEF config
<1> QED BY <1>1 DEF ConfigRec

(* Giving the last configuration other interfaces leaves the rest alone. *)
LEMMA LastConfigChanged ==
    ASSUME configs \in Seq(ConfigRec), configs # <<>>, NEW s \in Seq(InterfaceRec)
    PROVE  /\ WithInterfaces(s) \in Seq(ConfigRec)
           /\ Len(WithInterfaces(s)) = Len(configs)
           /\ \A k \in 1..Len(configs) :
                /\ k # Len(configs) => WithInterfaces(s)[k] = configs[k]
                /\ WithInterfaces(s)[k].value = configs[k].value
                /\ WithInterfaces(s)[k].n = configs[k].n
           /\ WithInterfaces(s)[Len(configs)].interfaces = s
<1>1. Len(configs) \in 1..Len(configs) /\ configs[Len(configs)] \in ConfigRec OBVIOUS
<1>2. [configs[Len(configs)] EXCEPT !.interfaces = s] \in ConfigRec BY <1>1 DEF ConfigRec
<1>3. WithInterfaces(s) =
          [configs EXCEPT ![Len(configs)] = [configs[Len(configs)] EXCEPT !.interfaces = s]]
    BY DEF WithInterfaces
<1>4. /\ [configs[Len(configs)] EXCEPT !.interfaces = s].value = configs[Len(configs)].value
      /\ [configs[Len(configs)] EXCEPT !.interfaces = s].n = configs[Len(configs)].n
    BY <1>1 DEF ConfigRec
<1>5. [configs[Len(configs)] EXCEPT !.interfaces = s].interfaces = s
    BY <1>1 DEF ConfigRec
<1> HIDE DEF ConfigRec
<1> QED BY <1>1, <1>2, <1>3, <1>4, <1>5

(* Changing the last interface leaves the others alone. *)
LEMMA LastInterfaceChanged ==
    ASSUME configs \in Seq(ConfigRec), configs # <<>>, config.interfaces # <<>>,
           NEW x \in InterfaceRec
    PROVE  /\ WithLastInterface(x) \in Seq(ConfigRec)
           /\ Len(WithLastInterface(x)) = Len(configs)
           /\ \A k \in 1..Len(configs) :
                /\ k # Len(configs) => WithLastInterface(x)[k] = configs[k]
                /\ WithLastInterface(x)[k].value = configs[k].value
                /\ WithLastInterface(x)[k].n = configs[k].n
           /\ WithLastInterface(x)[Len(configs)].interfaces # <<>>
           /\ Len(WithLastInterface(x)[Len(configs)].interfaces) = Len(config.interfaces)
           /\ \A m \in 1..Len(config.interfaces) :
                WithLastInterface(x)[Len(configs)].interfaces[m] =
                    IF m = Len(config.interfaces) THEN x ELSE config.interfaces[m]
<1> DEFINE s == [config.interfaces EXCEPT ![Len(config.interfaces)] = x]
<1>2. config.interfaces \in Seq(InterfaceRec) BY LastConfigTyped
<1>3. s \in Seq(InterfaceRec) /\ Len(s) = Len(config.interfaces) /\ s # <<>>
    BY <1>2
<1>4. \A m \in 1..Len(config.interfaces) :
          s[m] = IF m = Len(config.interfaces) THEN x ELSE config.interfaces[m]
    BY <1>2
<1>5. WithLastInterface(x) = WithInterfaces(s) BY DEF WithLastInterface
<1> HIDE DEF s
<1> QED BY <1>3, <1>4, <1>5, LastConfigChanged

-------------------------------------------------------------------------------
(* The inductive invariant *)

(* What comes next is still under the descriptor at k. *)
Open(k, types) == Under(pos + 1, k, types)

Nested == {"INTERFACE", "CONFIG"}

(* There are as many configurations as the part that is parsed has. *)
Counted == Len(configs) = Ordinal(pos, "CONFIG", 0)

(* The last one has as many interfaces as have come after it. *)
Filled ==
    \A c \in Positions("CONFIG") :
        Open(c, {"CONFIG"}) => Len(config.interfaces) = Ordinal(pos, "INTERFACE", c)

(* The two pointers: `config' is the last configuration, `interface' is    *)
(* set if an interface has come after it; none has come before the first.  *)
Anchored ==
    /\ configs # <<>> => \E c \in Positions("CONFIG") : Open(c, {"CONFIG"})
    /\ interface <=> \E f \in Positions("INTERFACE") : Open(f, Nested)
    /\ \A f \in Positions("INTERFACE") :
         \E c \in Positions("CONFIG") : Under(f, c, {"CONFIG"})

TreeInv == Counted /\ Filled /\ Anchored /\ TreeSoFar

LEMMA FileFacts ==
    ASSUME file \in Files, TypeOK
    PROVE  /\ file \in Seq(Item) /\ Len(file) \in Nat /\ DOMAIN file = 1..Len(file)
           /\ pos \in Nat /\ pos <= Len(file)
           /\ configs \in Seq(ConfigRec) /\ Len(configs) \in Nat
           /\ Parsing => pos + 1 \in 1..Len(file) /\ dt \in Item
<1>1. file \in Seq(Item) BY FilesAssumption
<1> QED BY <1>1 DEF TypeOK, ConfigRec, Parsing, dt

(* The configuration at c is in the tree, and the last one if it is open.  *)
LEMMA WhichConfig ==
    ASSUME pos \in Nat, Counted, NEW c \in Positions("CONFIG")
    PROVE  /\ c \in 1..pos /\ Ordinal(c, "CONFIG", 0) \in 1..Len(configs)
           /\ Open(c, {"CONFIG"}) <=> Ordinal(c, "CONFIG", 0) = Len(configs)
           /\ Open(c, {"CONFIG"}) => ConfigOf(c) = config
<1>1. c \in 1..pos /\ file[c].type = "CONFIG" BY DEF Positions
<1>2. Ordinal(c - 1, "CONFIG", 0) \in Nat /\ Ordinal(pos, "CONFIG", 0) \in Nat BY <1>1, CountIsNat
<1>3. Ordinal((c - 1) + 1, "CONFIG", 0) = Ordinal(c - 1, "CONFIG", 0) + 1
    <2>1. c - 1 \in Nat /\ 0 <= c - 1 /\ (c - 1) + 1 = c BY <1>1
    <2> QED BY <1>1, <2>1, CountNext
<1>4. Ordinal(c, "CONFIG", 0) = Ordinal(c - 1, "CONFIG", 0) + 1 BY <1>1, <1>3
<1>5. /\ Ordinal(c, "CONFIG", 0) <= Ordinal(pos, "CONFIG", 0)
      /\ (\A l \in c + 1 .. pos : file[l].type # "CONFIG")
            => Ordinal(c, "CONFIG", 0) = Ordinal(pos, "CONFIG", 0)
      /\ (\E l \in c + 1 .. pos : file[l].type = "CONFIG")
            => Ordinal(c, "CONFIG", 0) < Ordinal(pos, "CONFIG", 0)
    BY <1>1, CountGrows
<1>6. Open(c, {"CONFIG"}) <=> \A l \in c + 1 .. pos : file[l].type # "CONFIG"
    BY <1>1 DEF Open, Under
<1> QED BY <1>1, <1>2, <1>4, <1>5, <1>6 DEF Counted, ConfigOf, config

(* The interface at f under the last configuration is in the tree, and the *)
(* last one if it is open.                                                 *)
LEMMA WhichInterface ==
    ASSUME pos \in Nat, Counted, Filled,
           NEW c \in Positions("CONFIG"), Open(c, {"CONFIG"}),
           NEW f \in Positions("INTERFACE"), Under(f, c, {"CONFIG"})
    PROVE  /\ f \in 1..pos /\ Ordinal(f, "INTERFACE", c) \in 1..Len(config.interfaces)
           /\ Open(f, Nested) <=> Ordinal(f, "INTERFACE", c) = Len(config.interfaces)
<1>1. c \in 1..pos /\ f \in 1..pos /\ file[f].type = "INTERFACE" /\ c < f
    BY DEF Positions, Under
<1>2. \A l \in c + 1 .. pos : file[l].type # "CONFIG" BY <1>1 DEF Open, Under
<1>3. Ordinal(f - 1, "INTERFACE", c) \in Nat /\ Ordinal(pos, "INTERFACE", c) \in Nat
    BY <1>1, CountIsNat
<1>4. Ordinal(f, "INTERFACE", c) = Ordinal(f - 1, "INTERFACE", c) + 1
    <2>1. f - 1 \in Nat /\ c <= f - 1 /\ (f - 1) + 1 = f /\ c \in Nat BY <1>1
    <2>2. Ordinal((f - 1) + 1, "INTERFACE", c) = Ordinal(f - 1, "INTERFACE", c) + 1
        BY <1>1, <2>1, CountNext
    <2> QED BY <2>1, <2>2
<1>5. /\ Ordinal(f, "INTERFACE", c) <= Ordinal(pos, "INTERFACE", c)
      /\ (\A l \in f + 1 .. pos : file[l].type # "INTERFACE")
            => Ordinal(f, "INTERFACE", c) = Ordinal(pos, "INTERFACE", c)
      /\ (\E l \in f + 1 .. pos : file[l].type = "INTERFACE")
            => Ordinal(f, "INTERFACE", c) < Ordinal(pos, "INTERFACE", c)
    BY <1>1, CountGrows
<1>6. Open(f, Nested) <=> \A l \in f + 1 .. pos : file[l].type # "INTERFACE"
    BY <1>1, <1>2 DEF Open, Under, Nested
<1>7. Len(config.interfaces) = Ordinal(pos, "INTERFACE", c) BY DEF Filled
<1> QED BY <1>1, <1>3, <1>4, <1>5, <1>6, <1>7

(* An open interface is the one `interface' points to. *)
LEMMA OpenIsLast ==
    ASSUME pos \in Nat, Counted, Filled,
           NEW c \in Positions("CONFIG"),
           NEW f \in Positions("INTERFACE"), Under(f, c, {"CONFIG"}), Open(f, Nested)
    PROVE  Open(c, {"CONFIG"}) /\ InterfaceOf(f, c) = LastInterface
<1>1. c \in 1..pos /\ f \in 1..pos /\ file[f].type = "INTERFACE" /\ c < f
    BY DEF Positions, Under
<1>2. Open(c, {"CONFIG"})
    <2>1. ASSUME NEW l \in c + 1 .. pos PROVE file[l].type # "CONFIG"
        <3>1. CASE l < f BY <1>1, <3>1 DEF Under
        <3>2. CASE l = f BY <1>1, <3>2
        <3>3. CASE l > f BY <1>1, <3>3 DEF Open, Under, Nested
        <3> QED BY <1>1, <3>1, <3>2, <3>3
    <2> QED BY <1>1, <2>1 DEF Open, Under
<1>3. ConfigOf(c) = config BY <1>2, WhichConfig
<1>4. Ordinal(f, "INTERFACE", c) = Len(config.interfaces) BY <1>2, WhichInterface
<1> QED BY <1>2, <1>3, <1>4 DEF InterfaceOf, LastInterface, Last

-------------------------------------------------------------------------------
(* A descriptor is parsed *)

(* What is counted and what is under a descriptor does not change but for  *)
(* the descriptor that is parsed.                                          *)
LEMMA Advance ==
    ASSUME pos \in Nat, pos' = pos + 1, file' = file
    PROVE  /\ \A k, type, from : Ordinal(k, type, from)' = Ordinal(k, type, from)
           /\ \A k, c, types : Under(k, c, types)' = Under(k, c, types)
           /\ \A type : Positions(type)' =
                  Positions(type) \cup (IF dt.type = type THEN {pos + 1} ELSE {})
           /\ \A c \in 1..pos : \A types :
                  Open(c, types)' <=> Open(c, types) /\ dt.type \notin types
           /\ \A p : p = pos + 1 => \A types : Open(p, types)'
<1>1. \A k, type, from : Ordinal(k, type, from)' = Ordinal(k, type, from) BY DEF Ordinal
<1>2. \A k, c, types : Under(k, c, types)' = Under(k, c, types) BY DEF Under
<1>3. ASSUME NEW type
      PROVE  Positions(type)' = Positions(type) \cup (IF dt.type = type THEN {pos + 1} ELSE {})
    BY DEF Positions, dt
<1>4. ASSUME NEW c \in 1..pos, NEW types
      PROVE  Open(c, types)' <=> Open(c, types) /\ dt.type \notin types
    BY DEF Open, Under, dt
<1>5. ASSUME NEW p, p = pos + 1, NEW types PROVE Open(p, types)'
    BY <1>5 DEF Open, Under
<1> QED BY <1>1, <1>2, <1>3, <1>4, <1>5

LEMMA UnderAdvances ==
    ASSUME pos \in Nat, pos' = pos + 1, file' = file
    PROVE  /\ \A f \in 1..pos :
                /\ EndpointsUnder(f)' = EndpointsUnder(f) \cup
                       (IF dt.type = "ENDPOINT" /\ Open(f, Nested) THEN {pos + 1} ELSE {})
                /\ CcidUnder(f)' = CcidUnder(f) \cup
                       (IF dt.type = "CLASS" /\ Open(f, Nested) THEN {pos + 1} ELSE {})
           /\ \A p : p = pos + 1 => EndpointsUnder(p)' = {} /\ CcidUnder(p)' = {}
<1>1. \A k, c, types : Under(k, c, types)' = Under(k, c, types) BY Advance
<1>2. \A type : Positions(type)' =
          Positions(type) \cup (IF dt.type = type THEN {pos + 1} ELSE {}) BY Advance
<1>3. ASSUME NEW f \in 1..pos
      PROVE  EndpointsUnder(f)' = EndpointsUnder(f) \cup
                 (IF dt.type = "ENDPOINT" /\ Open(f, Nested) THEN {pos + 1} ELSE {})
    BY <1>1, <1>2 DEF EndpointsUnder, Open, Nested
<1>4. ASSUME NEW f \in 1..pos
      PROVE  CcidUnder(f)' = CcidUnder(f) \cup
                 (IF dt.type = "CLASS" /\ Open(f, Nested) THEN {pos + 1} ELSE {})
    BY <1>1, <1>2 DEF CcidUnder, Open, Nested
<1>5. ASSUME NEW p, p = pos + 1 PROVE EndpointsUnder(p)' = {} /\ CcidUnder(p)' = {}
    BY <1>5 DEF EndpointsUnder, CcidUnder, Positions, Under
<1> QED BY <1>3, <1>4, <1>5

LEMMA CountAdvances ==
    ASSUME pos \in Nat, pos' = pos + 1, file' = file
    PROVE  \A type : \A a \in 0..pos :
               Ordinal(pos, type, a)' =
                   IF dt.type = type THEN Ordinal(pos, type, a) + 1 ELSE Ordinal(pos, type, a)
<1>1. ASSUME NEW type, NEW a \in 0..pos
      PROVE  Ordinal(pos, type, a)' =
                 IF dt.type = type THEN Ordinal(pos, type, a) + 1 ELSE Ordinal(pos, type, a)
    <2>1. Ordinal(pos, type, a)' = Ordinal(pos + 1, type, a) BY Advance
    <2>2. a \in Nat /\ a <= pos OBVIOUS
    <2>3. Ordinal(pos + 1, type, a) =
              IF file[pos + 1].type = type THEN Ordinal(pos, type, a) + 1
                                           ELSE Ordinal(pos, type, a)
        BY <2>2, CountNext
    <2> QED BY <2>1, <2>3 DEF dt
<1> QED BY <1>1

(* A descriptor that the tree does not take leaves it the file's.          *)
LEMMA TreeQuiet ==
    ASSUME TreeInv, pos \in Nat, pos' = pos + 1, file' = file,
           configs' = configs, interface' = interface,
           dt.type \in {"DEVICE", "CLASS"}, dt.type = "CLASS" => ~Handled
    PROVE  TreeInv'
<1>1. /\ Positions("CONFIG")' = Positions("CONFIG")
      /\ Positions("INTERFACE")' = Positions("INTERFACE")
    BY Advance
<1>2. /\ \A c \in Positions("CONFIG") : c \in 1..pos
      /\ \A f \in Positions("INTERFACE") : f \in 1..pos
    BY DEF Positions
<1>3. \A k \in 1..pos : /\ Open(k, {"CONFIG"})' <=> Open(k, {"CONFIG"})
                        /\ Open(k, Nested)' <=> Open(k, Nested)
    BY Advance DEF Nested
<1>4. Counted'
    <2>1. Ordinal(pos, "CONFIG", 0)' = Ordinal(pos, "CONFIG", 0) BY CountAdvances
    <2> QED BY <2>1 DEF Counted, TreeInv
<1>5. Filled'
    <2>1. \A c \in 1..pos : Ordinal(pos, "INTERFACE", c)' = Ordinal(pos, "INTERFACE", c)
        BY CountAdvances
    <2> QED BY <1>1, <1>2, <1>3, <2>1 DEF Filled, TreeInv, config
<1>6. Anchored'
    <2>1. \A f, c : Under(f, c, {"CONFIG"})' = Under(f, c, {"CONFIG"}) BY Advance
    <2>2. Anchored BY DEF TreeInv
    <2> QED BY <1>1, <1>2, <1>3, <2>1, <2>2 DEF Anchored
<1>7. ASSUME NEW c \in Positions("CONFIG"), NEW f \in Positions("INTERFACE"),
             Under(f, c, {"CONFIG"})
      PROVE  InterfaceMatches(f, InterfaceOf(f, c))'
    <2>1. InterfaceOf(f, c)' = InterfaceOf(f, c) BY Advance DEF InterfaceOf, ConfigOf
    <2>2. EndpointsUnder(f)' = EndpointsUnder(f) BY <1>2, UnderAdvances
    <2>3. \A k : Ordinal(k, "ENDPOINT", f)' = Ordinal(k, "ENDPOINT", f) BY Advance
    <2>4. InterfaceMatches(f, InterfaceOf(f, c)) BY <1>7 DEF TreeInv, TreeSoFar
    <2>5. CASE dt.type = "CLASS" /\ Open(f, Nested)
        <3>1. interface BY <2>5 DEF TreeInv, Anchored
        <3>2. LastInterface.class # "ccid" BY <2>5, <3>1 DEF Handled, HasHandler
        <3>3. InterfaceOf(f, c) = LastInterface BY <1>7, <2>5, OpenIsLast DEF TreeInv
        <3> QED BY <2>1, <2>2, <2>3, <2>4, <3>2, <3>3 DEF InterfaceMatches
    <2>6. CASE ~(dt.type = "CLASS" /\ Open(f, Nested))
        <3>1. CcidUnder(f)' = CcidUnder(f) BY <1>2, <2>6, UnderAdvances
        <3> QED BY <2>1, <2>2, <2>3, <2>4, <3>1 DEF InterfaceMatches
    <2> QED BY <2>5, <2>6
<1>8. TreeSoFar'
    <2>1. \A f, c : Under(f, c, {"CONFIG"})' = Under(f, c, {"CONFIG"}) BY Advance
    <2>2. \A c \in Positions("CONFIG") :
              ConfigOf(c)' = ConfigOf(c) /\ ConfigOf(c).value = file[c].value
              /\ ConfigOf(c).n = file[c].n
        BY Advance DEF ConfigOf, TreeInv, TreeSoFar
    <2> QED BY <1>1, <1>7, <2>1, <2>2 DEF TreeSoFar
<1> QED BY <1>4, <1>5, <1>6, <1>8 DEF TreeInv

(* A configuration goes to the end of the tree, and closes the one before. *)
LEMMA TreeConfig ==
    ASSUME TreeInv, pos \in Nat, pos' = pos + 1, file' = file,
           configs \in Seq(ConfigRec), dt.type = "CONFIG",
           configs' = Append(configs, [value |-> dt.value, n |-> dt.n, interfaces |-> <<>>]),
           interface' = FALSE
    PROVE  TreeInv'
<1>0. PICK p \in Nat : p = pos + 1 OBVIOUS
<1>1. /\ Positions("CONFIG")' = Positions("CONFIG") \cup {p}
      /\ Positions("INTERFACE")' = Positions("INTERFACE")
    BY <1>0, Advance
<1>2. /\ \A c \in Positions("CONFIG") : c \in 1..pos
      /\ \A f \in Positions("INTERFACE") : f \in 1..pos
    BY DEF Positions
<1>3. /\ \A k \in 1..pos : ~Open(k, {"CONFIG"})' /\ ~Open(k, Nested)'
      /\ Open(p, {"CONFIG"})'
    BY <1>0, Advance DEF Nested
<1>4. /\ Len(configs) = Ordinal(pos, "CONFIG", 0)
      /\ Ordinal(pos, "CONFIG", 0)' = Len(configs) + 1
      /\ Ordinal(p, "CONFIG", 0)' = Len(configs) + 1
    <2>1. Ordinal(pos, "CONFIG", 0)' = Ordinal(pos, "CONFIG", 0) + 1 BY CountAdvances
    <2>2. Ordinal(pos, "CONFIG", 0)' = Ordinal(p, "CONFIG", 0)' BY <1>0
    <2> QED BY <2>1, <2>2 DEF TreeInv, Counted
<1>5. /\ Len(configs') = Len(configs) + 1 /\ Len(configs) \in Nat
      /\ \A k \in 1..Len(configs) : configs'[k] = configs[k]
      /\ configs'[Len(configs) + 1] = [value |-> dt.value, n |-> dt.n, interfaces |-> <<>>]
    OBVIOUS
<1>6. Counted' BY <1>4, <1>5 DEF Counted
<1>7. Filled'
    <2>1. Len(config'.interfaces) = 0 BY <1>5 DEF config
    <2>2. Ordinal(p, "INTERFACE", p) = 0
        <3>1. \A l \in p + 1 .. p : file[l].type # "INTERFACE" OBVIOUS
        <3> QED BY <3>1, CountIsFinite
    <2>3. Ordinal(pos, "INTERFACE", p)' = 0
        <3>1. \A k, type, from : Ordinal(k, type, from)' = Ordinal(k, type, from) BY Advance
        <3> QED BY <1>0, <2>2, <3>1
    <2> QED BY <1>1, <1>2, <1>3, <2>1, <2>3 DEF Filled
<1>8. Anchored'
    <2>1. \A f, c : Under(f, c, {"CONFIG"})' = Under(f, c, {"CONFIG"}) BY Advance
    <2>2. Anchored BY DEF TreeInv
    <2> QED BY <1>1, <1>2, <1>3, <2>1, <2>2 DEF Anchored
<1>9. ConfigOf(p)'.value = file[p].value /\ ConfigOf(p)'.n = file[p].n
    BY <1>0, <1>4, <1>5 DEF ConfigOf, dt
<1>10. \A c \in Positions("CONFIG") : ConfigOf(c)' = ConfigOf(c)
    <2>1. \A c \in Positions("CONFIG") : Ordinal(c, "CONFIG", 0) \in 1..Len(configs)
        BY WhichConfig DEF TreeInv
    <2>2. \A k, type, from : Ordinal(k, type, from)' = Ordinal(k, type, from) BY Advance
    <2> QED BY <1>5, <2>1, <2>2 DEF ConfigOf
<1>11. ASSUME NEW c \in Positions("CONFIG"), NEW f \in Positions("INTERFACE"),
              Under(f, c, {"CONFIG"})
       PROVE  InterfaceMatches(f, InterfaceOf(f, c))'
    <2>1. InterfaceOf(f, c)' = InterfaceOf(f, c) BY <1>10, Advance DEF InterfaceOf
    <2>2. EndpointsUnder(f)' = EndpointsUnder(f) /\ CcidUnder(f)' = CcidUnder(f)
        BY <1>2, UnderAdvances
    <2>3. \A k : Ordinal(k, "ENDPOINT", f)' = Ordinal(k, "ENDPOINT", f) BY Advance
    <2>4. InterfaceMatches(f, InterfaceOf(f, c)) BY <1>11 DEF TreeInv, TreeSoFar
    <2> QED BY <2>1, <2>2, <2>3, <2>4 DEF InterfaceMatches
<1>12. TreeSoFar'
    <2>1. \A f, c : Under(f, c, {"CONFIG"})' = Under(f, c, {"CONFIG"}) BY Advance
    <2>2. \A c \in Positions("CONFIG") :
              ConfigOf(c)'.value = file[c].value /\ ConfigOf(c)'.n = file[c].n
        BY <1>10 DEF TreeInv, TreeSoFar
    <2>3. \A f \in Positions("INTERFACE") : ~Under(f, p, {"CONFIG"}) BY <1>0, <1>2 DEF Under
    <2> QED BY <1>1, <1>9, <1>11, <2>1, <2>2, <2>3 DEF TreeSoFar
<1> QED BY <1>6, <1>7, <1>8, <1>12 DEF TreeInv

(* An interface goes to the end of the last configuration's. *)
LEMMA TreeInterface ==
    ASSUME TreeInv, pos \in Nat, pos' = pos + 1, file' = file,
           configs \in Seq(ConfigRec), configs # <<>>, dt \in Item, dt.type = "INTERFACE",
           configs' = WithInterfaces(Append(config.interfaces,
                          [value |-> dt.value, n |-> dt.n, class |-> dt.class,
                           ccid |-> 0, endpoints |-> <<>>])),
           interface' = TRUE
    PROVE  TreeInv' /\ configs' \in Seq(ConfigRec) /\ Len(configs') = Len(configs)
<1> DEFINE new == [value |-> dt.value, n |-> dt.n, class |-> dt.class,
                   ccid |-> 0, endpoints |-> <<>>]
<1> DEFINE s == Append(config.interfaces, new)
<1>0. PICK p \in Nat : p = pos + 1 OBVIOUS
<1>1. /\ Positions("CONFIG")' = Positions("CONFIG")
      /\ Positions("INTERFACE")' = Positions("INTERFACE") \cup {p}
    BY <1>0, Advance
<1>2. /\ \A c \in Positions("CONFIG") : c \in 1..pos
      /\ \A f \in Positions("INTERFACE") : f \in 1..pos
    BY DEF Positions
<1>3. /\ \A k \in 1..pos : (Open(k, {"CONFIG"})' <=> Open(k, {"CONFIG"})) /\ ~Open(k, Nested)'
      /\ Open(p, Nested)'
    BY <1>0, Advance DEF Nested
<1>4. config.interfaces \in Seq(InterfaceRec) BY LastConfigTyped
<1>5. new \in InterfaceRec BY DEF Item, InterfaceRec
<1>6. /\ s \in Seq(InterfaceRec) /\ Len(s) = Len(config.interfaces) + 1
      /\ \A m \in 1..Len(config.interfaces) : s[m] = config.interfaces[m]
      /\ s[Len(config.interfaces) + 1] = new
    <2> HIDE DEF new
    <2> QED BY <1>4, <1>5
<1>7. configs' = WithInterfaces(s) OBVIOUS
<1> HIDE DEF s
<1>8. /\ configs' \in Seq(ConfigRec) /\ Len(configs') = Len(configs)
      /\ \A k \in 1..Len(configs) : /\ k # Len(configs) => configs'[k] = configs[k]
                                    /\ configs'[k].value = configs[k].value
                                    /\ configs'[k].n = configs[k].n
      /\ configs'[Len(configs)].interfaces = s
    <2>1. /\ WithInterfaces(s) \in Seq(ConfigRec) /\ Len(WithInterfaces(s)) = Len(configs)
          /\ \A k \in 1..Len(configs) :
               /\ k # Len(configs) => WithInterfaces(s)[k] = configs[k]
               /\ WithInterfaces(s)[k].value = configs[k].value
               /\ WithInterfaces(s)[k].n = configs[k].n
          /\ WithInterfaces(s)[Len(configs)].interfaces = s
        BY <1>6, LastConfigChanged
    <2> QED BY <1>7, <2>1
<1>9. \A k, type, from : Ordinal(k, type, from)' = Ordinal(k, type, from) BY Advance
<1>10. \A f, c, types : Under(f, c, types)' = Under(f, c, types) BY Advance
<1>11. Counted'
    <2>1. Ordinal(pos, "CONFIG", 0)' = Ordinal(pos, "CONFIG", 0) BY CountAdvances
    <2> QED BY <1>8, <2>1 DEF Counted, TreeInv
<1>12. \A c \in 1..pos : Ordinal(pos, "INTERFACE", c)' = Ordinal(pos, "INTERFACE", c) + 1
    BY CountAdvances
<1>13. Filled'
    <2>1. Len(config'.interfaces) = Len(config.interfaces) + 1 BY <1>6, <1>8 DEF config
    <2> QED BY <1>1, <1>2, <1>3, <1>12, <2>1 DEF Filled, TreeInv
<1>14. Anchored'
    <2>1. Anchored BY DEF TreeInv
    <2>2. PICK c \in Positions("CONFIG") : Open(c, {"CONFIG"}) BY <2>1 DEF Anchored
    <2>3. Under(p, c, {"CONFIG"}) BY <1>0, <2>2 DEF Open
    <2> QED BY <1>1, <1>2, <1>3, <1>10, <2>1, <2>2, <2>3 DEF Anchored
<1>15. ASSUME NEW c \in Positions("CONFIG")
       PROVE  /\ ConfigOf(c)'.value = file[c].value /\ ConfigOf(c)'.n = file[c].n
              /\ Open(c, {"CONFIG"}) => ConfigOf(c)'.interfaces = s /\ ConfigOf(c) = config
              /\ ~Open(c, {"CONFIG"}) => ConfigOf(c)' = ConfigOf(c)
    <2>1. /\ Ordinal(c, "CONFIG", 0) \in 1..Len(configs)
          /\ Open(c, {"CONFIG"}) <=> Ordinal(c, "CONFIG", 0) = Len(configs)
          /\ Open(c, {"CONFIG"}) => ConfigOf(c) = config
        BY WhichConfig DEF TreeInv
    <2>2. ConfigOf(c)' = configs'[Ordinal(c, "CONFIG", 0)] BY <1>9 DEF ConfigOf
    <2>3. ConfigOf(c).value = file[c].value /\ ConfigOf(c).n = file[c].n
        BY DEF TreeInv, TreeSoFar
    <2> QED BY <1>8, <2>1, <2>2, <2>3 DEF ConfigOf
<1>16. ASSUME NEW c \in Positions("CONFIG"), NEW f \in Positions("INTERFACE"),
              Under(f, c, {"CONFIG"})
       PROVE  InterfaceMatches(f, InterfaceOf(f, c))'
    <2>1. InterfaceOf(f, c)' = InterfaceOf(f, c)
        <3>1. CASE Open(c, {"CONFIG"})
            <4>1. Ordinal(f, "INTERFACE", c) \in 1..Len(config.interfaces)
                BY <1>16, <3>1, WhichInterface DEF TreeInv
            <4> QED BY <1>6, <1>9, <1>15, <3>1, <4>1 DEF InterfaceOf
        <3>2. CASE ~Open(c, {"CONFIG"}) BY <1>9, <1>15, <3>2 DEF InterfaceOf
        <3> QED BY <3>1, <3>2
    <2>2. EndpointsUnder(f)' = EndpointsUnder(f) /\ CcidUnder(f)' = CcidUnder(f)
        BY <1>2, UnderAdvances
    <2>4. InterfaceMatches(f, InterfaceOf(f, c)) BY <1>16 DEF TreeInv, TreeSoFar
    <2> QED BY <1>9, <2>1, <2>2, <2>4 DEF InterfaceMatches
<1>17. ASSUME NEW c \in Positions("CONFIG"), Under(p, c, {"CONFIG"})
       PROVE  InterfaceMatches(p, InterfaceOf(p, c))'
    <2>1. Open(c, {"CONFIG"}) BY <1>0, <1>17 DEF Open
    <2>2. Ordinal(p, "INTERFACE", c)' = Len(config.interfaces) + 1
        <3>1. Ordinal(pos, "INTERFACE", c)' = Len(config.interfaces) + 1
            BY <1>2, <1>12, <2>1 DEF TreeInv, Filled
        <3>2. Ordinal(pos, "INTERFACE", c)' = Ordinal(p, "INTERFACE", c)' BY <1>0
        <3> QED BY <3>1, <3>2
    <2>3. InterfaceOf(p, c)' = new BY <1>6, <1>15, <2>1, <2>2 DEF InterfaceOf
    <2>4. EndpointsUnder(p)' = {} /\ CcidUnder(p)' = {} BY <1>0, UnderAdvances
    <2>5. Cardinality({}) = 0 BY FS_EmptySet
    <2>6. /\ new.value = file'[p].value /\ new.class = file'[p].class
          /\ new.n = file'[p].n
        BY <1>0 DEF dt
    <2>7. Len(new.endpoints) = 0 /\ new.ccid = 0 OBVIOUS
    <2> HIDE DEF new
    <2> QED BY <2>3, <2>4, <2>5, <2>6, <2>7 DEF InterfaceMatches
<1>18. TreeSoFar' BY <1>1, <1>10, <1>15, <1>16, <1>17 DEF TreeSoFar
<1> QED BY <1>8, <1>11, <1>13, <1>14, <1>18 DEF TreeInv

(* A change of the interface that is open, by a descriptor under it,       *)
(* leaves the tree the file's if the interface still is.                   *)
LEMMA TreeLastInterface ==
    ASSUME TreeInv, pos \in Nat, pos' = pos + 1, file' = file,
           configs \in Seq(ConfigRec), configs # <<>>, config.interfaces # <<>>,
           dt.type \in {"ENDPOINT", "CLASS"},
           NEW x \in InterfaceRec, configs' = WithLastInterface(x), interface' = interface,
           \A f \in Positions("INTERFACE") :
               Open(f, Nested) /\ InterfaceMatches(f, LastInterface) => InterfaceMatches(f, x)'
    PROVE  TreeInv'
<1>1. /\ Positions("CONFIG")' = Positions("CONFIG")
      /\ Positions("INTERFACE")' = Positions("INTERFACE")
    BY Advance
<1>2. /\ \A c \in Positions("CONFIG") : c \in 1..pos
      /\ \A f \in Positions("INTERFACE") : f \in 1..pos
    BY DEF Positions
<1>3. \A k \in 1..pos : /\ Open(k, {"CONFIG"})' <=> Open(k, {"CONFIG"})
                        /\ Open(k, Nested)' <=> Open(k, Nested)
    BY Advance DEF Nested
<1>4. /\ Len(configs') = Len(configs)
      /\ \A k \in 1..Len(configs) : /\ k # Len(configs) => configs'[k] = configs[k]
                                    /\ configs'[k].value = configs[k].value
                                    /\ configs'[k].n = configs[k].n
      /\ Len(configs'[Len(configs)].interfaces) = Len(config.interfaces)
      /\ \A m \in 1..Len(config.interfaces) :
           configs'[Len(configs)].interfaces[m] =
               IF m = Len(config.interfaces) THEN x ELSE config.interfaces[m]
    BY LastInterfaceChanged
<1>9. \A k, type, from : Ordinal(k, type, from)' = Ordinal(k, type, from) BY Advance
<1>10. \A f, c, types : Under(f, c, types)' = Under(f, c, types) BY Advance
<1>11. Counted'
    <2>1. Ordinal(pos, "CONFIG", 0)' = Ordinal(pos, "CONFIG", 0) BY CountAdvances
    <2> QED BY <1>4, <2>1 DEF Counted, TreeInv
<1>12. Filled'
    <2>1. Len(config'.interfaces) = Len(config.interfaces) BY <1>4 DEF config
    <2>2. \A c \in 1..pos : Ordinal(pos, "INTERFACE", c)' = Ordinal(pos, "INTERFACE", c)
        BY CountAdvances
    <2> QED BY <1>1, <1>2, <1>3, <2>1, <2>2 DEF Filled, TreeInv
<1>13. Anchored'
    <2>1. Anchored BY DEF TreeInv
    <2> QED BY <1>1, <1>2, <1>3, <1>10, <2>1 DEF Anchored
<1>14. ASSUME NEW c \in Positions("CONFIG")
       PROVE  /\ ConfigOf(c)'.value = file[c].value /\ ConfigOf(c)'.n = file[c].n
              /\ Open(c, {"CONFIG"}) =>
                   /\ ConfigOf(c) = config
                   /\ \A m \in 1..Len(config.interfaces) :
                        ConfigOf(c)'.interfaces[m] =
                            IF m = Len(config.interfaces) THEN x ELSE config.interfaces[m]
              /\ ~Open(c, {"CONFIG"}) => ConfigOf(c)' = ConfigOf(c)
    <2>1. /\ Ordinal(c, "CONFIG", 0) \in 1..Len(configs)
          /\ Open(c, {"CONFIG"}) <=> Ordinal(c, "CONFIG", 0) = Len(configs)
          /\ Open(c, {"CONFIG"}) => ConfigOf(c) = config
        BY WhichConfig DEF TreeInv
    <2>2. ConfigOf(c)' = configs'[Ordinal(c, "CONFIG", 0)] BY <1>9 DEF ConfigOf
    <2>3. ConfigOf(c).value = file[c].value /\ ConfigOf(c).n = file[c].n
        BY DEF TreeInv, TreeSoFar
    <2> QED BY <1>4, <2>1, <2>2, <2>3 DEF ConfigOf
<1>15. ASSUME NEW c \in Positions("CONFIG"), NEW f \in Positions("INTERFACE"),
              Under(f, c, {"CONFIG"})
       PROVE  InterfaceMatches(f, InterfaceOf(f, c))'
    <2>1. InterfaceMatches(f, InterfaceOf(f, c)) BY <1>15 DEF TreeInv, TreeSoFar
    <2>2. CASE Open(f, Nested)
        <3>1. Open(c, {"CONFIG"}) /\ InterfaceOf(f, c) = LastInterface
            BY <1>15, <2>2, OpenIsLast DEF TreeInv
        <3>2. InterfaceMatches(f, x)' BY <2>1, <2>2, <3>1
        <3>3. Ordinal(f, "INTERFACE", c) = Len(config.interfaces)
              /\ Len(config.interfaces) \in 1..Len(config.interfaces)
            BY <1>15, <2>2, <3>1, WhichInterface DEF TreeInv
        <3>4. InterfaceOf(f, c)' = x BY <1>9, <1>14, <3>1, <3>3 DEF InterfaceOf
        <3> QED BY <3>2, <3>4 DEF InterfaceMatches
    <2>3. CASE ~Open(f, Nested)
        <3>1. InterfaceOf(f, c)' = InterfaceOf(f, c)
            <4>1. CASE Open(c, {"CONFIG"})
                <5>1. /\ Ordinal(f, "INTERFACE", c) \in 1..Len(config.interfaces)
                      /\ Ordinal(f, "INTERFACE", c) # Len(config.interfaces)
                    BY <1>15, <2>3, <4>1, WhichInterface DEF TreeInv
                <5> QED BY <1>9, <1>14, <4>1, <5>1 DEF InterfaceOf
            <4>2. CASE ~Open(c, {"CONFIG"}) BY <1>9, <1>14, <4>2 DEF InterfaceOf
            <4> QED BY <4>1, <4>2
        <3>2. EndpointsUnder(f)' = EndpointsUnder(f) /\ CcidUnder(f)' = CcidUnder(f)
            BY <1>2, <2>3, UnderAdvances
        <3> QED BY <1>9, <2>1, <3>1, <3>2 DEF InterfaceMatches
    <2> QED BY <2>2, <2>3
<1>16. TreeSoFar' BY <1>1, <1>10, <1>14, <1>15 DEF TreeSoFar
<1> QED BY <1>11, <1>12, <1>13, <1>16 DEF TreeInv

LEMMA LastInterfaceTyped ==
    ASSUME configs \in Seq(ConfigRec), configs # <<>>, config.interfaces # <<>>
    PROVE  LastInterface \in InterfaceRec
<1>1. config.interfaces \in Seq(InterfaceRec) BY LastConfigTyped
<1> HIDE DEF InterfaceRec
<1> QED BY <1>1 DEF LastInterface, Last

(* An endpoint goes to the end of the open interface's. *)
LEMMA TreeEndpoint ==
    ASSUME TreeInv, pos \in Nat, pos' = pos + 1, file' = file,
           configs \in Seq(ConfigRec), configs # <<>>, config.interfaces # <<>>,
           dt \in Item, dt.type = "ENDPOINT",
           NEW x, x = [LastInterface EXCEPT
                          !.endpoints = Append(@, [ep |-> dt.ep, value |-> dt.value])],
           configs' = WithLastInterface(x), interface' = interface
    PROVE  TreeInv' /\ x \in InterfaceRec
<1> DEFINE e == [ep |-> dt.ep, value |-> dt.value]
<1> DEFINE n == Len(LastInterface.endpoints)
<1>1. LastInterface \in InterfaceRec BY LastInterfaceTyped
<1>2. e \in [ep : Endpoints, value : 0..255] BY DEF Item
<1>3. LastInterface.endpoints \in Seq([ep : Endpoints, value : 0..255])
    BY <1>1 DEF InterfaceRec
<1>4. /\ x \in InterfaceRec /\ x.endpoints = Append(LastInterface.endpoints, e)
      /\ x.value = LastInterface.value /\ x.class = LastInterface.class
      /\ x.ccid = LastInterface.ccid /\ x.n = LastInterface.n
    <2>1. Append(LastInterface.endpoints, e) \in Seq([ep : Endpoints, value : 0..255])
        BY <1>2, <1>3
    <2> HIDE DEF e
    <2>2. x = [LastInterface EXCEPT !.endpoints = Append(LastInterface.endpoints, e)]
        BY DEF e
    <2> QED BY <1>1, <2>1, <2>2 DEF InterfaceRec
<1>5. /\ Len(x.endpoints) = n + 1 /\ n \in Nat
      /\ \A m \in 1..n : x.endpoints[m] = LastInterface.endpoints[m]
      /\ x.endpoints[n + 1] = e
    <2> HIDE DEF e
    <2> QED BY <1>2, <1>3, <1>4
<1>6. ASSUME NEW f \in Positions("INTERFACE"), Open(f, Nested),
             InterfaceMatches(f, LastInterface)
      PROVE  InterfaceMatches(f, x)'
    <2>0. PICK p \in Nat : p = pos + 1 OBVIOUS
    <2>1. f \in 1..pos BY DEF Positions
    <2>2. /\ EndpointsUnder(f)' = EndpointsUnder(f) \cup {p}
          /\ CcidUnder(f)' = CcidUnder(f)
        BY <1>6, <2>0, <2>1, UnderAdvances
    <2>3. EndpointsUnder(f) = {l \in f + 1 .. pos : file[l].type = "ENDPOINT"}
        BY <1>6, <2>1 DEF EndpointsUnder, Positions, Open, Under, Nested
    <2>4. Ordinal(pos, "ENDPOINT", f) = n BY <1>6, <2>3 DEF Ordinal, InterfaceMatches
    <2>5. IsFiniteSet(EndpointsUnder(f))
        <3>1. IsFiniteSet(f + 1 .. pos)
            <4>1. f + 1 \in Int /\ pos \in Int BY <2>1
            <4> QED BY <4>1, FS_Interval
        <3>2. EndpointsUnder(f) \in SUBSET (f + 1 .. pos) BY <2>3
        <3> QED BY <3>1, <3>2, FS_Subset
    <2>6. p \notin EndpointsUnder(f) BY <2>0, <2>3
    <2>7. Cardinality(EndpointsUnder(f) \cup {p}) = n + 1
        <3>1. Cardinality(EndpointsUnder(f) \cup {p}) = Cardinality(EndpointsUnder(f)) + 1
            BY <2>5, <2>6, FS_AddElement
        <3>2. Cardinality(EndpointsUnder(f)) = n BY <1>6 DEF InterfaceMatches
        <3> QED BY <3>1, <3>2
    <2>8. \A k, type, from : Ordinal(k, type, from)' = Ordinal(k, type, from) BY Advance
    <2>9. Ordinal(p, "ENDPOINT", f)' = n + 1
        <3>1. Ordinal(pos, "ENDPOINT", f)' = n + 1 BY <2>1, <2>4, CountAdvances
        <3> QED BY <2>0, <3>1
    <2>10. ASSUME NEW k \in EndpointsUnder(f) PROVE Ordinal(k, "ENDPOINT", f) \in 1..n
        <3>1. k \in f + 1 .. pos /\ file[k].type = "ENDPOINT" BY <2>3
        <3>2. Ordinal(k, "ENDPOINT", f) <= n
            <4>1. f \in Nat /\ k \in Nat /\ k <= pos BY <2>1, <3>1
            <4>2. Ordinal(k, "ENDPOINT", f) <= Ordinal(pos, "ENDPOINT", f) BY <4>1, CountGrows
            <4> QED BY <2>4, <4>2
        <3>3. k - 1 \in Nat /\ f <= k - 1 /\ f \in Nat /\ (k - 1) + 1 = k BY <2>1, <3>1
        <3>4. Ordinal((k - 1) + 1, "ENDPOINT", f) = Ordinal(k - 1, "ENDPOINT", f) + 1
            BY <3>1, <3>3, CountNext
        <3>5. Ordinal(k - 1, "ENDPOINT", f) \in Nat BY <3>3, CountIsNat
        <3> QED BY <1>5, <3>2, <3>3, <3>4, <3>5
    <2>11. e.value = file[p].value BY <2>0 DEF dt
    <2> HIDE DEF e, n
    <2>12. ASSUME NEW k \in EndpointsUnder(f)
           PROVE  x.endpoints[Ordinal(k, "ENDPOINT", f)].value = file[k].value
        BY <1>5, <1>6, <2>10 DEF InterfaceMatches
    <2>13. \A k \in EndpointsUnder(f) \cup {p} :
               x.endpoints[Ordinal(k, "ENDPOINT", f)'].value = file[k].value
        BY <1>5, <2>8, <2>9, <2>11, <2>12
    <2> QED BY <1>4, <1>5, <1>6, <2>2, <2>7, <2>13 DEF InterfaceMatches
<1>7. TreeInv' BY <1>4, <1>6, TreeLastInterface
<1> QED BY <1>4, <1>7

(* The open interface gets the class-specific descriptor it can read. *)
LEMMA TreeCcid ==
    ASSUME TreeInv, pos \in Nat, pos' = pos + 1, file' = file,
           configs \in Seq(ConfigRec), configs # <<>>, config.interfaces # <<>>,
           dt.type = "CLASS", LastInterface.class = "ccid",
           NEW x, x = [LastInterface EXCEPT !.ccid = pos + 1],
           configs' = WithLastInterface(x), interface' = interface
    PROVE  TreeInv' /\ x \in InterfaceRec
<1>1. LastInterface \in InterfaceRec BY LastInterfaceTyped
<1>2. /\ x \in InterfaceRec /\ x.endpoints = LastInterface.endpoints
      /\ x.value = LastInterface.value /\ x.class = LastInterface.class
      /\ x.ccid = pos + 1 /\ x.n = LastInterface.n
    <2>1. pos + 1 \in Nat OBVIOUS
    <2> DEFINE E == Seq([ep : Endpoints, value : 0..255])
    <2>2. LastInterface \in [value : 0..255, n : 0..255, class : Classes, ccid : Nat, endpoints : E]
        BY <1>1 DEF InterfaceRec
    <2> HIDE DEF E
    <2>3. x \in [value : 0..255, n : 0..255, class : Classes, ccid : Nat, endpoints : E]
        BY <2>1, <2>2
    <2>4. x \in InterfaceRec BY <2>3 DEF InterfaceRec, E
    <2> QED BY <2>1, <2>2, <2>4
<1>3. ASSUME NEW f \in Positions("INTERFACE"), Open(f, Nested),
             InterfaceMatches(f, LastInterface)
      PROVE  InterfaceMatches(f, x)'
    <2>0. PICK p \in Nat : p = pos + 1 OBVIOUS
    <2>1. f \in 1..pos BY DEF Positions
    <2>2. /\ EndpointsUnder(f)' = EndpointsUnder(f)
          /\ CcidUnder(f)' = CcidUnder(f) \cup {p}
        BY <1>3, <2>0, <2>1, UnderAdvances
    <2>3. \A k, type, from : Ordinal(k, type, from)' = Ordinal(k, type, from) BY Advance
    <2>4. \A k \in CcidUnder(f) : k \in 1..pos BY DEF CcidUnder, Positions
    <2>5. \A k \in CcidUnder(f) \cup {p} : k <= p BY <2>0, <2>4
    <2> QED BY <1>2, <1>3, <2>0, <2>2, <2>3, <2>5 DEF InterfaceMatches
<1>4. TreeInv' BY <1>2, <1>3, TreeLastInterface
<1> QED BY <1>2, <1>4

-------------------------------------------------------------------------------
(* What the endpoints of an interface are set to *)

(* uusb_set_endpoints() finds an endpoint of the interface, or none. *)
LEMMA LastOfFound ==
    ASSUME Interface \in InterfaceRec, NEW ep
    PROVE  /\ LastOf(ep) \in -1..255
           /\ LastOf(ep) >= 0 =>
                \E e \in Range(Interface.endpoints) : e.ep = ep /\ e.value = LastOf(ep)
<1> DEFINE eps == Interface.endpoints
<1> DEFINE S == {k \in DOMAIN eps : eps[k].ep = ep}
<1>1. eps \in Seq([ep : Endpoints, value : 0..255]) BY DEF InterfaceRec
<1>2. S = IndicesOf(ep) BY DEF IndicesOf
<1>3. CASE S = {} BY <1>2, <1>3 DEF LastOf
<1>4. CASE S # {}
    <2>1. Len(eps) \in Nat /\ S \in SUBSET (1..Len(eps)) BY <1>1
    <2>2. \E k \in S : \A l \in S : l <= k
        <3> HIDE DEF S, eps
        <3> QED BY <1>4, <2>1, LastExists
    <2>3. PICK k \in S : LastOf(ep) = eps[k].value
        <3>1. LastOf(ep) = eps[CHOOSE k \in S : \A l \in S : l <= k].value
            BY <1>2, <1>4 DEF LastOf
        <3>2. (CHOOSE k \in S : \A l \in S : l <= k) \in S BY <2>2
        <3> HIDE DEF S
        <3> QED BY <3>1, <3>2
    <2>4. k \in DOMAIN eps /\ eps[k].ep = ep OBVIOUS
    <2>5. eps[k].value \in 0..255
        <3> DEFINE E == [ep : Endpoints, value : 0..255]
        <3>1. eps \in Seq(E) /\ k \in DOMAIN eps BY <1>1, <2>4
        <3>2. eps[k] \in E
            <4> HIDE DEF E, eps, S
            <4> QED BY <3>1
        <3> QED BY <3>2
    <2>6. eps[k] \in Range(eps) BY <2>4 DEF Range
    <2> QED BY <2>3, <2>4, <2>5, <2>6
<1> QED BY <1>3, <1>4

LEMMA TryingFacts ==
    ASSUME TypeOK, Trying
    PROVE  /\ i \in 1..Len(configs) /\ Len(configs) \in Nat
           /\ configs[i] \in ConfigRec
           /\ j \in 1..Len(configs[i].interfaces)
           /\ Interface \in InterfaceRec /\ Interface.value \in 0..255
           /\ configs[i].value \in 0..255
           /\ EndpointsFound \in [ep_i : -1..255, ep_o : -1..255]
<1>1. configs \in Seq(ConfigRec) BY DEF TypeOK, ConfigRec
<1>2. i \in 1..Len(configs) /\ Len(configs) \in Nat BY <1>1 DEF TypeOK, Trying
<1>3. configs[i] \in ConfigRec BY <1>1, <1>2
<1>4. configs[i].interfaces \in Seq(InterfaceRec) /\ configs[i].value \in 0..255
    BY <1>3 DEF ConfigRec
<1>5. j \in 1..Len(configs[i].interfaces) BY <1>4 DEF TypeOK, Trying
<1>6. Interface \in InterfaceRec
    <2> HIDE DEF InterfaceRec
    <2> QED BY <1>4, <1>5 DEF Interface
<1>7. Interface.value \in 0..255 BY <1>6 DEF InterfaceRec
<1>8. LastOf("bulk in") \in -1..255 /\ LastOf("bulk out") \in -1..255 BY <1>6, LastOfFound
<1>9. EndpointsFound \in [ep_i : -1..255, ep_o : -1..255] BY <1>8 DEF EndpointsFound
<1> QED BY <1>2, <1>3, <1>4, <1>5, <1>6, <1>7, <1>9

-------------------------------------------------------------------------------
(* Only a CCID interface has a CCID descriptor. *)
CcidOnly ==
    \A k \in 1..Len(configs) : \A m \in 1..Len(configs[k].interfaces) :
        configs[k].interfaces[m].ccid # 0 => configs[k].interfaces[m].class = "ccid"

(* When parsing has returned, what it left is too short for a configuration. *)
AllRead ==
    pc \in {"select", "ok"} => \A k \in pos + 1 .. Len(file) : file[k].len <= 3

(* Until uusb_select_interface() sets one, the kernel runs a configuration *)
(* of the file.                                                            *)
Running ==
    pc = "parse" \/ declared <= 1 =>
        \E k \in DOMAIN file : Runnable(file[k]) /\ active = file[k].value

IInv ==
    /\ file \in Files /\ TypeOK /\ TreeInv
    /\ CcidOnly /\ AllRead /\ Running /\ SelectedIsUsable /\ ArraysSuffice

LEMMA InitIInv == Init => IInv
<1> SUFFICES ASSUME Init PROVE IInv OBVIOUS
<1>1. file \in Seq(Item) BY FilesAssumption DEF Init
<1>2. PICK k \in DOMAIN file : Runnable(file[k]) /\ active = file[k].value BY DEF Init
<1>3. active \in 0..255
    <2>1. file[k] \in Item
        <3> HIDE DEF Item
        <3> QED BY <1>1, <1>2
    <2> QED BY <1>2, <2>1 DEF Item
<1>4. TypeOK
    <2>1. Len(file) \in Nat BY <1>1
    <2>2. endpoints \in [ep_i : -1..255, ep_o : -1..255] BY DEF Init, NoEndpoints
    <2>3. MaxConfigs \in Nat BY ArraysAssumption
    <2>4. configs \in Seq(ConfigRec) /\ Len(configs) = 0 BY DEF Init
    <2>5. i \in 1..(Len(configs) + 1) /\ j \in Nat \ {0} BY <2>4 DEF Init
    <2>6. pos \in 0..Len(file) /\ declared \in 0..MaxConfigs BY <2>1, <2>3 DEF Init
    <2>7. cut \in 0..1 /\ interface = FALSE /\ pc = "parse" /\ claimed = {} BY DEF Init
    <2> QED BY <1>3, <2>2, <2>4, <2>5, <2>6, <2>7 DEF TypeOK, ConfigRec
<1>5. TreeInv
    <2>1. \A type : Positions(type) = {} BY DEF Init, Positions
    <2>2. Ordinal(pos, "CONFIG", 0) = 0
        <3>1. \A l \in 0 + 1 .. pos : file[l].type # "CONFIG" BY DEF Init
        <3>2. pos \in Nat BY DEF Init
        <3> QED BY <3>1, <3>2, CountIsFinite
    <2> QED BY <2>1, <2>2 DEF Init, TreeInv, Counted, Filled, Anchored, TreeSoFar
<1>6. CcidOnly /\ AllRead /\ Running /\ SelectedIsUsable /\ ArraysSuffice
    BY <1>2 DEF Init, CcidOnly, AllRead, Running, SelectedIsUsable, ArraysSuffice
<1> QED BY <1>4, <1>5, <1>6 DEF Init, IInv

(* What leaves the parser alone leaves the tree alone. *)
LEMMA TreeStays ==
    ASSUME TreeInv, CcidOnly, UNCHANGED <<file, parseVars>>
    PROVE  TreeInv' /\ CcidOnly'
<1>1. file' = file /\ pos' = pos /\ configs' = configs /\ interface' = interface
    BY DEF parseVars
<1>2. \A type : Positions(type)' = Positions(type) BY <1>1 DEF Positions
<1>3. \A k, c, types : Under(k, c, types)' = Under(k, c, types) BY <1>1 DEF Under
<1>4. \A k, types : Open(k, types)' = Open(k, types) BY <1>1 DEF Open, Under
<1>5. \A k, type, from : Ordinal(k, type, from)' = Ordinal(k, type, from) BY <1>1 DEF Ordinal
<1>6. \A f : EndpointsUnder(f)' = EndpointsUnder(f) /\ CcidUnder(f)' = CcidUnder(f)
    BY <1>2, <1>3 DEF EndpointsUnder, CcidUnder
<1>7. \A f, c : /\ ConfigOf(c)' = ConfigOf(c) /\ InterfaceOf(f, c)' = InterfaceOf(f, c)
    BY <1>1, <1>5 DEF ConfigOf, InterfaceOf
<1>8. Counted' BY <1>1, <1>5 DEF TreeInv, Counted
<1>9. Filled' BY <1>1, <1>2, <1>4, <1>5 DEF TreeInv, Filled, config
<1>10. Anchored' BY <1>1, <1>2, <1>3, <1>4 DEF TreeInv, Anchored
<1>11. ASSUME NEW f, NEW c, InterfaceMatches(f, InterfaceOf(f, c))
       PROVE  InterfaceMatches(f, InterfaceOf(f, c))'
    BY <1>1, <1>5, <1>6, <1>7, <1>11 DEF InterfaceMatches
<1>12. TreeSoFar'
    BY <1>1, <1>2, <1>3, <1>7, <1>11 DEF TreeInv, TreeSoFar
<1>13. CcidOnly' BY <1>1 DEF CcidOnly
<1> QED BY <1>8, <1>9, <1>10, <1>12, <1>13 DEF TreeInv

LEMMA StutterIInv == IInv /\ UNCHANGED vars => IInv'
<1> SUFFICES ASSUME IInv, UNCHANGED vars PROVE IInv' OBVIOUS
<1>1. /\ file' = file /\ cut' = cut /\ pc' = pc /\ pos' = pos /\ declared' = declared
      /\ configs' = configs /\ interface' = interface
      /\ i' = i /\ j' = j /\ endpoints' = endpoints
      /\ active' = active /\ claimed' = claimed
    BY DEF vars, parseVars, selectVars
<1>2. TreeInv' /\ CcidOnly' BY <1>1, TreeStays DEF IInv, parseVars
<1>3. TypeOK' BY <1>1 DEF IInv, TypeOK, config
<1>4. AllRead' /\ Running' BY <1>1 DEF IInv, AllRead, Running, Runnable
<1>5. SelectedIsUsable' BY <1>1 DEF IInv, SelectedIsUsable, Interface
<1>6. ArraysSuffice' BY <1>1 DEF IInv, ArraysSuffice, Ordinal, Positions, Under
<1> QED BY <1>1, <1>2, <1>3, <1>4, <1>5, <1>6 DEF IInv

(* A descriptor that is parsed: the file, the phase and what selection     *)
(* works on stay.                                                          *)
Parsed ==
    /\ pos \in Nat /\ pos' = pos + 1 /\ pos' <= Len(file') /\ file' = file
    /\ pc = "parse" /\ pc' = "parse"
    /\ cut' = cut /\ i' = i /\ j' = j /\ endpoints' = endpoints
    /\ active' = active /\ claimed' = claimed

LEMMA ParseFacts ==
    ASSUME IInv, NEW At, Parse(At), dt.len # 0
    PROVE  /\ Parsed /\ At
           /\ pos \in Nat /\ pos' = pos + 1 /\ file' = file /\ dt \in Item
           /\ configs \in Seq(ConfigRec) /\ Len(configs) \in Nat
<1>1. Parsing /\ At /\ pos' = pos + 1 /\ UNCHANGED <<file, cut, pc, selectVars>>
    BY DEF Parse, NextPos
<1>2. pc = "parse" BY <1>1 DEF Parsing
<1>3. /\ pos \in Nat /\ pos + 1 \in 1..Len(file) /\ dt \in Item
      /\ configs \in Seq(ConfigRec) /\ Len(configs) \in Nat
    BY <1>1, FileFacts DEF IInv
<1>4. Parsed BY <1>1, <1>2, <1>3 DEF selectVars, Parsed
<1> QED BY <1>1, <1>3, <1>4

(* Whoever has a parser refuses the length 0. *)
LEMMA LongIsThere ==
    AtDevice \/ AtConfig \/ AtInterface \/ AtEndpoint \/ (AtOther /\ Handled) => dt.len # 0
<1>1. ASSUME LongEnough, dt.type \in Types PROVE dt.len # 0
    <2>1. Needs[dt.type] \in 1..54 BY <1>1 DEF Types, Needs
    <2>2. dt.len # 0 \/ ~(dt.len >= Needs[dt.type]) BY <2>1
    <2> QED BY <1>1, <2>2 DEF LongEnough
<1>2. AtDevice => LongEnough /\ dt.type \in Types BY DEF AtDevice, Types
<1>3. AtConfig => LongEnough /\ dt.type \in Types BY DEF AtConfig, ConfigComes, Types
<1>4. AtInterface => LongEnough /\ dt.type \in Types BY DEF AtInterface, InterfaceComes, Types
<1>5. AtEndpoint => LongEnough /\ dt.type \in Types BY DEF AtEndpoint, EndpointComes, Types
<1>6. AtOther /\ Handled => LongEnough /\ dt.type \in Types BY DEF AtOther, Types
<1> QED BY <1>1, <1>2, <1>3, <1>4, <1>5, <1>6

(* So it keeps the invariant if it keeps what it may change. *)
LEMMA ParseKeeps ==
    ASSUME IInv, Parsed,
           TreeInv', CcidOnly',
           declared' \in 0..MaxConfigs,
           configs' \in Seq(ConfigRec), Len(configs') >= Len(configs),
           interface' \in BOOLEAN,
           interface' => configs' # <<>> /\ config'.interfaces # <<>>
    PROVE  IInv'
<1>1. /\ pos \in Nat /\ pos' = pos + 1 /\ pos' <= Len(file') /\ file' = file
      /\ pc = "parse" /\ pc' = "parse"
      /\ cut' = cut /\ i' = i /\ j' = j /\ endpoints' = endpoints
      /\ active' = active /\ claimed' = claimed
    BY DEF Parsed
<1>2. Len(configs') \in Nat /\ Len(file) \in Nat BY <1>1, FileFacts DEF IInv
<1>3. pos' \in 0..Len(file)' BY <1>1, <1>2
<1>4. i' \in 1..(Len(configs)' + 1) BY <1>1, <1>2 DEF IInv, TypeOK
<1>5. TypeOK'
    <2>1. /\ cut \in 0..1 /\ j \in Nat \ {0} /\ endpoints \in [ep_i : -1..255, ep_o : -1..255]
          /\ active \in 0..255 /\ claimed \subseteq 0..255
        BY DEF IInv, TypeOK
    <2> QED BY <1>1, <1>3, <1>4, <2>1 DEF TypeOK, ConfigRec
<1>6. Running'
    <2>1. \E k \in DOMAIN file : Runnable(file[k]) /\ active = file[k].value
        BY <1>1 DEF IInv, Running
    <2> QED BY <1>1, <2>1 DEF Running, Runnable
<1>7. AllRead' /\ SelectedIsUsable' /\ ArraysSuffice'
    BY <1>1 DEF AllRead, SelectedIsUsable, ArraysSuffice
<1>8. file' \in Files BY <1>1 DEF IInv
<1> QED BY <1>5, <1>6, <1>7, <1>8 DEF IInv

LEMMA ParseDeviceIInv == IInv /\ ParseDevice => IInv'
<1> SUFFICES ASSUME IInv, ParseDevice PROVE IInv' OBVIOUS
<1>1. Parse(AtDevice) /\ declared' = dt.n /\ configs' = configs /\ interface' = interface
    BY DEF ParseDevice
<1>0. dt.len # 0 BY <1>1, LongIsThere DEF Parse
<1>2. /\ pos \in Nat /\ pos' = pos + 1 /\ file' = file /\ AtDevice /\ Parsed
      /\ configs \in Seq(ConfigRec) /\ Len(configs) \in Nat
    BY <1>0, <1>1, ParseFacts
<1>3. dt.type = "DEVICE" /\ dt.n \in 1..MaxConfigs BY <1>2 DEF AtDevice
<1>4. TreeInv' BY <1>1, <1>2, <1>3, TreeQuiet DEF IInv
<1>5. CcidOnly' BY <1>1 DEF IInv, CcidOnly
<1>6. declared' \in 0..MaxConfigs BY <1>1, <1>3, ArraysAssumption
<1>7. interface \in BOOLEAN /\ (interface => configs # <<>> /\ config.interfaces # <<>>)
    BY DEF IInv, TypeOK
<1>8. config' = config BY <1>1 DEF config
<1> QED BY <1>1, <1>2, <1>4, <1>5, <1>6, <1>7, <1>8, ParseKeeps

LEMMA ParseConfigIInv == IInv /\ ParseConfig => IInv'
<1> SUFFICES ASSUME IInv, ParseConfig PROVE IInv' OBVIOUS
<1> DEFINE new == [value |-> dt.value, n |-> dt.n, interfaces |-> <<>>]
<1>1. /\ Parse(AtConfig) /\ declared' = declared
      /\ configs' = Append(configs, new) /\ interface' = FALSE
    BY DEF ParseConfig, InterfaceAfterConfig
<1>0. dt.len # 0 BY <1>1, LongIsThere DEF Parse
<1>2. /\ pos \in Nat /\ pos' = pos + 1 /\ file' = file /\ AtConfig /\ dt \in Item /\ Parsed
      /\ configs \in Seq(ConfigRec) /\ Len(configs) \in Nat
    BY <1>0, <1>1, ParseFacts
<1>3. TreeInv'
    <2>1. dt.type = "CONFIG" BY <1>2 DEF AtConfig, ConfigComes
    <2> QED BY <1>1, <1>2, <2>1, TreeConfig DEF IInv
<1>4. new \in ConfigRec
    <2>1. <<>> \in Seq(InterfaceRec) OBVIOUS
    <2> QED BY <1>2, <2>1 DEF Item, ConfigRec
<1>5. /\ configs' \in Seq(ConfigRec) /\ Len(configs') = Len(configs) + 1
      /\ \A k \in 1..Len(configs) : configs'[k] = configs[k]
      /\ configs'[Len(configs) + 1] = new
    <2> HIDE DEF new, ConfigRec
    <2> QED BY <1>1, <1>2, <1>4
<1>6. CcidOnly'
    <2>1. Len(configs'[Len(configs) + 1].interfaces) = 0 BY <1>5
    <2>2. CcidOnly BY DEF IInv
    <2> HIDE DEF new
    <2> QED BY <1>2, <1>5, <2>1, <2>2 DEF CcidOnly
<1>7. declared' \in 0..MaxConfigs BY <1>1 DEF IInv, TypeOK
<1>8. Len(configs') >= Len(configs) BY <1>2, <1>5
<1>9. interface' \in BOOLEAN /\ ~interface' BY <1>1
<1> QED BY <1>2, <1>3, <1>5, <1>6, <1>7, <1>8, <1>9, ParseKeeps

LEMMA ParseInterfaceIInv == IInv /\ ParseInterface => IInv'
<1> SUFFICES ASSUME IInv, ParseInterface PROVE IInv' OBVIOUS
<1> DEFINE new == [value |-> dt.value, n |-> dt.n, class |-> dt.class,
                   ccid |-> 0, endpoints |-> <<>>]
<1> DEFINE s == Append(config.interfaces, new)
<1>1. /\ Parse(AtInterface) /\ declared' = declared
      /\ configs' = WithInterfaces(s) /\ interface' = TRUE
    BY DEF ParseInterface
<1>0. dt.len # 0 BY <1>1, LongIsThere DEF Parse
<1>2. /\ pos \in Nat /\ pos' = pos + 1 /\ file' = file /\ AtInterface /\ dt \in Item /\ Parsed
      /\ configs \in Seq(ConfigRec) /\ Len(configs) \in Nat
    BY <1>0, <1>1, ParseFacts
<1>3. dt.type = "INTERFACE" /\ configs # <<>> BY <1>2 DEF AtInterface, InterfaceComes
<1>4. TreeInv' /\ configs' \in Seq(ConfigRec) /\ Len(configs') = Len(configs)
    BY <1>1, <1>2, <1>3, TreeInterface DEF IInv
<1>5. config.interfaces \in Seq(InterfaceRec) BY <1>2, <1>3, LastConfigTyped
<1>6. new \in InterfaceRec BY <1>2 DEF Item, InterfaceRec
<1>7. new.ccid = 0 OBVIOUS
<1>8. /\ s \in Seq(InterfaceRec) /\ s # <<>>
      /\ \A m \in 1..Len(s) :
           (m \in 1..Len(config.interfaces) /\ s[m] = config.interfaces[m]) \/ s[m] = new
    <2> HIDE DEF new
    <2> DEFINE c == Len(config.interfaces)
    <2>1. s \in Seq(InterfaceRec) /\ c \in Nat /\ Len(s) = c + 1 BY <1>5, <1>6
    <2>2. (\A m \in 1..c : s[m] = config.interfaces[m]) /\ s[c + 1] = new BY <1>5, <1>6
    <2> HIDE DEF s, c
    <2>3. s # <<>> BY <2>1
    <2>4. \A m \in 1..Len(s) : (m \in 1..c /\ s[m] = config.interfaces[m]) \/ s[m] = new
        BY <2>1, <2>2
    <2> QED BY <2>1, <2>3, <2>4 DEF c
<1> HIDE DEF new, s
<1>9. /\ \A k \in 1..Len(configs) : k # Len(configs) => configs'[k] = configs[k]
      /\ configs'[Len(configs)].interfaces = s
    BY <1>1, <1>2, <1>3, <1>8, LastConfigChanged
<1>10. CcidOnly'
    <2>1. CcidOnly BY DEF IInv
    <2>2. \A m \in 1..Len(s) : s[m].ccid # 0 => s[m].class = "ccid"
        <3>1. Len(configs) \in 1..Len(configs) BY <1>2, <1>3
        <3>2. \A m \in 1..Len(config.interfaces) :
                  config.interfaces[m].ccid # 0 => config.interfaces[m].class = "ccid"
            BY <2>1, <3>1 DEF CcidOnly, config
        <3> QED BY <1>7, <1>8, <3>2
    <2>3. ASSUME NEW k \in 1..Len(configs), NEW m \in 1..Len(configs'[k].interfaces)
          PROVE  configs'[k].interfaces[m].ccid # 0 => configs'[k].interfaces[m].class = "ccid"
        <3>1. CASE k = Len(configs) BY <1>9, <2>2, <3>1
        <3>2. CASE k # Len(configs) BY <1>9, <2>1, <3>2 DEF CcidOnly
        <3> QED BY <3>1, <3>2
    <2> QED BY <1>4, <2>3 DEF CcidOnly
<1>11. configs' # <<>> /\ config'.interfaces # <<>>
    <2>1. Len(configs) # 0 BY <1>2, <1>3
    <2>2. configs' # <<>> BY <1>4, <2>1
    <2>3. config' = configs'[Len(configs)] BY <1>4 DEF config
    <2> QED BY <1>8, <1>9, <2>2, <2>3
<1>12. declared' \in 0..MaxConfigs BY <1>1 DEF IInv, TypeOK
<1>13. Len(configs') >= Len(configs) BY <1>2, <1>4
<1>14. interface' \in BOOLEAN BY <1>1
<1> QED BY <1>2, <1>4, <1>10, <1>11, <1>12, <1>13, <1>14, ParseKeeps

(* The two descriptors that change the open interface *)
LEMMA LastInterfaceIInv ==
    ASSUME IInv, Parsed, TreeInv', declared' = declared, interface' = interface, interface,
           NEW x \in InterfaceRec, configs' = WithLastInterface(x),
           x.ccid # 0 => x.class = "ccid"
    PROVE  IInv'
<1>1. /\ configs \in Seq(ConfigRec) /\ Len(configs) \in Nat
      /\ configs # <<>> /\ config.interfaces # <<>>
      /\ interface \in BOOLEAN /\ declared \in 0..MaxConfigs
    BY FileFacts DEF IInv, TypeOK
<1>2. /\ configs' \in Seq(ConfigRec) /\ Len(configs') = Len(configs)
      /\ \A k \in 1..Len(configs) : k # Len(configs) => configs'[k] = configs[k]
      /\ configs'[Len(configs)].interfaces # <<>>
      /\ Len(configs'[Len(configs)].interfaces) = Len(config.interfaces)
      /\ \A m \in 1..Len(config.interfaces) :
           configs'[Len(configs)].interfaces[m] =
               IF m = Len(config.interfaces) THEN x ELSE config.interfaces[m]
    BY <1>1, LastInterfaceChanged
<1>3. CcidOnly'
    <2>1. CcidOnly BY DEF IInv
    <2>2. Len(configs) \in 1..Len(configs) BY <1>1
    <2>3. \A m \in 1..Len(config.interfaces) :
              config.interfaces[m].ccid # 0 => config.interfaces[m].class = "ccid"
        BY <2>1, <2>2 DEF CcidOnly, config
    <2>4. ASSUME NEW k \in 1..Len(configs), NEW m \in 1..Len(configs'[k].interfaces)
          PROVE  configs'[k].interfaces[m].ccid # 0 => configs'[k].interfaces[m].class = "ccid"
        <3>1. CASE k = Len(configs) BY <1>2, <2>3, <3>1
        <3>2. CASE k # Len(configs) BY <1>2, <2>1, <3>2 DEF CcidOnly
        <3> QED BY <3>1, <3>2
    <2> QED BY <1>2, <2>4 DEF CcidOnly
<1>4. configs' # <<>> /\ config'.interfaces # <<>>
    <2>1. Len(configs) # 0 BY <1>1
    <2>2. configs' # <<>> BY <1>2, <2>1
    <2>3. config' = configs'[Len(configs)] BY <1>2 DEF config
    <2> QED BY <1>2, <2>2, <2>3
<1>5. Len(configs') >= Len(configs) BY <1>1, <1>2
<1> QED BY <1>1, <1>2, <1>3, <1>4, <1>5, ParseKeeps

LEMMA ParseEndpointIInv == IInv /\ ParseEndpoint => IInv'
<1> SUFFICES ASSUME IInv, ParseEndpoint PROVE IInv' OBVIOUS
<1>1. PICK x : x = [LastInterface EXCEPT
                       !.endpoints = Append(@, [ep |-> dt.ep, value |-> dt.value])]
    OBVIOUS
<1>2. /\ Parse(AtEndpoint) /\ declared' = declared /\ interface' = interface
      /\ configs' = WithLastInterface(x)
    BY <1>1 DEF ParseEndpoint
<1>0. dt.len # 0 BY <1>2, LongIsThere DEF Parse
<1>3. /\ pos \in Nat /\ pos' = pos + 1 /\ file' = file /\ AtEndpoint /\ dt \in Item /\ Parsed
      /\ configs \in Seq(ConfigRec) /\ Len(configs) \in Nat
    BY <1>0, <1>2, ParseFacts
<1>4. dt.type = "ENDPOINT" /\ interface BY <1>3 DEF AtEndpoint, EndpointComes
<1>5. configs # <<>> /\ config.interfaces # <<>> BY <1>4 DEF IInv, TypeOK
<1>6. TreeInv' /\ x \in InterfaceRec BY <1>1, <1>2, <1>3, <1>4, <1>5, TreeEndpoint DEF IInv
<1>7. x.ccid # 0 => x.class = "ccid"
    <2>1. Len(configs) \in 1..Len(configs) BY <1>3, <1>5
    <2>2. config.interfaces \in Seq(InterfaceRec) BY <1>3, <1>5, LastConfigTyped
    <2>3. Len(config.interfaces) \in 1..Len(config.interfaces)
        <3> HIDE DEF InterfaceRec
        <3> QED BY <1>5, <2>2
    <2>4. LastInterface.ccid # 0 => LastInterface.class = "ccid"
        BY <2>1, <2>3 DEF IInv, CcidOnly, LastInterface, Last, config
    <2>5. LastInterface \in InterfaceRec BY <1>3, <1>5, LastInterfaceTyped
    <2>6. x.ccid = LastInterface.ccid /\ x.class = LastInterface.class
        BY <1>1, <2>5 DEF InterfaceRec
    <2> QED BY <2>4, <2>6
<1> QED BY <1>2, <1>3, <1>4, <1>6, <1>7, LastInterfaceIInv

LEMMA ParseOtherIInv == IInv /\ ParseOther => IInv'
<1> SUFFICES ASSUME IInv, ParseOther PROVE IInv' OBVIOUS
<1>1. /\ Parse(AtOther) /\ declared' = declared /\ interface' = interface
      /\ configs' = IF Handled THEN WithLastInterface([LastInterface EXCEPT !.ccid = pos + 1])
                               ELSE configs
    BY DEF ParseOther
<1>0. CASE dt.len = 0
    <2>1. ~Handled BY <1>0, <1>1, LongIsThere DEF Parse
    <2>2. UNCHANGED vars
        <3>1. pos' = pos /\ UNCHANGED <<file, cut, pc, selectVars>>
            BY <1>0, <1>1 DEF Parse, NextPos
        <3> QED BY <1>1, <2>1, <3>1 DEF vars, parseVars
    <2> QED BY <2>2, StutterIInv
<1> SUFFICES ASSUME dt.len # 0 PROVE IInv' BY <1>0
<1>2. /\ pos \in Nat /\ pos' = pos + 1 /\ file' = file /\ AtOther /\ Parsed
      /\ configs \in Seq(ConfigRec) /\ Len(configs) \in Nat
    BY <1>1, ParseFacts
<1>3. dt.type = "CLASS" BY <1>2 DEF AtOther
<1>4. /\ interface \in BOOLEAN /\ declared \in 0..MaxConfigs
      /\ interface => configs # <<>> /\ config.interfaces # <<>>
    BY DEF IInv, TypeOK
<1>5. CASE Handled
    <2>1. PICK x : x = [LastInterface EXCEPT !.ccid = pos + 1] OBVIOUS
    <2>2. configs' = WithLastInterface(x) BY <1>1, <1>5, <2>1
    <2>3. interface /\ LastInterface.class = "ccid" BY <1>5 DEF Handled, HasHandler
    <2>4. TreeInv' /\ x \in InterfaceRec
        BY <1>1, <1>2, <1>3, <1>4, <2>1, <2>2, <2>3, TreeCcid DEF IInv
    <2>5. x.class = "ccid"
        <3>1. LastInterface \in InterfaceRec BY <1>2, <1>4, <2>3, LastInterfaceTyped
        <3> QED BY <2>1, <2>3, <3>1 DEF InterfaceRec
    <2> QED BY <1>1, <1>2, <2>2, <2>3, <2>4, <2>5, LastInterfaceIInv
<1>6. CASE ~Handled
    <2>1. configs' = configs BY <1>1, <1>6
    <2>2. TreeInv' BY <1>1, <1>2, <1>3, <1>6, <2>1, TreeQuiet DEF IInv
    <2>3. CcidOnly' BY <2>1 DEF IInv, CcidOnly
    <2>4. config' = config BY <2>1 DEF config
    <2> QED BY <1>1, <1>2, <1>4, <2>1, <2>2, <2>3, <2>4, ParseKeeps
<1> QED BY <1>5, <1>6

-------------------------------------------------------------------------------
(* The other steps of the parser *)

(* What is left when the loop ends is shorter than a configuration. *)
LEMMA ParseReturnsIInv == IInv /\ ParseReturns => IInv'
<1> SUFFICES ASSUME IInv, ParseReturns PROVE IInv' OBVIOUS
<1>1. /\ pc = "parse" /\ ~Parsing /\ pc' = "select"
      /\ UNCHANGED <<file, cut, parseVars, selectVars>>
    BY DEF ParseReturns
<1>2. /\ file' = file /\ cut' = cut /\ pos' = pos /\ declared' = declared
      /\ configs' = configs /\ interface' = interface
      /\ i' = i /\ j' = j /\ endpoints' = endpoints /\ active' = active /\ claimed' = claimed
    BY <1>1 DEF parseVars, selectVars
<1>3. TreeInv' /\ CcidOnly' BY <1>1, TreeStays DEF IInv
<1>4. TypeOK' BY <1>1, <1>2 DEF IInv, TypeOK, config
<1>5. AllRead'
    <2>1. file \in Seq(Item) /\ Len(file) \in Nat /\ DOMAIN file = 1..Len(file) /\ pos \in Nat
        BY FileFacts DEF IInv
    <2>2. ASSUME NEW k \in pos + 1 .. Len(file) PROVE file[k].len <= 3
        <3> DEFINE n == Len(file)
        <3>1. /\ k \in 1..n /\ n \in 1..n /\ pos + 1 \in 1..n /\ pos + 1 <= k BY <2>1
        <3>2. \A m \in 1..n : file[m] \in Item
            <4> HIDE DEF Item
            <4> QED BY <2>1
        <3>3. \A m \in 1..n : file[m].at \in Nat /\ file[m].len \in 0..255
            BY <3>2 DEF Item
        <3>4. PICK at \in Nat, len \in 0..255 : at = file[pos + 1].at /\ len = file[pos + 1].len
            BY <3>1, <3>3
        <3>5. PICK atK \in Nat, lenK \in 0..255 : atK = file[k].at /\ lenK = file[k].len
            BY <3>1, <3>3
        <3>6. PICK atN \in Nat, lenN \in 0..255 : atN = file[n].at /\ lenN = file[n].len
            BY <3>1, <3>3
        <3>7. \A l, m \in 1..n : l < m => file[m].at >= file[l].at + file[l].len
            BY <2>1, FilesAssumption DEF IInv
        <3>8. at <= atK
            <4>1. CASE pos + 1 = k BY <3>4, <3>5, <4>1
            <4>2. CASE pos + 1 < k
                <5>1. atK >= at + len BY <3>1, <3>4, <3>5, <3>7, <4>2
                <5> QED BY <5>1
            <4> QED BY <2>1, <3>1, <4>1, <4>2
        <3>9. atK + lenK <= atN + lenN
            <4>1. CASE k = n BY <3>5, <3>6, <4>1
            <4>2. CASE k < n
                <5>1. atN >= atK + lenK BY <3>1, <3>5, <3>6, <3>7, <4>2
                <5> QED BY <5>1
            <4>3. k = n \/ k < n
                <5>1. n \in Nat /\ k \in Nat /\ k <= n BY <2>1, <3>1
                <5> HIDE DEF n
                <5> QED BY <5>1
            <4> QED BY <4>1, <4>2, <4>3
        <3>10. Remaining = (atN + lenN - cut) - at BY <3>4, <3>6 DEF Remaining, dt, Last
        <3>11. ~(Remaining > 2)
            <4>1. pos < Len(file) BY <2>1, <3>1
            <4> QED BY <1>1, <4>1 DEF Parsing
        <3>12. cut \in 0..1 BY DEF IInv, TypeOK
        <3>13. lenK <= 3 BY <3>8, <3>9, <3>10, <3>11, <3>12
        <3> QED BY <3>5, <3>13
    <2> QED BY <1>2, <2>2 DEF AllRead
<1>6. Running'
    <2>1. \E k \in DOMAIN file : Runnable(file[k]) /\ active = file[k].value
        BY <1>1 DEF IInv, Running
    <2> QED BY <1>2, <2>1 DEF Running, Runnable
<1>7. SelectedIsUsable' /\ ArraysSuffice' BY <1>1 DEF SelectedIsUsable, ArraysSuffice
<1> QED BY <1>2, <1>3, <1>4, <1>5, <1>6, <1>7 DEF IInv

(* A descriptor whose element would be behind the end of its array really  *)
(* is one more than the array holds, and the device announces it.          *)
LEMMA BeyondIsAnnounced ==
    ASSUME IInv, Parsing, BeyondArray
    PROVE  \/ declared >= MaxConfigs /\ Ordinal(pos + 1, "CONFIG", 0) > MaxConfigs
           \/ \E c \in Positions("CONFIG") :
                /\ Under(pos + 1, c, {"CONFIG"}) /\ file[c].n >= MaxInterfaces
                /\ Ordinal(pos + 1, "INTERFACE", c) > MaxInterfaces
           \/ \E f \in Positions("INTERFACE") :
                /\ Under(pos + 1, f, {"INTERFACE", "CONFIG"}) /\ file[f].n >= MaxEndpoints
                /\ Ordinal(pos + 1, "ENDPOINT", f) > MaxEndpoints
<1>1. /\ pos \in Nat /\ configs \in Seq(ConfigRec) /\ Len(configs) \in Nat
      /\ MaxConfigs \in Nat /\ MaxInterfaces \in Nat /\ MaxEndpoints \in Nat
    BY FileFacts, ArraysAssumption DEF IInv
<1>2. \A type : \A a \in 0..pos :
          Ordinal(pos, type, a) \in Nat
          /\ (dt.type = type => Ordinal(pos + 1, type, a) = Ordinal(pos, type, a) + 1)
    BY <1>1, CountIsNat, CountNext DEF dt
<1>3. ASSUME ConfigComes, Len(configs) >= MaxConfigs
      PROVE  declared >= MaxConfigs /\ Ordinal(pos + 1, "CONFIG", 0) > MaxConfigs
    <2>1. dt.type = "CONFIG" /\ Len(configs) <= declared BY <1>3 DEF ConfigComes, RoomFor
    <2>2. declared \in Int BY DEF IInv, TypeOK
    <2>3. Ordinal(pos + 1, "CONFIG", 0) = Len(configs) + 1
        BY <1>1, <1>2, <2>1 DEF IInv, TreeInv, Counted
    <2> QED BY <1>1, <1>3, <2>1, <2>2, <2>3
<1>4. ASSUME InterfaceComes, Len(config.interfaces) >= MaxInterfaces
      PROVE  \E c \in Positions("CONFIG") :
                /\ Under(pos + 1, c, {"CONFIG"}) /\ file[c].n >= MaxInterfaces
                /\ Ordinal(pos + 1, "INTERFACE", c) > MaxInterfaces
    <2>1. dt.type = "INTERFACE" /\ configs # <<>> /\ Len(config.interfaces) <= config.n
        BY <1>4 DEF InterfaceComes, RoomFor
    <2>2. PICK c \in Positions("CONFIG") : Open(c, {"CONFIG"})
        BY <2>1 DEF IInv, TreeInv, Anchored
    <2>3. c \in 0..pos BY DEF Positions
    <2>4. config.n = file[c].n
        <3>1. ConfigOf(c) = config BY <1>1, <2>2, WhichConfig DEF IInv, TreeInv
        <3> QED BY <3>1 DEF IInv, TreeInv, TreeSoFar
    <2>5. config.n \in Nat /\ Len(config.interfaces) \in Nat
        <3>1. config \in ConfigRec /\ config.interfaces \in Seq(InterfaceRec)
            BY <1>1, <2>1, LastConfigTyped
        <3>2. config.n \in 0..255 BY <3>1 DEF ConfigRec
        <3>3. Len(config.interfaces) \in Nat
            <4> HIDE DEF InterfaceRec
            <4> QED BY <3>1
        <3>4. 0..255 \subseteq Nat OBVIOUS
        <3> QED BY <3>2, <3>3, <3>4
    <2>6. Ordinal(pos + 1, "INTERFACE", c) = Len(config.interfaces) + 1
        BY <1>2, <2>1, <2>2, <2>3 DEF IInv, TreeInv, Filled
    <2>7. file[c].n >= MaxInterfaces /\ Ordinal(pos + 1, "INTERFACE", c) > MaxInterfaces
        BY <1>1, <1>4, <2>1, <2>4, <2>5, <2>6
    <2> QED BY <2>2, <2>7 DEF Open
<1>5. ASSUME EndpointComes, Len(LastInterface.endpoints) >= MaxEndpoints
      PROVE  \E f \in Positions("INTERFACE") :
                /\ Under(pos + 1, f, {"INTERFACE", "CONFIG"}) /\ file[f].n >= MaxEndpoints
                /\ Ordinal(pos + 1, "ENDPOINT", f) > MaxEndpoints
    <2>1. /\ dt.type = "ENDPOINT" /\ interface
          /\ Len(LastInterface.endpoints) <= LastInterface.n
        BY <1>5 DEF EndpointComes, RoomFor
    <2>2. PICK f \in Positions("INTERFACE") : Open(f, Nested)
        BY <2>1 DEF IInv, TreeInv, Anchored
    <2>3. PICK c \in Positions("CONFIG") : Under(f, c, {"CONFIG"})
        BY DEF IInv, TreeInv, Anchored
    <2>4. f \in 1..pos /\ f \in 0..pos BY <1>1 DEF Positions
    <2>5. InterfaceMatches(f, LastInterface)
        <3>1. InterfaceOf(f, c) = LastInterface
            BY <1>1, <2>2, <2>3, OpenIsLast DEF IInv, TreeInv
        <3> QED BY <2>3, <3>1 DEF IInv, TreeInv, TreeSoFar
    <2>6. LastInterface.n \in Nat /\ Len(LastInterface.endpoints) \in Nat
        <3>1. configs # <<>> /\ config.interfaces # <<>> BY <2>1 DEF IInv, TypeOK
        <3>2. LastInterface \in InterfaceRec BY <1>1, <3>1, LastInterfaceTyped
        <3> DEFINE E == Seq([ep : Endpoints, value : 0..255])
        <3>3. LastInterface.n \in 0..255 /\ LastInterface.endpoints \in E
            BY <3>2 DEF InterfaceRec
        <3>4. Len(LastInterface.endpoints) \in Nat BY <3>3
        <3>5. 0..255 \subseteq Nat OBVIOUS
        <3> QED BY <3>3, <3>4, <3>5
    <2>7. EndpointsUnder(f) = {l \in f + 1 .. pos : file[l].type = "ENDPOINT"}
        BY <1>1, <2>2, <2>4 DEF EndpointsUnder, Positions, Open, Under, Nested
    <2>8. Ordinal(pos, "ENDPOINT", f) = Len(LastInterface.endpoints)
        BY <2>5, <2>7 DEF Ordinal, InterfaceMatches
    <2>9. Ordinal(pos + 1, "ENDPOINT", f) = Len(LastInterface.endpoints) + 1
        BY <1>2, <2>1, <2>4, <2>8
    <2>10. LastInterface.n = file[f].n BY <2>5 DEF InterfaceMatches
    <2>11. file[f].n >= MaxEndpoints /\ Ordinal(pos + 1, "ENDPOINT", f) > MaxEndpoints
        BY <1>1, <1>5, <2>1, <2>6, <2>9, <2>10
    <2> QED BY <2>2, <2>11 DEF Open, Nested
<1> QED BY <1>3, <1>4, <1>5 DEF BeyondArray

(* A failure keeps what it finds. *)
LEMMA FailureIInv == IInv /\ (ParseFails \/ ParseOverruns \/ NoInterface) => IInv'
<1> SUFFICES ASSUME IInv, ParseFails \/ ParseOverruns \/ NoInterface PROVE IInv' OBVIOUS
<1>1. /\ pc \in {"parse", "select"} /\ pc' \in {"failed", "wild"}
      /\ UNCHANGED <<file, cut, parseVars, selectVars>>
    BY DEF ParseFails, ParseOverruns, NoInterface, Parsing
<1>2. /\ file' = file /\ cut' = cut /\ pos' = pos /\ declared' = declared
      /\ configs' = configs /\ interface' = interface
      /\ i' = i /\ j' = j /\ endpoints' = endpoints /\ active' = active /\ claimed' = claimed
    BY <1>1 DEF parseVars, selectVars
<1>3. TreeInv' /\ CcidOnly' BY <1>1, TreeStays DEF IInv
<1>4. TypeOK' BY <1>1, <1>2 DEF IInv, TypeOK, config
<1>5. Running' BY <1>1, <1>2 DEF IInv, Running, Runnable
<1>6. AllRead' /\ SelectedIsUsable' BY <1>1 DEF AllRead, SelectedIsUsable
<1>7. ArraysSuffice'
    <2>1. CASE pc' = "failed" BY <2>1 DEF ArraysSuffice
    <2>2. CASE pc' = "wild"
        <3>1. Parsing /\ BeyondArray
            BY <2>2 DEF ParseFails, ParseOverruns, NoInterface
        <3> QED BY <1>2, <3>1, BeyondIsAnnounced DEF ArraysSuffice, Ordinal, Positions, Under
    <2> QED BY <1>1, <2>1, <2>2
<1> QED BY <1>2, <1>3, <1>4, <1>5, <1>6, <1>7 DEF IInv

-------------------------------------------------------------------------------
(* The steps of the selection *)

LEMMA SkipInterfaceIInv == IInv /\ SkipInterface => IInv'
<1> SUFFICES ASSUME IInv, SkipInterface PROVE IInv' OBVIOUS
<1>1. /\ Trying /\ endpoints' \in {endpoints, EndpointsFound} /\ j' = j + 1 /\ i' = i
      /\ UNCHANGED <<file, cut, parseVars, pc, active, claimed>>
    BY DEF SkipInterface, TryNextInterface
<1>2. /\ file' = file /\ cut' = cut /\ pos' = pos /\ declared' = declared
      /\ configs' = configs /\ interface' = interface
      /\ pc = "select" /\ pc' = pc /\ active' = active /\ claimed' = claimed
    BY <1>1 DEF parseVars, Trying
<1>3. TreeInv' /\ CcidOnly' BY <1>1, TreeStays DEF IInv
<1>4. endpoints' \in [ep_i : -1..255, ep_o : -1..255]
    <2>1. TypeOK /\ endpoints \in [ep_i : -1..255, ep_o : -1..255] BY DEF IInv, TypeOK
    <2>2. EndpointsFound \in [ep_i : -1..255, ep_o : -1..255] BY <1>1, <2>1, TryingFacts
    <2> QED BY <1>1, <2>1, <2>2
<1>5. i' \in 1..(Len(configs)' + 1) /\ j' \in Nat \ {0} BY <1>1, <1>2 DEF IInv, TypeOK
<1>6. TypeOK' BY <1>2, <1>4, <1>5 DEF IInv, TypeOK, config
<1>7. AllRead' /\ Running' BY <1>2 DEF IInv, AllRead, Running, Runnable
<1>8. SelectedIsUsable' /\ ArraysSuffice' BY <1>2 DEF SelectedIsUsable, ArraysSuffice
<1> QED BY <1>2, <1>3, <1>6, <1>7, <1>8 DEF IInv

LEMMA NextConfigIInv == IInv /\ NextConfig => IInv'
<1> SUFFICES ASSUME IInv, NextConfig PROVE IInv' OBVIOUS
<1>1. /\ pc = "select" /\ i <= Len(configs) /\ i' = i + 1 /\ j' = 1
      /\ UNCHANGED <<file, cut, parseVars, pc, endpoints, active, claimed>>
    BY DEF NextConfig
<1>2. /\ file' = file /\ cut' = cut /\ pos' = pos /\ declared' = declared
      /\ configs' = configs /\ interface' = interface
      /\ pc' = pc /\ endpoints' = endpoints /\ active' = active /\ claimed' = claimed
    BY <1>1 DEF parseVars
<1>3. TreeInv' /\ CcidOnly' BY <1>1, TreeStays DEF IInv
<1>4. i' \in 1..(Len(configs)' + 1) /\ j' \in Nat \ {0}
    BY <1>1, <1>2, FileFacts DEF IInv, TypeOK
<1>5. TypeOK' BY <1>2, <1>4 DEF IInv, TypeOK, config
<1>6. AllRead' /\ Running' BY <1>2 DEF IInv, AllRead, Running, Runnable
<1>7. SelectedIsUsable' /\ ArraysSuffice' BY <1>1, <1>2 DEF SelectedIsUsable, ArraysSuffice
<1> QED BY <1>2, <1>3, <1>5, <1>6, <1>7 DEF IInv

(* If the device has no more configurations than it says and says it has   *)
(* one, the kernel runs the one in the tree.                               *)
LEMMA OnlyConfigRuns ==
    ASSUME IInv, Trying, declared <= 1, Len(configs) <= declared
    PROVE  active = configs[i].value
<1>1. pc = "select" BY DEF Trying
<1>2. PICK k \in DOMAIN file : Runnable(file[k]) /\ active = file[k].value
    BY DEF IInv, Running
<1>3. /\ k \in 1..Len(file) /\ Len(file) \in Nat /\ pos \in Nat
      /\ file[k].type = "CONFIG" /\ file[k].len >= 9
    BY <1>2, FileFacts DEF IInv, Runnable, Needs
<1>4. k <= pos
    <2>1. SUFFICES ASSUME k \in pos + 1 .. Len(file) PROVE FALSE BY <1>3
    <2>2. file[k].len <= 3 BY <1>1, <2>1 DEF IInv, AllRead
    <2>3. PICK len \in 0..255 : len = file[k].len
        <3>1. file[k] \in Item
            <4> HIDE DEF Item
            <4> QED BY <1>3, FileFacts DEF IInv
        <3> QED BY <3>1 DEF Item
    <2>4. len >= 9 /\ len <= 3 BY <1>3, <2>2, <2>3
    <2> QED BY <2>4
<1>5. k \in Positions("CONFIG") BY <1>3, <1>4 DEF Positions
<1>6. Ordinal(k, "CONFIG", 0) \in 1..Len(configs)
    BY <1>3, <1>5, WhichConfig DEF IInv, TreeInv
<1>7. ConfigOf(k).value = file[k].value BY <1>5 DEF IInv, TreeInv, TreeSoFar
<1>8. i \in 1..Len(configs) /\ Len(configs) \in Nat BY TryingFacts DEF IInv
<1>9. declared \in Int BY DEF IInv, TypeOK
<1>10. Ordinal(k, "CONFIG", 0) = i BY <1>6, <1>8, <1>9
<1> QED BY <1>2, <1>7, <1>10 DEF ConfigOf

LEMMA SelectInterfaceIInv == IInv /\ SelectInterface => IInv'
<1> SUFFICES ASSUME IInv, SelectInterface PROVE IInv' OBVIOUS
<1>1. /\ Trying /\ Interface.ccid # 0 /\ Complete(EndpointsFound)
      /\ endpoints' = EndpointsFound
      /\ UNCHANGED <<file, cut, parseVars>>
      /\ i' = i /\ j' \in {j, j + 1}
      /\ active' \in {active, configs[i].value}
      /\ declared > 1 \/ active' = active
      /\ claimed' \in {claimed, claimed \cup {Interface.value}}
    <2>1. CASE UNCHANGED <<pc, active, claimed>> /\ TryNextInterface
        BY <2>1 DEF SelectInterface, TryNextInterface
    <2>2. ASSUME active' = IF NeedsSetConfig THEN configs[i].value ELSE active
          PROVE  /\ active' \in {active, configs[i].value}
                 /\ declared > 1 \/ active' = active
        BY <2>2 DEF NeedsSetConfig
    <2>3. CASE TryNextInterface /\ UNCHANGED <<pc, claimed>>
               /\ active' = IF NeedsSetConfig THEN configs[i].value ELSE active
        BY <2>2, <2>3 DEF SelectInterface, TryNextInterface
    <2>4. CASE /\ active' = IF NeedsSetConfig THEN configs[i].value ELSE active
               /\ claimed' = IF NeedsClaim THEN claimed \cup {Interface.value} ELSE claimed
               /\ UNCHANGED <<i, j>>
        BY <2>2, <2>4 DEF SelectInterface
    <2> QED BY <2>1, <2>3, <2>4 DEF SelectInterface
<1>2. \/ pc' = pc
      \/ /\ pc' = "ok" /\ j' = j
         /\ active' = IF declared > 1 THEN configs[i].value ELSE active
         /\ claimed' = IF Interface.value # 0 THEN claimed \cup {Interface.value} ELSE claimed
    BY DEF SelectInterface, TryNextInterface, NeedsSetConfig, NeedsClaim
<1>3. /\ file' = file /\ cut' = cut /\ pos' = pos /\ declared' = declared
      /\ configs' = configs /\ interface' = interface
    BY <1>1 DEF parseVars
<1>4. pc = "select" /\ declared \in Int BY <1>1 DEF Trying, IInv, TypeOK
<1>5. /\ i \in 1..Len(configs) /\ Len(configs) \in Nat
      /\ j \in 1..Len(configs[i].interfaces)
      /\ Interface \in InterfaceRec /\ Interface.value \in 0..255
      /\ configs[i].value \in 0..255
      /\ EndpointsFound \in [ep_i : -1..255, ep_o : -1..255]
    BY <1>1, TryingFacts DEF IInv
<1>6. TreeInv' /\ CcidOnly' BY <1>1, TreeStays DEF IInv
<1>7. TypeOK'
    <2>1. i' \in 1..(Len(configs)' + 1) /\ j' \in Nat \ {0} BY <1>1, <1>3 DEF IInv, TypeOK
    <2>2. active' \in 0..255 /\ claimed' \subseteq 0..255
        <3>1. active \in 0..255 /\ claimed \subseteq 0..255 BY DEF IInv, TypeOK
        <3>2. active' \in 0..255
            <4>1. active' \in {active, configs[i].value} BY <1>1
            <4> QED BY <1>5, <3>1, <4>1
        <3>3. claimed' \subseteq 0..255
            <4>1. claimed' \in {claimed, claimed \cup {Interface.value}} BY <1>1
            <4> QED BY <1>5, <3>1, <4>1
        <3> QED BY <3>2, <3>3
    <2>3. pc' \in {"parse", "select", "ok", "failed", "wild"} BY <1>2, <1>4
    <2> QED BY <1>1, <1>3, <1>5, <2>1, <2>2, <2>3 DEF IInv, TypeOK, config
<1>8. AllRead' BY <1>2, <1>3, <1>4 DEF IInv, AllRead
<1>9. Running' BY <1>1, <1>2, <1>3, <1>4 DEF IInv, Running, Runnable
<1>10. SelectedIsUsable'
    <2>1. CASE pc' = pc BY <1>4, <2>1 DEF SelectedIsUsable
    <2>2. CASE pc' # pc
        <3>1. /\ j' = j
              /\ active' = IF declared > 1 THEN configs[i].value ELSE active
              /\ claimed' = IF Interface.value # 0 THEN claimed \cup {Interface.value}
                                                   ELSE claimed
            BY <1>2, <2>2
        <3>2. Interface' = Interface BY <1>1, <1>3, <3>1 DEF Interface
        <3>3. Interface.class = "ccid"
            BY <1>1, <1>5 DEF IInv, CcidOnly, Interface
        <3>4. /\ endpoints'.ep_i = LastOf("bulk in") /\ endpoints'.ep_o = LastOf("bulk out")
              /\ LastOf("bulk in") >= 0 /\ LastOf("bulk out") >= 0
            BY <1>1 DEF Complete, EndpointsFound
        <3> HIDE DEF InterfaceRec
        <3>5. \E e \in Range(Interface.endpoints) : e.ep = "bulk in" /\ e.value = endpoints'.ep_i
            <4>1. \E e \in Range(Interface.endpoints) :
                      e.ep = "bulk in" /\ e.value = LastOf("bulk in")
                BY <1>5, <3>4, LastOfFound
            <4> QED BY <3>4, <4>1
        <3>6. \E e \in Range(Interface.endpoints) : e.ep = "bulk out" /\ e.value = endpoints'.ep_o
            <4>1. \E e \in Range(Interface.endpoints) :
                      e.ep = "bulk out" /\ e.value = LastOf("bulk out")
                BY <1>5, <3>4, LastOfFound
            <4> QED BY <3>4, <4>1
        <3>7. Len(configs) <= declared => active' = configs[i].value
            <4>1. declared \in Int BY DEF IInv, TypeOK
            <4>2. declared > 1 \/ declared <= 1 BY <4>1
            <4> QED BY <1>1, <3>1, <4>2, OnlyConfigRuns
        <3>8. Interface.value # 0 => Interface.value \in claimed' BY <3>1
        <3> QED BY <1>1, <1>3, <3>2, <3>3, <3>5, <3>6, <3>7, <3>8 DEF SelectedIsUsable
    <2> QED BY <2>1, <2>2
<1>11. ArraysSuffice' BY <1>2, <1>4 DEF ArraysSuffice
<1> QED BY <1>3, <1>6, <1>7, <1>8, <1>9, <1>10, <1>11 DEF IInv

-------------------------------------------------------------------------------
(* The theorems *)

LEMMA NextIInv == IInv /\ [Next]_vars => IInv'
<1> SUFFICES ASSUME IInv, [Next]_vars PROVE IInv' OBVIOUS
<1>1. CASE UNCHANGED vars BY <1>1, StutterIInv
<1>2. CASE ParseDevice BY <1>2, ParseDeviceIInv
<1>3. CASE ParseConfig BY <1>3, ParseConfigIInv
<1>4. CASE ParseInterface BY <1>4, ParseInterfaceIInv
<1>5. CASE ParseEndpoint BY <1>5, ParseEndpointIInv
<1>6. CASE ParseOther BY <1>6, ParseOtherIInv
<1>7. CASE ParseReturns BY <1>7, ParseReturnsIInv
<1>8. CASE ParseFails \/ ParseOverruns \/ NoInterface BY <1>8, FailureIInv
<1>9. CASE SkipInterface BY <1>9, SkipInterfaceIInv
<1>10. CASE SelectInterface BY <1>10, SelectInterfaceIInv
<1>11. CASE NextConfig BY <1>11, NextConfigIInv
<1> QED
    BY <1>1, <1>2, <1>3, <1>4, <1>5, <1>6, <1>7, <1>8, <1>9, <1>10, <1>11 DEF Next, Finished

LEMMA Invariance == Spec => []IInv
<1> QED BY InitIInv, NextIInv, PTL DEF Spec

(* The parser keeps its two pointers in step: `interface' is set only when *)
(* the last configuration has an interface to point to, for files of any   *)
(* length.                                                                 *)
THEOREM TypeCorrect == Spec => []TypeOK
<1>1. IInv => TypeOK BY DEF IInv
<1> QED BY <1>1, Invariance, PTL

(* At every step of uusb_parse_descriptors() the tree is what the          *)
(* descriptors parsed so far say, for a file of any length and content, as *)
(* long as no array of the tree was overrun.                               *)
THEOREM TreeIsTheFile == Spec => []TreeMatchesFile
<1>1. IInv => TreeMatchesFile BY DEF IInv, TreeInv, TreeMatchesFile
<1> QED BY <1>1, Invariance, PTL

(* An array is overrun only by the descriptor that is one more than it     *)
(* holds, of a device that announces at least as many as it holds, for     *)
(* arrays of any size.                                                     *)
THEOREM OverrunIsAnnounced == Spec => []ArraysSuffice
<1>1. IInv => ArraysSuffice BY DEF IInv
<1> QED BY <1>1, Invariance, PTL

(* uusb_dev_select_ccid_interface() succeeds only with an interface that   *)
(* is usable, for every file that the arrays of the tree have room for and *)
(* whichever ioctls fail.                                                  *)
THEOREM SelectionIsUsable == Spec => []SelectedIsUsable
<1>1. IInv => SelectedIsUsable BY DEF IInv
<1> QED BY <1>1, Invariance, PTL

===============================================================================

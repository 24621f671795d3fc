--------------------------- MODULE PivSessionProofs ---------------------------
(***************************************************************************)
(* Proofs about PivSession: for every command line, card and number of     *)
(* runs, and whatever calls fail, a run costs one PIN attempt at most, the *)
(* key is used once at most, on whole arguments and after the PIN, and     *)
(* what is written is the whole response.                                  *)
(***************************************************************************)
EXTENDS PivSession, SequenceTheorems, TLAPS

(* APDUs the token has taken and the card may still carry out *)
Pending == {k \in 1..issued : \A m \in executed : m < k}

Setup == {"SELECT", "VERIFY"}
Keyed == {"AUTHENTICATE", "GET_RESPONSE"}

(* The APDUs that may cost a PIN attempt *)
PinApdus == {k \in 1..issued : apdus[k].ins = "VERIFY" /\ apdus[k].pin # "none"}

(* ccid_xfer() is at work, or has returned a response. *)
Calling == call.state \in {"first", "next"} /\ xfer \in {"wait", "ok"}

LastFragment == DataLeft <= FragMax

AuthApdu == Apdu("AUTHENTICATE", "none", DataLeft > FragMax, Fragment)

(* What the first APDU of a call is, by the function that made the call *)
CallerApdu ==
    CASE pc = "select" -> Apdu("SELECT", "none", FALSE, NoData)
      [] pc = "probe" -> EmptyVerify
      [] pc = "verify" -> Apdu("VERIFY", args.pin, FALSE, NoData)
      [] OTHER -> AuthApdu

Refused == answer \in {[data |-> NoData, sw |-> SECURITY_STATUS],
                       [data |-> NoData, sw |-> INCORRECT_PARAM]}

(* The answer is the piece of the response that follows those at hand, and *)
(* the last one if it says so.                                             *)
Continues(spans) ==
    /\ answer.data.from \in Nat
    /\ Covers(spans, answer.data.from) /\ EndOf(answer.data) = card.next
    /\ answer.sw = SUCCESS => card.next = ResponseSize(args.size)

-------------------------------------------------------------------------------
(* The inductive invariant *)

(* ifd_card_xfer() and ccid_xfer() go together. *)
Synced ==
    /\ call.state \in {"first", "next"} <=> xfer # "idle"
    /\ xfer = "crashed" <=> pc = "died"
    /\ pc \in {"off", "ok", "failed"} => call.state = "idle"
    /\ call.state \in {"idle", "first"} => call.rapdu = <<>>
    /\ call.state \in {"more", "next"} =>
         pc \in {"decipher", "died"} /\ LastFragment /\ call.want > 0
    /\ xfer = "ok" => issued \in executed /\ rx \in Arrivals(answer)
    /\ (pc = "verify" /\ args.pin = "long") \/ (pc = "decipher" /\ args.size \notin RsaSizes) =>
         call.state = "idle"

(* Each APDU is sent from one place of the program, and that with the PIN  *)
(* once.                                                                   *)
Asked ==
    /\ Calling => issued > 0
    /\ Calling /\ call.state = "first" => apdus[issued] = CallerApdu
    /\ Calling /\ call.state = "next" => apdus[issued].ins = "GET_RESPONSE"
    /\ pc = "off" => issued = 0
    /\ pc = "verify" => args.pin # "none"
    /\ pc \in {"off", "select", "probe", "verify"} =>
         data_rpos = 0 /\ \A k \in 1..issued : apdus[k].ins \in Setup
    /\ \A k \in PinApdus :
         /\ apdus[k].pin = args.pin
         /\ pc \notin {"select", "probe"} /\ (pc = "verify" => call.state # "idle")
         /\ \A l \in PinApdus : k = l

(* The PIN is verified only by an attempt that was carried out. *)
Budget ==
    /\ spent \in 0..1
    /\ spent = 1 => PinApdus \cap executed # {}
    /\ card.pinOk => spent = 1

(* What comes before the private key operation is over when it is used, at *)
(* the latest when the card answers to its first fragment, and with a PIN  *)
(* before that is sent.                                                    *)
SetupFirst ==
    /\ served # {} \/ data_rpos > 0 => \A k \in Pending : apdus[k].ins \in Keyed
    /\ (\A k \in 1..issued : apdus[k].ins \in Setup) => card.chain = <<>> /\ served = {}
    /\ args.pin # "none" /\ (pc = "decipher" \/ \E k \in 1..issued : apdus[k].ins \in Keyed) =>
         card.pinOk /\ \A k \in Pending : apdus[k].ins \in Keyed
    /\ \A s \in served : args.pin # "none" => s.pinOk

(* The card holds the fragments up to the one at hand, which is the last   *)
(* APDU; and the key was used once it has them all.                        *)
Fragments ==
    /\ pc = "decipher" => DataLeft > 0
    /\ \A k \in Pending : apdus[k].ins \in Keyed => k = issued
    /\ \A k \in Pending : apdus[k].ins = "AUTHENTICATE" =>
         apdus[k] = AuthApdu /\ DataLeft > 0 /\ served = {} /\ Covers(card.chain, data_rpos)
    /\ pc = "decipher" /\ call.state = "idle" =>
         /\ served = {} /\ Covers(card.chain, data_rpos)
         /\ \A k \in Pending : apdus[k].ins \in Setup
    /\ \A s \in served : Covers(s.spans, EncodedSize(args.size))

(* What the card has still to send is what follows.                        *)
Rest ==
    /\ served = {} => card.left = 0
    /\ served # {} => IF card.endless THEN card.left > 0
                      ELSE card.next + card.left = ResponseSize(args.size)

(* The answer to the last APDU, if that was carried out, is about it. *)
Replied ==
    issued \in executed /\ Calling =>
        /\ apdus[issued].ins \in Setup => answer.data = NoData /\ answer.sw[1] # 97
        /\ pc = "verify" /\ answer.sw = SUCCESS => card.pinOk
        /\ pc = "decipher" /\ ~LastFragment =>
             /\ answer = [data |-> NoData, sw |-> SUCCESS]
             /\ served = {} /\ Covers(card.chain, data_rpos + FragmentLen)
        /\ pc = "decipher" /\ LastFragment =>
             Refused \/ (served # {} /\ Continues(call.rapdu))

(* The pieces that ifd_card_xfer() has collected are the front of the      *)
(* response, and all of it when it returns SUCCESS.                        *)
Collected ==
    /\ call.state = "more" => issued \in executed
    /\ call.state = "more" \/ (call.state = "next" /\ Calling /\ issued \notin executed) =>
         served # {} /\ Covers(call.rapdu, card.next)
    /\ CallOk /\ pc \in {"verify", "decipher"} => issued \in executed
    /\ CallOk /\ pc = "verify" => card.pinOk
    /\ CallOk /\ pc = "decipher" =>
         IF LastFragment THEN served # {} /\ Covers(call.rapdu, ResponseSize(args.size))
         ELSE served = {} /\ Covers(card.chain, data_rpos + FragmentLen)
    /\ pc = "ok" => /\ issued \in executed /\ served # {} /\ args.ours
                    /\ Covers(cleartext, ResponseSize(args.size))

PivInv ==
    /\ TypeOK
    /\ Synced /\ Asked /\ Budget /\ SetupFirst /\ Fragments /\ Rest /\ Replied /\ Collected

-------------------------------------------------------------------------------
(* Spans, sizes, fragments *)

(* A span that begins where others end can be added to them.               *)
LEMMA CoversAppend ==
    ASSUME NEW spans \in Seq(Spans), NEW s \in Spans, NEW n \in Nat, Covers(spans, n), s.from = n
    PROVE  Append(spans, s) \in Seq(Spans) /\ Covers(Append(spans, s), EndOf(s))
<1> DEFINE t == Append(spans, s)
           m == Len(spans)
<1>1. /\ t \in Seq(Spans) /\ m \in Nat /\ Len(t) = m + 1 /\ t # <<>>
      /\ \A i \in 1..m : t[i] = spans[i]
      /\ t[m + 1] = s
  OBVIOUS
<1> HIDE DEF t
<1>2. t[1].from = 0
  BY <1>1 DEF Covers
<1>3. ASSUME NEW i \in 1..(Len(t) - 1)  PROVE t[i + 1].from = EndOf(t[i])
  <2>1. i \in 1..m /\ spans # <<>>  BY <1>1, <1>3
  <2>2. CASE i = m  BY <1>1, <2>1, <2>2 DEF Covers
  <2>3. CASE i # m
    <3>1. i \in 1..(m - 1) /\ i + 1 \in 1..m  BY <1>1, <2>1, <2>3
    <3> QED  BY <1>1, <2>1, <3>1 DEF Covers
  <2> QED  BY <2>2, <2>3
<1>4. EndOf(t[Len(t)]) = EndOf(s)  BY <1>1
<1> QED  BY <1>1, <1>2, <1>3, <1>4 DEF Covers, t

LEMMA CoversNothing == Covers(<<>>, 0)
BY DEF Covers

(* The arguments and the response are never empty.                         *)
LEMMA SizesArePositive ==
    ASSUME NEW n \in Nat
    PROVE  EncodedSize(n) \in Nat \ {0} /\ ResponseSize(n) \in Nat \ {0}
<1>1. \A m \in Nat : LengthSize(m) \in Nat  BY DEF LengthSize
<1>2. 1 + LengthSize(n) + n + 2 \in Nat /\ 1 + LengthSize(n) + n \in Nat  BY <1>1
<1> QED  BY <1>1, <1>2 DEF EncodedSize, ResponseSize

(* What is left is sent in one fragment, or all of a fragment and more     *)
(* stays.                                                                  *)
LEMMA FragmentIs ==
    ASSUME TypeOK, DataLeft > 0
    PROVE  /\ Fragment \in Spans /\ AuthApdu \in Apdus
           /\ Fragment.from = data_rpos /\ EndOf(Fragment) = data_rpos + FragmentLen
           /\ data_rpos + FragmentLen \in Nat /\ FragmentLen > 0
           /\ IF LastFragment THEN data_rpos + FragmentLen = EncodedSize(args.size)
              ELSE data_rpos + FragmentLen < EncodedSize(args.size)
<1>1. data_rpos \in Nat /\ EncodedSize(args.size) \in Nat
  BY SizesArePositive DEF TypeOK, CommandLine
<1>2. FragmentLen \in Nat /\ FragmentLen > 0  BY <1>1 DEF DataLeft, FragmentLen, FragMax
<1>3. IF LastFragment THEN data_rpos + FragmentLen = EncodedSize(args.size)
      ELSE data_rpos + FragmentLen < EncodedSize(args.size)
  BY <1>1 DEF DataLeft, FragmentLen, FragMax, LastFragment
<1>4. Fragment \in Spans /\ Fragment.from = data_rpos /\ Fragment.len = FragmentLen
  BY <1>1, <1>2 DEF Fragment, Span, Spans
<1>5. AuthApdu \in Apdus  BY <1>4 DEF AuthApdu, Apdu, Apdus
<1> QED  BY <1>1, <1>2, <1>3, <1>4, <1>5 DEF EndOf

(* An APDU that was answered is the last that was carried out.             *)
LEMMA NothingPending ==
    ASSUME TypeOK, issued \in executed
    PROVE  Pending = {}
<1>1. issued \in Nat /\ executed \subseteq 1..issued  BY DEF TypeOK, Exchange!TypeOK
<1>2. ASSUME NEW k \in Pending  PROVE FALSE
  <2>1. k \in 1..issued /\ issued < k  BY DEF Pending
  <2> QED  BY <1>1, <2>1
<1> QED  BY <1>2

LEMMA InvInit == Init => PivInv
<1> SUFFICES ASSUME Init PROVE PivInv  OBVIOUS
<1>1. issued = 0 /\ xfer = "idle" /\ executed = {}  BY DEF Init, Exchange!Init
<1>2. PICK tries \in 0..MaxTries, endless \in BOOLEAN : card = FreshCard(tries, endless)
  BY DEF Init
<1>3. /\ card.chain = <<>> /\ card.pinOk = FALSE /\ card.left = 0
      /\ card \in [tries : 0..MaxTries, endless : BOOLEAN, pinOk : BOOLEAN,
                   chain : Seq(Spans), next : Nat, left : Nat]
  BY <1>2 DEF FreshCard
<1>4. NoData \in Spans /\ Silence \in Answer /\ Idle.sw \in StatusWord
  BY DEF NoData, Span, Spans, Silence, Answer, StatusWord, Idle
<1>5. TypeOK
  <2>1. call \in Calls
    BY <1>4 DEF Init, Idle, Calls
  <2>2. args \in CommandLine /\ run \in 0..MaxRuns
    BY CommandLinesAssumption, SizesAssumption DEF Init
  <2> QED
    BY <1>1, <1>3, <1>4, <2>1, <2>2
    DEF Init, TypeOK, Exchange!TypeOK, Uninitialized, NotReported
<1>6. Pending = {} /\ PinApdus = {}  BY <1>1 DEF Pending, PinApdus
<1>7. pc = "off" /\ call.state = "idle" /\ call.rapdu = <<>> /\ data_rpos = 0 /\ spent = 0
      /\ served = {}
  BY DEF Init, Idle
<1>8. Synced /\ Asked  BY <1>1, <1>6, <1>7 DEF Synced, Asked, Calling
<1>9. Budget /\ SetupFirst  BY <1>1, <1>3, <1>6, <1>7 DEF Budget, SetupFirst
<1>10. Fragments /\ Rest  BY <1>1, <1>3, <1>6, <1>7 DEF Fragments, Rest
<1>11. Replied /\ Collected  BY <1>1, <1>7 DEF Replied, Collected, CallOk
<1> QED  BY <1>5, <1>8, <1>9, <1>10, <1>11 DEF PivInv

-------------------------------------------------------------------------------
(* A run begins *)

LEMMA StartRunKeeps ==
    ASSUME PivInv, NEW a \in CommandLines, StartRun(a)
    PROVE  PivInv'
<1> USE DEF PivInv
<1>1. /\ issued' = 0 /\ xfer' = "idle" /\ executed' = {} /\ pc' \in {"select", "failed"}
      /\ call'.state = "idle" /\ call'.rapdu = <<>> /\ data_rpos' = 0 /\ spent' = 0 /\ served' = {}
  BY DEF StartRun, Idle
<1>2. /\ card'.chain = <<>> /\ card'.pinOk = FALSE /\ card'.left = 0
      /\ card' \in [tries : 0..MaxTries, endless : BOOLEAN, pinOk : BOOLEAN,
                    chain : Seq(Spans), next : Nat, left : Nat]
  BY DEF StartRun, FreshCard, TypeOK
<1>3. NoData \in Spans /\ Silence \in Answer /\ Idle.sw \in StatusWord
  BY DEF NoData, Span, Spans, Silence, Answer, StatusWord, Idle
<1>4. TypeOK'
  <2>1. call' \in Calls
    BY <1>3 DEF StartRun, Idle, Calls
  <2>2. args' \in CommandLine /\ run' \in 0..MaxRuns
    BY CommandLinesAssumption, SizesAssumption DEF StartRun, TypeOK
  <2> QED
    BY <1>1, <1>2, <1>3, <2>1, <2>2
    DEF StartRun, TypeOK, Exchange!TypeOK, Uninitialized, NotReported
<1>5. Pending' = {} /\ PinApdus' = {}  BY <1>1 DEF Pending, PinApdus
<1>6. Synced' /\ Asked'  BY <1>1, <1>5 DEF Synced, Asked, Calling
<1>7. Budget' /\ SetupFirst'  BY <1>1, <1>2, <1>5 DEF Budget, SetupFirst
<1>8. Fragments' /\ Rest'  BY <1>1, <1>2, <1>5 DEF Fragments, Rest
<1>9. Replied' /\ Collected'  BY <1>1 DEF Replied, Collected, CallOk
<1> QED  BY <1>4, <1>6, <1>7, <1>8, <1>9

-------------------------------------------------------------------------------
(* An APDU is sent *)

(* What does not depend on how far a call is.                              *)
LEMMA CardKept ==
    ASSUME PivInv, UNCHANGED <<args, data_rpos, issued, executed, apdus, card, spent, served>>
    PROVE  /\ Budget' /\ Rest' /\ Pending' = Pending /\ PinApdus' = PinApdus
           /\ DataLeft' = DataLeft /\ LastFragment' = LastFragment /\ AuthApdu' = AuthApdu
           /\ FragmentLen' = FragmentLen
BY DEF PivInv, Budget, Rest, Pending, PinApdus, DataLeft, LastFragment, AuthApdu, Apdu, Fragment,
       FragmentLen

(* The token does not take the APDU.                                       *)
LEMMA RefusedKeeps ==
    ASSUME PivInv, call.state \in {"idle", "more"}, pc \notin {"off", "ok", "failed", "died"},
           Exchange!Refuse, call'.state \in {"first", "next"},
           call'.state = "first" => call.state = "idle" /\ call'.rapdu = <<>>,
           call'.state = "next" => call.state = "more" /\ call'.want = call.want,
           call.state = "idle" => /\ pc = "verify" => args.pin # "long"
                                  /\ pc = "decipher" => args.size \in RsaSizes,
           UNCHANGED <<pc, args, data_rpos, cleartext, apdus, answer, rx, cardVars>>
    PROVE  Synced' /\ Asked' /\ Budget' /\ SetupFirst' /\ Fragments' /\ Rest' /\ Replied' /\ Collected'
<1> USE DEF PivInv
<1>1. /\ xfer' = "null" /\ UNCHANGED <<issued, executed, card, spent, served>>
      /\ call'.state \notin {"idle", "more", "done"} /\ ~Calling'
  BY DEF Exchange!Refuse, cardVars, Calling
<1>2. /\ Budget' /\ Rest' /\ Pending' = Pending /\ PinApdus' = PinApdus
      /\ DataLeft' = DataLeft /\ LastFragment' = LastFragment /\ AuthApdu' = AuthApdu
  BY <1>1, CardKept
<1>3. Synced'  BY <1>1, <1>2 DEF Synced
<1>4. Asked'  BY <1>1, <1>2 DEF Asked
<1>5. SetupFirst'  BY <1>1, <1>2 DEF SetupFirst
<1>6. Fragments'  BY <1>1, <1>2 DEF Fragments
<1>7. Replied' /\ Collected'  BY <1>1 DEF Replied, Collected, CallOk
<1> QED  BY <1>2, <1>3, <1>4, <1>5, <1>6, <1>7

(* The token takes it: it is the last one, and the card will carry it out  *)
(* after all others.                                                       *)
LEMMA IssueAdds ==
    ASSUME PivInv, NEW apdu \in Apdus, Exchange!Issue, apdus' = Append(apdus, apdu)
    PROVE  /\ issued \in Nat /\ issued' = issued + 1 /\ issued' > 0 /\ xfer' = "wait"
           /\ executed' = executed /\ executed \subseteq 1..issued /\ issued' \notin executed'
           /\ apdus' \in Seq(Apdus) /\ Len(apdus') = issued'
           /\ apdus'[issued'] = apdu /\ \A k \in 1..issued : apdus'[k] = apdus[k]
           /\ 1..issued' = 1..issued \cup {issued'}
           /\ Pending' = Pending \cup {issued'}
           /\ PinApdus' = PinApdus \cup (IF apdu.ins = "VERIFY" /\ apdu.pin # "none"
                                         THEN {issued'} ELSE {})
<1>1. /\ issued \in Nat /\ executed \subseteq 1..issued
      /\ apdus \in Seq(Apdus) /\ Len(apdus) = issued
  BY DEF PivInv, TypeOK, Exchange!TypeOK
<1>2. issued' = issued + 1 /\ executed' = executed /\ xfer' = "wait"  BY DEF Exchange!Issue
<1>3. /\ apdus' \in Seq(Apdus) /\ Len(apdus') = issued'
      /\ apdus'[issued'] = apdu /\ \A k \in 1..issued : apdus'[k] = apdus[k]
  BY <1>1, <1>2
<1>4. 1..issued' = 1..issued \cup {issued'} /\ issued' \notin 1..issued  BY <1>1, <1>2
<1>5. Pending' = Pending \cup {issued'}
  <2>1. \A m \in executed : m < issued'  BY <1>1, <1>2
  <2> QED  BY <1>2, <1>4, <2>1 DEF Pending
<1>6. PinApdus' = PinApdus \cup (IF apdu.ins = "VERIFY" /\ apdu.pin # "none"
                                 THEN {issued'} ELSE {})
  BY <1>3, <1>4 DEF PinApdus
<1> QED  BY <1>1, <1>2, <1>3, <1>4, <1>5, <1>6

LEMMA IssueFirstKeeps ==
    ASSUME PivInv, call.state = "idle", pc \notin {"off", "ok", "failed", "died"},
           pc = "verify" => args.pin \in {"right", "wrong"},
           pc = "decipher" => args.size \in RsaSizes,
           CallerApdu \in Apdus, Exchange!Issue, apdus' = Append(apdus, CallerApdu),
           call'.state = "first", call'.rapdu = <<>>,
           UNCHANGED <<pc, args, data_rpos, cleartext, answer, rx, cardVars>>
    PROVE  Synced' /\ Asked' /\ Budget' /\ SetupFirst' /\ Fragments' /\ Rest' /\ Replied' /\ Collected'
<1> USE DEF PivInv
<1>1. /\ issued \in Nat /\ issued' = issued + 1 /\ issued' > 0 /\ xfer' = "wait"
      /\ executed' = executed /\ executed \subseteq 1..issued /\ issued' \notin executed'
      /\ apdus'[issued'] = CallerApdu /\ \A k \in 1..issued : apdus'[k] = apdus[k]
      /\ 1..issued' = 1..issued \cup {issued'}
      /\ Pending' = Pending \cup {issued'} /\ Pending \subseteq 1..issued
      /\ PinApdus' = PinApdus \cup (IF CallerApdu.ins = "VERIFY" /\ CallerApdu.pin # "none"
                                    THEN {issued'} ELSE {})
  BY IssueAdds DEF Pending
<1>2. /\ UNCHANGED <<pc, args, data_rpos, card, spent, served>>
      /\ DataLeft' = DataLeft /\ LastFragment' = LastFragment
      /\ AuthApdu' = AuthApdu /\ CallerApdu' = CallerApdu
  BY DEF cardVars, DataLeft, LastFragment, AuthApdu, Apdu, Fragment, FragmentLen, CallerApdu,
         EmptyVerify
<1>3. /\ pc = "decipher" => CallerApdu = AuthApdu /\ CallerApdu.ins = "AUTHENTICATE"
      /\ pc # "decipher" => pc \in {"select", "probe", "verify"} /\ CallerApdu.ins \in Setup
      /\ CallerApdu.ins = "VERIFY" /\ CallerApdu.pin # "none" =>
           pc = "verify" /\ CallerApdu.pin = args.pin
  BY DEF CallerApdu, AuthApdu, Apdu, EmptyVerify, Setup, TypeOK
<1>4. pc \in {"select", "probe", "verify"} => PinApdus = {}  BY DEF Asked
<1>5. Synced'  BY <1>1, <1>2 DEF Synced
<1>6. Asked'
  <2>1. pc \in {"off", "select", "probe", "verify"} =>
          data_rpos' = 0 /\ \A k \in 1..issued' : apdus'[k].ins \in Setup
    BY <1>1, <1>3 DEF Asked
  <2>2. ASSUME NEW k \in PinApdus'
        PROVE  /\ apdus'[k].pin = args.pin
               /\ pc \notin {"select", "probe"}
               /\ \A l \in PinApdus' : k = l
    <3>1. CASE pc = "decipher"
      <4>1. PinApdus' = PinApdus  BY <1>1, <1>3, <3>1
      <4>2. \A l \in PinApdus : l \in 1..issued /\ apdus'[l].pin = apdus[l].pin
        BY <1>1 DEF PinApdus
      <4> QED  BY <2>2, <3>1, <4>1, <4>2 DEF Asked
    <3>2. CASE pc # "decipher"
      BY <1>1, <1>3, <1>4, <2>2, <3>2
    <3> QED  BY <3>1, <3>2
  <2> QED  BY <1>1, <1>2, <2>1, <2>2 DEF Asked, Calling
<1>7. Budget' /\ Rest'  BY <1>1, <1>2 DEF Budget, Rest
<1>8. SetupFirst'
  <2>1. CASE pc = "decipher"
    <3>1. CallerApdu.ins \in Keyed  BY <1>3, <2>1 DEF Keyed
    <3>2. CallerApdu.ins \notin Setup  BY <1>3, <2>1 DEF Setup
    <3> QED  BY <1>1, <1>2, <2>1, <3>1, <3>2 DEF SetupFirst
  <2>2. CASE pc # "decipher"
    <3>1. data_rpos = 0 /\ (\A k \in 1..issued : apdus[k].ins \in Setup)
      BY <1>3, <2>2 DEF Asked
    <3>2. card.chain = <<>> /\ served = {}  BY <3>1 DEF SetupFirst
    <3>3. \A k \in 1..issued' : apdus'[k].ins \notin Keyed
      BY <1>1, <1>3, <2>2, <3>1 DEF Setup, Keyed
    <3>4. served' = {} /\ card'.chain = <<>> /\ pc' # "decipher" /\ ~(data_rpos' > 0)
      BY <1>2, <2>2, <3>1, <3>2
    <3> QED  BY <3>3, <3>4 DEF SetupFirst
  <2> QED  BY <2>1, <2>2
<1>9. Fragments'
  <2>1. \A k \in Pending : apdus[k].ins \in Setup
    BY <1>1, <1>3 DEF Fragments, Asked
  <2>2. \A k \in Pending : apdus'[k].ins \notin Keyed  BY <1>1, <2>1 DEF Setup, Keyed
  <2>3. CallerApdu.ins = "AUTHENTICATE" =>
          /\ CallerApdu = AuthApdu /\ DataLeft > 0 /\ served = {}
          /\ Covers(card.chain, data_rpos)
    BY <1>3 DEF Fragments, Setup
  <2>4. \A k \in Pending' : apdus'[k].ins \in Keyed => k = issued'  BY <1>1, <2>2
  <2>5. \A k \in Pending' : apdus'[k].ins = "AUTHENTICATE" =>
          apdus'[k] = AuthApdu /\ DataLeft > 0 /\ served = {} /\ Covers(card.chain, data_rpos)
    BY <1>1, <2>2, <2>3 DEF Keyed
  <2> QED  BY <1>2, <2>4, <2>5 DEF Fragments
<1>10. Replied' /\ Collected'  BY <1>1 DEF Replied, Collected, CallOk
<1> QED  BY <1>5, <1>6, <1>7, <1>8, <1>9, <1>10

(* All that ifd_card_xfer() is called with                                 *)
LEMMA CallKeeps ==
    ASSUME PivInv, pc \notin {"off", "ok", "failed", "died"},
           pc = "verify" => args.pin \in {"right", "wrong"},
           pc = "decipher" => args.size \in RsaSizes,
           CallerApdu \in Apdus, IfdCardXfer(CallerApdu)
    PROVE  PivInv'
<1>1. /\ call.state = "idle" /\ call'.state = "first" /\ call'.rapdu = <<>>
      /\ UNCHANGED <<pc, args, data_rpos, cleartext, answer, rx, cardVars>>
  BY DEF IfdCardXfer, Idle
<1>2. \/ Exchange!Issue /\ apdus' = Append(apdus, CallerApdu)
      \/ Exchange!Refuse /\ apdus' = apdus
  BY DEF IfdCardXfer, Transmit
<1>3. TypeOK'
  <2>1. call' \in Calls
    <3>1. <<0, 0>> \in StatusWord  BY DEF StatusWord
    <3>2. call' = [state |-> "first", rapdu |-> <<>>, size |-> 0, sw |-> <<0, 0>>, want |-> 0]
      BY DEF IfdCardXfer, Idle
    <3> QED  BY <3>1, <3>2 DEF Calls
  <2>2. apdus' \in Seq(Apdus) /\ Len(apdus') = issued' /\ Exchange!TypeOK'
    <3>1. CASE Exchange!Issue /\ apdus' = Append(apdus, CallerApdu)
      BY <3>1, IssueAdds DEF Exchange!TypeOK
    <3>2. CASE Exchange!Refuse /\ apdus' = apdus
      BY <3>2 DEF Exchange!TypeOK, PivInv, TypeOK, Exchange!Refuse
    <3> QED  BY <1>2, <3>1, <3>2
  <2> QED  BY <2>1, <2>2 DEF PivInv, TypeOK, IfdCardXfer, cardVars
<1>4. Synced' /\ Asked' /\ Budget' /\ SetupFirst' /\ Fragments' /\ Rest' /\ Replied' /\ Collected'
  BY <1>1, <1>2, RefusedKeeps, IssueFirstKeeps
<1> QED  BY <1>3, <1>4 DEF PivInv

LEMMA CallsKeep ==
    ASSUME PivInv, SelectApplication \/ ProbePin \/ VerifyPin \/ DecipherFragment
    PROVE  PivInv'
<1>1. NoData \in Spans  BY DEF NoData, Span, Spans
<1>2. CASE SelectApplication
  <2>1. pc = "select" /\ CallerApdu = Apdu("SELECT", "none", FALSE, NoData)
        /\ IfdCardXfer(CallerApdu)
    BY <1>2 DEF SelectApplication, CallerApdu
  <2> QED  BY <1>1, <2>1, CallKeeps DEF Apdu, Apdus
<1>3. CASE ProbePin
  <2>1. pc = "probe" /\ CallerApdu = Apdu("VERIFY", "none", FALSE, NoData)
        /\ IfdCardXfer(CallerApdu)
    BY <1>3 DEF ProbePin, CallerApdu, EmptyVerify
  <2> QED  BY <1>1, <2>1, CallKeeps DEF Apdu, Apdus
<1>4. CASE VerifyPin
  <2>1. pc = "verify" /\ CallerApdu = Apdu("VERIFY", args.pin, FALSE, NoData)
        /\ IfdCardXfer(CallerApdu) /\ args.pin # "long"
    BY <1>4 DEF VerifyPin, CallerApdu
  <2>2. args.pin \in {"right", "wrong"}
    BY <2>1 DEF PivInv, Asked, TypeOK, CommandLine
  <2> QED  BY <1>1, <2>1, <2>2, CallKeeps DEF Apdu, Apdus
<1>5. CASE DecipherFragment
  <2>1. /\ pc = "decipher" /\ CallerApdu = AuthApdu /\ IfdCardXfer(CallerApdu)
        /\ args.size \in RsaSizes
    BY <1>5 DEF DecipherFragment, CallerApdu, AuthApdu
  <2>2. AuthApdu \in Apdus  BY <2>1, FragmentIs DEF PivInv, Fragments
  <2> QED  BY <2>1, <2>2, CallKeeps
<1> QED  BY <1>2, <1>3, <1>4, <1>5

LEMMA GetResponseKeeps ==
    ASSUME PivInv, GetResponse
    PROVE  PivInv'
<1> DEFINE apdu == Apdu("GET_RESPONSE", "none", FALSE, Span(0, call.want))
<1> USE DEF PivInv
<1>1. /\ call.state = "more" /\ call'.state = "next" /\ xfer = "idle"
      /\ call'.rapdu = call.rapdu /\ call'.want = call.want
      /\ UNCHANGED <<pc, args, data_rpos, cleartext, answer, rx, cardVars>>
  BY DEF GetResponse, TypeOK, Calls
<1>2. \/ Exchange!Issue /\ apdus' = Append(apdus, apdu)
      \/ Exchange!Refuse /\ apdus' = apdus
  BY DEF GetResponse, Transmit
<1>3. apdu \in Apdus /\ apdu.ins = "GET_RESPONSE"
  <2>1. call.want \in 0..256  BY DEF TypeOK, Calls
  <2>2. Span(0, call.want) \in Spans  BY <2>1 DEF Span, Spans
  <2> QED  BY <2>2 DEF Apdu, Apdus
<1>4. pc = "decipher" /\ LastFragment  BY <1>1 DEF Synced
<1> HIDE DEF apdu
<1>5. TypeOK'
  <2>1. call' \in Calls
    BY DEF GetResponse, TypeOK, Calls
  <2>2. apdus' \in Seq(Apdus) /\ Len(apdus') = issued' /\ Exchange!TypeOK'
    <3>1. CASE Exchange!Issue /\ apdus' = Append(apdus, apdu)
      BY <1>3, <3>1, IssueAdds DEF Exchange!TypeOK
    <3>2. CASE Exchange!Refuse /\ apdus' = apdus
      BY <3>2 DEF Exchange!TypeOK, TypeOK, Exchange!Refuse
    <3> QED  BY <1>2, <3>1, <3>2
  <2> QED  BY <2>1, <2>2 DEF TypeOK, GetResponse, cardVars
<1>6. CASE Exchange!Refuse /\ apdus' = apdus
  BY <1>1, <1>4, <1>5, <1>6, RefusedKeeps
<1>7. CASE Exchange!Issue /\ apdus' = Append(apdus, apdu)
  <2>1. /\ issued \in Nat /\ issued' = issued + 1 /\ issued' > 0 /\ xfer' = "wait"
        /\ executed' = executed /\ executed \subseteq 1..issued /\ issued' \notin executed'
        /\ apdus'[issued'] = apdu /\ \A k \in 1..issued : apdus'[k] = apdus[k]
        /\ 1..issued' = 1..issued \cup {issued'}
        /\ Pending' = Pending \cup {issued'}
        /\ PinApdus' = PinApdus
    BY <1>3, <1>7, IssueAdds
  <2>2. issued \in executed /\ Pending' = {issued'}
    BY <1>1, <2>1, NothingPending DEF Collected
  <2>3. /\ UNCHANGED <<pc, args, data_rpos, card, spent, served>>
        /\ DataLeft' = DataLeft /\ LastFragment' = LastFragment
    BY <1>1 DEF cardVars, DataLeft, LastFragment
  <2>4. apdu.ins \in Keyed /\ apdu.ins \notin Setup  BY <1>3 DEF Keyed, Setup
  <2>5. served # {} /\ Covers(call.rapdu, card.next)  BY <1>1 DEF Collected
  <2>6. Synced'  BY <1>1, <1>4, <2>1, <2>3 DEF Synced
  <2>7. Asked'
    <3>1. \A k \in PinApdus : k \in 1..issued /\ apdus'[k].pin = apdus[k].pin
      BY <2>1 DEF PinApdus
    <3> QED  BY <1>1, <1>3, <1>4, <2>1, <2>3, <3>1 DEF Asked
  <2>8. Budget' /\ Rest'  BY <2>1, <2>3 DEF Budget, Rest
  <2>9. SetupFirst'  BY <1>4, <2>1, <2>2, <2>3, <2>4 DEF SetupFirst
  <2>10. Fragments'  BY <1>1, <1>3, <2>1, <2>2, <2>3 DEF Fragments
  <2>11. Replied'  BY <2>1 DEF Replied
  <2>12. Collected'  BY <1>1, <1>4, <2>1, <2>3, <2>5 DEF Collected, CallOk
  <2> QED  BY <1>5, <2>6, <2>7, <2>8, <2>9, <2>10, <2>11, <2>12
<1> QED  BY <1>2, <1>6, <1>7

-------------------------------------------------------------------------------
(* The answer comes, or does not *)

LEMMA ArrivalsAre ==
    ASSUME NEW a \in Answer, NEW r \in Arrivals(a)
    PROVE  /\ r \in Answer
           /\ r.sw[1] \in {a.sw[1], 170}
           /\ r.sw[1] = 97 => r.data = a.data /\ a.sw[1] = 97
           /\ r.sw = SUCCESS => r = a
<1>1. a.data \in Spans /\ a.sw \in StatusWord /\ a.sw[1] \in 0..255 /\ a.sw[2] \in 0..255
  BY DEF Answer, StatusWord
<1>2. CASE r = a
  BY <1>2 DEF Answer
<1>3. CASE r = [data |-> IF a.data.len = 0 THEN NoData ELSE Span(Filler, a.data.len),
                sw |-> <<170, 170>>]
  <2>1. r.data \in Spans  BY <1>1, <1>3 DEF Spans, Span, NoData, Filler
  <2>2. r.sw = <<170, 170>> /\ r.sw \in StatusWord /\ r.sw[1] = 170  BY <1>3 DEF StatusWord
  <2>3. r \in Answer  BY <1>3, <2>1, <2>2 DEF Answer
  <2> QED  BY <2>2, <2>3 DEF SUCCESS
<1>4. CASE r = [a EXCEPT !.sw = <<@[1], 170>>]
  <2>1. r.sw = <<a.sw[1], 170>> /\ r.data = a.data  BY <1>4 DEF Answer
  <2>2. r.sw \in StatusWord /\ r.sw[1] = a.sw[1] /\ r.sw[2] = 170  BY <1>1, <2>1 DEF StatusWord
  <2>3. r \in Answer  BY <1>4, <2>2 DEF Answer
  <2> QED  BY <2>1, <2>2, <2>3 DEF SUCCESS
<1> QED  BY <1>2, <1>3, <1>4 DEF Arrivals

(* What is kept by a step of ifd_card_xfer() that sends nothing.           *)
LEMMA NothingSent ==
    ASSUME PivInv, pc \notin {"off", "ok", "failed"},
           UNCHANGED <<args, data_rpos, cleartext, issued, executed, apdus, card, spent, served>>,
           call.state # "idle", pc' \in {pc, "died"}, call'.state # "idle"
    PROVE  /\ SetupFirst' /\ Fragments' /\ Budget' /\ Rest'
           /\ Pending' = Pending /\ PinApdus' = PinApdus
           /\ DataLeft' = DataLeft /\ LastFragment' = LastFragment /\ AuthApdu' = AuthApdu
           /\ FragmentLen' = FragmentLen
<1> USE DEF PivInv
<1>1. /\ Budget' /\ Rest' /\ Pending' = Pending /\ PinApdus' = PinApdus
      /\ DataLeft' = DataLeft /\ LastFragment' = LastFragment /\ AuthApdu' = AuthApdu
      /\ FragmentLen' = FragmentLen
  BY CardKept
<1>2. SetupFirst'  BY <1>1 DEF SetupFirst
<1>3. Fragments'  BY <1>1 DEF Fragments
<1> QED  BY <1>1, <1>2, <1>3

LEMMA CallAnsweredKeeps == PivInv /\ CallAnswered => PivInv'
<1> SUFFICES ASSUME PivInv, CallAnswered PROVE PivInv'  OBVIOUS
<1> USE DEF PivInv
<1>1. /\ xfer = "wait" /\ xfer' = "ok" /\ issued \in executed /\ rx' \in Arrivals(answer)
      /\ UNCHANGED <<hostVars, cardVars, apdus, answer, issued, executed>>
  BY DEF CallAnswered, Exchange!Respond
<1>2. /\ UNCHANGED <<pc, call, args, data_rpos, cleartext, card, spent, served>>
      /\ call.state \in {"first", "next"} /\ pc # "died"
  BY <1>1 DEF hostVars, cardVars, Synced
<1>3. pc \notin {"off", "ok", "failed"}  BY <1>2 DEF Synced
<1>4. /\ SetupFirst' /\ Fragments' /\ Budget' /\ Rest'
      /\ Pending' = Pending /\ PinApdus' = PinApdus
      /\ DataLeft' = DataLeft /\ LastFragment' = LastFragment /\ AuthApdu' = AuthApdu
      /\ FragmentLen' = FragmentLen
  BY <1>1, <1>2, <1>3, NothingSent
<1>5. TypeOK'
  <2>1. rx' \in Answer  BY <1>1, ArrivalsAre DEF TypeOK
  <2> QED  BY <1>1, <1>2, <2>1 DEF TypeOK, hostVars, cardVars, Exchange!TypeOK
<1>6. Synced'  BY <1>1, <1>2, <1>3, <1>4 DEF Synced
<1>7. Calling' = Calling /\ CallerApdu' = CallerApdu
  BY <1>1, <1>2, <1>4 DEF Calling, CallerApdu, EmptyVerify
<1>8. Asked'  BY <1>1, <1>2, <1>4, <1>7 DEF Asked
<1>9. Replied' /\ Collected'
  BY <1>1, <1>2, <1>4, <1>7 DEF Replied, Collected, Refused, Continues, CallOk
<1> QED  BY <1>4, <1>5, <1>6, <1>8, <1>9

LEMMA CallFailsKeeps == PivInv /\ CallFails => PivInv'
<1> SUFFICES ASSUME PivInv, CallFails PROVE PivInv'  OBVIOUS
<1> USE DEF PivInv
<1>1. /\ xfer = "wait" /\ xfer' \in {"null", "crashed"}
      /\ pc' = IF xfer' = "crashed" THEN "died" ELSE pc
      /\ UNCHANGED <<issued, executed, apdus, answer, rx, cardVars>>
      /\ UNCHANGED <<run, args, call, data_rpos, retries_left, reported, cleartext>>
  BY DEF CallFails, Exchange!GiveUp
<1>2. /\ call.state \in {"first", "next"} /\ pc \notin {"died", "off", "ok", "failed"}
      /\ UNCHANGED <<card, spent, served>>
  BY <1>1 DEF Synced, cardVars
<1>3. /\ SetupFirst' /\ Fragments' /\ Budget' /\ Rest'
      /\ Pending' = Pending /\ PinApdus' = PinApdus
      /\ DataLeft' = DataLeft /\ LastFragment' = LastFragment /\ AuthApdu' = AuthApdu
      /\ FragmentLen' = FragmentLen
  BY <1>1, <1>2, NothingSent
<1>4. TypeOK'  BY <1>1, <1>2 DEF TypeOK, Exchange!TypeOK
<1>5. Synced'  BY <1>1, <1>2, <1>3 DEF Synced
<1>6. ~Calling'  BY <1>1 DEF Calling
<1>7. Asked'  BY <1>1, <1>2, <1>3, <1>6 DEF Asked
<1>8. Replied' /\ Collected'  BY <1>1, <1>2, <1>6 DEF Replied, Collected, CallOk
<1> QED  BY <1>3, <1>4, <1>5, <1>7, <1>8

(* ifd_card_xfer() goes by an answer only if it is about the last APDU:    *)
(* another piece of the response is fetched only after a piece of it, and  *)
(* success is what the card said.                                          *)
LEMMA ReceivedIs ==
    ASSUME PivInv, call.state \in {"first", "next"}, xfer = "ok"
    PROVE  /\ issued \in executed /\ rx \in Answer
           /\ rx.sw[1] = 97 =>
                /\ pc = "decipher" /\ LastFragment /\ served # {}
                /\ rx.data.from \in Nat
                /\ Covers(call.rapdu, rx.data.from) /\ EndOf(rx.data) = card.next
           /\ rx.sw = SUCCESS /\ pc = "verify" => card.pinOk
           /\ rx.sw = SUCCESS /\ pc = "decipher" =>
                IF LastFragment
                THEN /\ served # {} /\ rx.data.from \in Nat /\ Covers(call.rapdu, rx.data.from)
                     /\ EndOf(rx.data) = ResponseSize(args.size)
                ELSE served = {} /\ Covers(card.chain, data_rpos + FragmentLen)
<1> USE DEF PivInv
<1>1. issued \in executed /\ rx \in Arrivals(answer) /\ answer \in Answer /\ Calling
  BY DEF Synced, TypeOK, Calling
<1>2. /\ rx \in Answer
      /\ rx.sw[1] \in {answer.sw[1], 170}
      /\ rx.sw[1] = 97 => rx.data = answer.data /\ answer.sw[1] = 97
      /\ rx.sw = SUCCESS => rx = answer
  BY <1>1, ArrivalsAre
<1>3. /\ pc \in {"select", "probe", "verify", "decipher"}
      /\ pc # "decipher" => call.state = "first"
  BY DEF Synced, TypeOK
<1>4. pc # "decipher" => answer.sw[1] # 97
  <2>1. pc # "decipher" => CallerApdu.ins \in Setup
    BY <1>3 DEF CallerApdu, Apdu, EmptyVerify, Setup
  <2> QED  BY <1>1, <1>3, <2>1 DEF Asked, Replied
<1>5. pc = "decipher" /\ ~LastFragment =>
        answer.sw[1] = 144 /\ served = {} /\ Covers(card.chain, data_rpos + FragmentLen)
  BY <1>1 DEF Replied, SUCCESS
<1>6. pc = "decipher" /\ LastFragment =>
        \/ answer.sw[1] \in {105, 106}
        \/ served # {} /\ Continues(call.rapdu)
  BY <1>1 DEF Replied, Refused, SECURITY_STATUS, INCORRECT_PARAM
<1>7. ASSUME rx.sw[1] = 97
      PROVE  /\ pc = "decipher" /\ LastFragment /\ served # {}
             /\ rx.data.from \in Nat
             /\ Covers(call.rapdu, rx.data.from) /\ EndOf(rx.data) = card.next
  BY <1>2, <1>3, <1>4, <1>5, <1>6, <1>7 DEF Continues
<1>8. rx.sw = SUCCESS => rx = answer /\ answer.sw = SUCCESS /\ answer.sw[1] = 144
  BY <1>2 DEF SUCCESS
<1>9. rx.sw = SUCCESS /\ pc = "verify" => card.pinOk
  BY <1>1, <1>8 DEF Replied
<1>10. ASSUME rx.sw = SUCCESS, pc = "decipher"
       PROVE  IF LastFragment
              THEN /\ served # {} /\ rx.data.from \in Nat /\ Covers(call.rapdu, rx.data.from)
                   /\ EndOf(rx.data) = ResponseSize(args.size)
              ELSE served = {} /\ Covers(card.chain, data_rpos + FragmentLen)
  BY <1>5, <1>6, <1>8, <1>10 DEF Continues
<1> QED  BY <1>1, <1>2, <1>7, <1>9, <1>10

LEMMA ReceiveKeeps == PivInv /\ IfdCardXferReceive => PivInv'
<1> SUFFICES ASSUME PivInv, IfdCardXferReceive PROVE PivInv'  OBVIOUS
<1> DEFINE spans == IF rx.data.len = 0 THEN call.rapdu ELSE Append(call.rapdu, rx.data)
           size == call.size + rx.data.len
           accepted == xfer = "ok" /\ Expected(rx) /\ (call.state = "first" \/ Fits(size))
<1> USE DEF PivInv
<1>1. /\ call.state \in {"first", "next"} /\ xfer \in {"ok", "null"} /\ xfer' = "idle"
      /\ UNCHANGED <<issued, executed, apdus, answer, rx, card, spent, served>>
      /\ UNCHANGED <<run, args, pc, data_rpos, retries_left, reported, cleartext>>
  BY DEF IfdCardXferReceive, Exchange!Return, cardVars
<1>2. call' = IF accepted
              THEN [state |-> IF rx.sw[1] = 97 THEN "more" ELSE "done",
                    rapdu |-> spans,
                    size |-> size,
                    sw |-> rx.sw,
                    want |-> IF rx.sw[2] = 0 THEN 256 ELSE rx.sw[2]]
              ELSE Failure
  BY DEF IfdCardXferReceive
<1> HIDE DEF accepted
<1>3. pc \in {"select", "probe", "verify", "decipher"} /\ ~Calling'
  BY <1>1 DEF Synced, TypeOK, Calling
<1>4. rx \in Answer /\ rx.data \in Spans /\ call.rapdu \in Seq(Spans) /\ spans \in Seq(Spans)
  BY DEF TypeOK, Calls, Answer
<1>5. ASSUME NEW n \in Nat, rx.data.from \in Nat, Covers(call.rapdu, rx.data.from),
             EndOf(rx.data) = n
      PROVE  Covers(spans, n)
  <2>1. rx.data.from \in Nat \cup {Filler} /\ rx.data.len \in Nat  BY <1>4 DEF Spans
  <2>2. rx.data.from \in Nat  BY <1>5
  <2>3. CASE rx.data.len = 0  BY <1>5, <2>1, <2>2, <2>3 DEF EndOf
  <2>4. CASE rx.data.len # 0
    BY <1>4, <1>5, <2>2, <2>4, CoversAppend
  <2> QED  BY <2>3, <2>4
<1>6. /\ SetupFirst' /\ Fragments' /\ Budget' /\ Rest'
      /\ Pending' = Pending /\ PinApdus' = PinApdus
      /\ DataLeft' = DataLeft /\ LastFragment' = LastFragment /\ AuthApdu' = AuthApdu
      /\ FragmentLen' = FragmentLen
  BY <1>1, <1>2, <1>3, NothingSent DEF Failure
<1>7. Replied'  BY <1>3 DEF Replied
<1>8. CASE ~accepted
  <2>1. call' = [state |-> "null", rapdu |-> <<>>, size |-> 0, sw |-> <<0, 0>>, want |-> 0]
    BY <1>2, <1>8 DEF Failure, Idle
  <2>2. <<0, 0>> \in StatusWord  BY DEF StatusWord
  <2>3. TypeOK'  BY <1>1, <2>1, <2>2 DEF TypeOK, Calls, Exchange!TypeOK
  <2>4. Synced'  BY <1>1, <1>3, <1>6, <2>1 DEF Synced
  <2>5. Asked'  BY <1>1, <1>3, <1>6, <2>1 DEF Asked
  <2>6. Collected'  BY <1>1, <1>3, <2>1 DEF Collected, CallOk
  <2> QED  BY <1>6, <1>7, <2>3, <2>4, <2>5, <2>6
<1>9. CASE accepted
  <2>1. /\ call'.state = IF rx.sw[1] = 97 THEN "more" ELSE "done"
        /\ call'.rapdu = spans /\ call'.sw = rx.sw /\ xfer = "ok"
    BY <1>2, <1>9 DEF accepted
  <2>2. rx.sw[1] = 97 =>
          /\ pc = "decipher" /\ LastFragment /\ served # {}
          /\ rx.data.from \in Nat
          /\ Covers(call.rapdu, rx.data.from) /\ EndOf(rx.data) = card.next
    BY <1>1, <2>1, ReceivedIs
  <2>3. /\ issued \in executed
        /\ rx.sw = SUCCESS /\ pc = "verify" => card.pinOk
        /\ rx.sw = SUCCESS /\ pc = "decipher" =>
             IF LastFragment
             THEN /\ served # {} /\ rx.data.from \in Nat /\ Covers(call.rapdu, rx.data.from)
                  /\ EndOf(rx.data) = ResponseSize(args.size)
             ELSE served = {} /\ Covers(card.chain, data_rpos + FragmentLen)
    BY <1>1, <2>1, ReceivedIs
  <2>4. card.next \in Nat /\ ResponseSize(args.size) \in Nat
    BY SizesArePositive DEF TypeOK, CommandLine
  <2>5. TypeOK'
    <3>1. rx.sw \in StatusWord /\ rx.sw[2] \in 0..255  BY <1>4 DEF Answer, StatusWord
    <3>2. call' \in Calls
      <4> DEFINE want == IF rx.sw[2] = 0 THEN 256 ELSE rx.sw[2]
                 state == IF rx.sw[1] = 97 THEN "more" ELSE "done"
      <4>1. want \in 0..256  BY <3>1
      <4>2. state \in {"more", "done"}  OBVIOUS
      <4>3. call' = [state |-> state, rapdu |-> spans, size |-> size, sw |-> rx.sw,
                          want |-> want]
        BY <1>2, <1>9
      <4>4. size \in Nat  BY <1>4 DEF TypeOK, Calls, Spans
      <4> HIDE DEF want, state, spans, size
      <4> QED  BY <1>4, <3>1, <4>1, <4>2, <4>3, <4>4 DEF Calls
    <3> QED  BY <1>1, <3>2 DEF TypeOK, Exchange!TypeOK
  <2>6. Synced'
    <3>1. rx.sw[2] \in 0..255  BY <1>4 DEF Answer, StatusWord
    <3>2. call'.want = IF rx.sw[2] = 0 THEN 256 ELSE rx.sw[2]  BY <1>2, <1>9
    <3>3. call'.want > 0  BY <3>1, <3>2
    <3> QED  BY <1>1, <1>3, <1>6, <2>1, <2>2, <3>3 DEF Synced
  <2>7. Asked'  BY <1>1, <1>3, <1>6, <2>1 DEF Asked
  <2>8. Collected'
    <3>1. call'.state = "more" => served # {} /\ Covers(spans, card.next)
      BY <1>5, <2>1, <2>2, <2>4
    <3>2. CallOk' /\ pc = "decipher" /\ LastFragment =>
            served # {} /\ Covers(spans, ResponseSize(args.size))
      BY <1>5, <2>1, <2>3, <2>4 DEF CallOk
    <3> HIDE DEF spans
    <3> QED  BY <1>1, <1>3, <1>6, <2>1, <2>3, <3>1, <3>2 DEF Collected, CallOk
  <2> QED  BY <1>6, <1>7, <2>5, <2>6, <2>7, <2>8
<1> QED  BY <1>8, <1>9

-------------------------------------------------------------------------------
(* The caller goes on *)

(* Between two calls nothing is under way but what the card may still do.  *)
LEMMA ReturnsKeep ==
    ASSUME PivInv, call.state \in {"idle", "done", "null"},
           call' = Idle \/ (call' = call /\ call.state = "idle"),
           UNCHANGED <<run, args, exchangeVars, cardVars>>,
           pc \in {"select", "probe", "verify", "decipher"}
    PROVE  /\ Budget' /\ Rest' /\ Replied' /\ xfer' = "idle" /\ xfer = "idle"
           /\ Pending' = Pending /\ PinApdus' = PinApdus /\ ~Calling' /\ ~CallOk'
           /\ call'.state = "idle" /\ call'.rapdu = <<>>
           /\ call' \in Calls
           /\ UNCHANGED <<issued, executed, apdus, answer, rx, card, spent, served>>
<1> USE DEF PivInv
<1>1. UNCHANGED <<issued, executed, apdus, answer, rx, card, spent, served, xfer, args, run>>
  BY DEF exchangeVars, cardVars
<1>2. xfer = "idle"  BY DEF Synced
<1>3. Idle = [state |-> "idle", rapdu |-> <<>>, size |-> 0, sw |-> <<0, 0>>, want |-> 0]  BY DEF Idle
<1>4. <<0, 0>> \in StatusWord  BY DEF StatusWord
<1>5. /\ call'.state = "idle" /\ call'.rapdu = <<>>
      /\ call' \in Calls
  <2>1. CASE call' = Idle  BY <1>3, <1>4, <2>1 DEF Calls
  <2>2. CASE call' = call /\ call.state = "idle"
    <3>1. call.rapdu = <<>>  BY <2>2 DEF Synced
    <3>2. call \in Calls
      BY DEF TypeOK
    <3> QED  BY <2>2, <3>1, <3>2
  <2> QED  BY <2>1, <2>2
<1>6. ~Calling' /\ ~CallOk'  BY <1>5 DEF Calling, CallOk
<1>7. Pending' = Pending /\ PinApdus' = PinApdus  BY <1>1 DEF Pending, PinApdus
<1>8. Budget' /\ Rest' /\ Replied'  BY <1>1, <1>6, <1>7 DEF Budget, Rest, Replied
<1> QED  BY <1>1, <1>2, <1>5, <1>6, <1>7, <1>8

(* The run ends without a cleartext.                                       *)
LEMMA FailingKeeps ==
    ASSUME PivInv, call.state \in {"idle", "done", "null"},
           call' = Idle \/ (call' = call /\ call.state = "idle"),
           UNCHANGED <<run, args, data_rpos, exchangeVars, cardVars>>,
           pc \in {"select", "probe", "verify", "decipher"}, pc' = "failed"
    PROVE  Synced' /\ Asked' /\ Budget' /\ SetupFirst' /\ Fragments' /\ Rest' /\ Replied' /\ Collected'
<1> USE DEF PivInv
<1>1. /\ Budget' /\ Rest' /\ Replied' /\ xfer' = "idle" /\ xfer = "idle"
      /\ Pending' = Pending /\ PinApdus' = PinApdus /\ ~Calling' /\ ~CallOk'
      /\ call'.state = "idle" /\ call'.rapdu = <<>>
      /\ UNCHANGED <<issued, executed, apdus, answer, rx, card, spent, served>>
  BY ReturnsKeep
<1>2. DataLeft' = DataLeft /\ AuthApdu' = AuthApdu
  BY DEF DataLeft, AuthApdu, Apdu, Fragment, FragmentLen
<1>3. Synced'  BY <1>1 DEF Synced
<1>4. Asked'  BY <1>1 DEF Asked
<1>5. SetupFirst'  BY <1>1 DEF SetupFirst
<1>6. Fragments'  BY <1>1, <1>2 DEF Fragments
<1>7. Collected'  BY <1>1 DEF Collected
<1> QED  BY <1>1, <1>3, <1>4, <1>5, <1>6, <1>7

(* The run comes to yubikey_decipher().                                    *)
LEMMA DecipherBegins ==
    ASSUME PivInv, call' = Idle, call.state \in {"done", "null"},
           UNCHANGED <<run, args, data_rpos, exchangeVars, cardVars>>,
           pc \in {"probe", "verify"}, pc' = "decipher",
           args.pin = "none" \/ (CallOk /\ pc = "verify")
    PROVE  Synced' /\ Asked' /\ Budget' /\ SetupFirst' /\ Fragments' /\ Rest' /\ Replied' /\ Collected'
<1> USE DEF PivInv
<1>1. /\ Budget' /\ Rest' /\ Replied' /\ xfer' = "idle" /\ xfer = "idle"
      /\ Pending' = Pending /\ PinApdus' = PinApdus /\ ~Calling' /\ ~CallOk'
      /\ call'.state = "idle" /\ call'.rapdu = <<>>
      /\ UNCHANGED <<issued, executed, apdus, answer, rx, card, spent, served>>
  BY ReturnsKeep
<1>2. data_rpos = 0 /\ \A k \in 1..issued : apdus[k].ins \in Setup  BY DEF Asked
<1>3. card.chain = <<>> /\ served = {}  BY <1>2 DEF SetupFirst
<1>4. Pending \subseteq 1..issued  BY DEF Pending
<1>5. DataLeft' > 0
  <2>1. EncodedSize(args.size) \in Nat \ {0}  BY SizesArePositive DEF TypeOK, CommandLine
  <2> QED  BY <1>2, <2>1 DEF DataLeft
<1>6. args.pin # "none" => card.pinOk /\ Pending = {}
  BY NothingPending DEF Collected
<1>7. Synced'  BY <1>1 DEF Synced
<1>8. Asked'
  <2>1. pc = "probe" => PinApdus = {}  BY DEF Asked
  <2>2. \A k \in PinApdus : apdus[k].pin = args.pin /\ \A l \in PinApdus : k = l  BY DEF Asked
  <2> QED  BY <1>1, <2>1, <2>2 DEF Asked
<1>9. SetupFirst'  BY <1>1, <1>2, <1>3, <1>6 DEF SetupFirst
<1>10. Fragments'
  <2>1. \A k \in Pending : apdus[k].ins \in Setup /\ apdus[k].ins \notin Keyed
                           /\ apdus[k].ins # "AUTHENTICATE"
    BY <1>2, <1>4 DEF Setup, Keyed
  <2> QED  BY <1>1, <1>2, <1>3, <1>5, <2>1, CoversNothing DEF Fragments
<1>11. Collected'  BY <1>1 DEF Collected
<1> QED  BY <1>1, <1>7, <1>8, <1>9, <1>10, <1>11

LEMMA SelectReturnKeeps == PivInv /\ SelectApplicationReturn => PivInv'
<1> SUFFICES ASSUME PivInv, SelectApplicationReturn PROVE PivInv'  OBVIOUS
<1> USE DEF PivInv
<1>1. /\ pc = "select" /\ call' = Idle /\ call.state \in {"done", "null"}
      /\ pc' \in {"probe", "failed"}
      /\ UNCHANGED <<run, args, data_rpos, retries_left, reported, cleartext, exchangeVars, cardVars>>
  BY DEF SelectApplicationReturn, CallReturns
<1>2. /\ Budget' /\ Rest' /\ Replied' /\ xfer' = "idle" /\ xfer = "idle"
      /\ Pending' = Pending /\ PinApdus' = PinApdus /\ ~Calling' /\ ~CallOk'
      /\ call'.state = "idle" /\ call'.rapdu = <<>>
      /\ call' \in Calls
      /\ UNCHANGED <<issued, executed, apdus, answer, rx, card, spent, served>>
  BY <1>1, ReturnsKeep
<1>3. TypeOK'  BY <1>1, <1>2 DEF TypeOK, Exchange!TypeOK
<1>4. CASE pc' = "failed"  BY <1>1, <1>3, <1>4, FailingKeeps
<1>5. CASE pc' = "probe"
  <2>1. DataLeft' = DataLeft /\ AuthApdu' = AuthApdu
    BY <1>1 DEF DataLeft, AuthApdu, Apdu, Fragment, FragmentLen
  <2>2. Synced'  BY <1>2, <1>5 DEF Synced
  <2>3. Asked'  BY <1>1, <1>2, <1>5 DEF Asked
  <2>4. SetupFirst'  BY <1>1, <1>2, <1>5 DEF SetupFirst
  <2>5. Fragments'  BY <1>1, <1>2, <1>5, <2>1 DEF Fragments
  <2>6. Collected'  BY <1>2, <1>5 DEF Collected
  <2> QED  BY <1>2, <1>3, <2>2, <2>3, <2>4, <2>5, <2>6
<1> QED  BY <1>1, <1>4, <1>5

LEMMA ProbeReturnKeeps == PivInv /\ ProbePinReturn => PivInv'
<1> SUFFICES ASSUME PivInv, ProbePinReturn PROVE PivInv'  OBVIOUS
<1> USE DEF PivInv
<1>1. /\ pc = "probe" /\ call' = Idle /\ call.state \in {"done", "null"}
      /\ pc' = IF args.pin = "none" THEN "decipher" ELSE "verify"
      /\ UNCHANGED <<run, args, data_rpos, retries_left, reported, cleartext, exchangeVars, cardVars>>
  BY DEF ProbePinReturn, CallReturns
<1>2. /\ Budget' /\ Rest' /\ Replied' /\ xfer' = "idle" /\ xfer = "idle"
      /\ Pending' = Pending /\ PinApdus' = PinApdus /\ ~Calling' /\ ~CallOk'
      /\ call'.state = "idle" /\ call'.rapdu = <<>>
      /\ call' \in Calls
      /\ UNCHANGED <<issued, executed, apdus, answer, rx, card, spent, served>>
  BY <1>1, ReturnsKeep
<1>3. TypeOK'  BY <1>1, <1>2 DEF TypeOK, Exchange!TypeOK
<1>4. CASE args.pin = "none"  BY <1>1, <1>3, <1>4, DecipherBegins
<1>5. CASE args.pin # "none"
  <2>1. DataLeft' = DataLeft /\ AuthApdu' = AuthApdu /\ pc' = "verify"
    BY <1>1, <1>5 DEF DataLeft, AuthApdu, Apdu, Fragment, FragmentLen
  <2>2. Synced'  BY <1>2, <2>1 DEF Synced
  <2>3. Asked'
    <3>1. PinApdus = {}  BY <1>1 DEF Asked
    <3> QED  BY <1>1, <1>2, <1>5, <2>1, <3>1 DEF Asked
  <2>4. SetupFirst'  BY <1>1, <1>2, <2>1 DEF SetupFirst
  <2>5. Fragments'  BY <1>1, <1>2, <2>1 DEF Fragments
  <2>6. Collected'  BY <1>2, <2>1 DEF Collected
  <2> QED  BY <1>2, <1>3, <2>2, <2>3, <2>4, <2>5, <2>6
<1> QED  BY <1>4, <1>5

LEMMA NLeftIs == ASSUME NEW sw \in StatusWord PROVE NLeft(sw) \in 0..15
<1>1. sw[2] \in 0..255  BY DEF StatusWord
<1> QED  BY <1>1 DEF NLeft

LEMMA VerifyReturnKeeps == PivInv /\ VerifyPinReturn => PivInv'
<1> SUFFICES ASSUME PivInv, VerifyPinReturn PROVE PivInv'  OBVIOUS
<1> USE DEF PivInv
<1>1. /\ pc = "verify" /\ call' = Idle /\ call.state \in {"done", "null"}
      /\ UNCHANGED <<run, args, data_rpos, cleartext, exchangeVars, cardVars>>
      /\ \/ CallOk /\ pc' = "decipher" /\ UNCHANGED <<retries_left, reported>>
         \/ /\ pc' = "failed" /\ retries_left' = reported'
            /\ retries_left' \in {NLeft(call.sw), retries_left}
  BY DEF VerifyPinReturn, CallReturns, VerifyAccepts, WrongPin
<1>2. /\ xfer' = "idle"
      /\ call' \in Calls
      /\ UNCHANGED <<issued, executed, apdus, answer, rx, card, spent, served>>
  BY <1>1, ReturnsKeep
<1>3. TypeOK'
  <2>1. retries_left' \in {Uninitialized} \cup 0..15
    <3>1. NLeft(call.sw) \in 0..15  BY NLeftIs DEF TypeOK, Calls
    <3> QED  BY <1>1, <3>1 DEF TypeOK
  <2>2. reported' \in {NotReported, Uninitialized} \cup 0..15  BY <1>1, <2>1 DEF TypeOK
  <2>3. pc' \in {"decipher", "failed"}  BY <1>1
  <2> HIDE DEF PivInv
  <2>4. TypeOK  BY DEF PivInv
  <2> QED  BY <1>1, <1>2, <2>1, <2>2, <2>3, <2>4 DEF TypeOK, Exchange!TypeOK
<1>4. CASE pc' = "failed"  BY <1>1, <1>3, <1>4, FailingKeeps
<1>5. CASE pc' # "failed"  BY <1>1, <1>3, <1>5, DecipherBegins
<1> QED  BY <1>4, <1>5

LEMMA NoCallKeeps == PivInv /\ (VerifyPinTooLong \/ DecipherWrongSize) => PivInv'
<1> SUFFICES ASSUME PivInv, VerifyPinTooLong \/ DecipherWrongSize PROVE PivInv'  OBVIOUS
<1> USE DEF PivInv
<1>1. /\ pc \in {"verify", "decipher"} /\ call.state = "idle" /\ call' = call /\ pc' = "failed"
      /\ UNCHANGED <<run, args, data_rpos, cleartext, exchangeVars, cardVars>>
      /\ retries_left' = retries_left /\ reported' \in {reported, retries_left}
  BY DEF VerifyPinTooLong, DecipherWrongSize, WrongPin, Synced
<1>2. UNCHANGED <<issued, xfer, executed, apdus, answer, rx, card, spent, served>>
  BY <1>1 DEF exchangeVars, cardVars
<1>3. TypeOK'  BY <1>1, <1>2 DEF TypeOK, Exchange!TypeOK
<1> QED  BY <1>1, <1>3, FailingKeeps

LEMMA DecipherReturnKeeps == PivInv /\ DecipherReturn => PivInv'
<1> SUFFICES ASSUME PivInv, DecipherReturn PROVE PivInv'  OBVIOUS
<1> USE DEF PivInv
<1>1. /\ pc = "decipher" /\ call' = Idle /\ call.state \in {"done", "null"}
      /\ UNCHANGED <<run, args, retries_left, reported, exchangeVars, cardVars>>
  BY DEF DecipherReturn, CallReturns
<1>2. \/ pc' = "failed" /\ UNCHANGED <<data_rpos, cleartext>>
      \/ /\ CallOk /\ data_rpos' = data_rpos + FragmentLen
         /\ \/ data_rpos' < EncodedSize(args.size) /\ UNCHANGED <<pc, cleartext>>
            \/ /\ data_rpos' = EncodedSize(args.size)
               /\ \/ pc' = "ok" /\ args.ours /\ cleartext' = call.rapdu
                  \/ pc' = "failed" /\ cleartext' = <<>>
  BY DEF DecipherReturn, FragmentTaken, Decoded
<1>3. /\ Budget' /\ Rest' /\ Replied' /\ xfer' = "idle" /\ xfer = "idle"
      /\ Pending' = Pending /\ PinApdus' = PinApdus /\ ~Calling' /\ ~CallOk'
      /\ call'.state = "idle" /\ call'.rapdu = <<>>
      /\ call' \in Calls
      /\ UNCHANGED <<issued, executed, apdus, answer, rx, card, spent, served>>
  BY <1>1, ReturnsKeep
<1>4. CASE pc' = "failed" /\ UNCHANGED <<data_rpos, cleartext>>
  <2>1. TypeOK'  BY <1>1, <1>3, <1>4 DEF TypeOK, Exchange!TypeOK
  <2> QED  BY <1>1, <1>4, <2>1, FailingKeeps
<1>5. CASE /\ CallOk /\ data_rpos' = data_rpos + FragmentLen
           /\ data_rpos' < EncodedSize(args.size) /\ UNCHANGED <<pc, cleartext>>
  <2>1. data_rpos' \in Nat /\ ~LastFragment
    BY <1>1, <1>5, FragmentIs DEF Fragments
  <2>2. served = {} /\ Covers(card.chain, data_rpos') /\ Pending = {}
    BY <1>1, <1>5, <2>1, NothingPending DEF Collected
  <2>3. DataLeft' > 0
    <3>1. EncodedSize(args.size) \in Nat  BY SizesArePositive DEF TypeOK, CommandLine
    <3> QED  BY <1>1, <1>5, <2>1, <3>1 DEF DataLeft
  <2>4. TypeOK'  BY <1>1, <1>3, <1>5, <2>1 DEF TypeOK, Exchange!TypeOK
  <2>5. Synced'  BY <1>1, <1>3, <1>5 DEF Synced
  <2>6. Asked'  BY <1>1, <1>3, <1>5 DEF Asked
  <2>7. SetupFirst'  BY <1>1, <1>3, <1>5, <2>2 DEF SetupFirst
  <2>8. Fragments'  BY <1>1, <1>3, <1>5, <2>2, <2>3 DEF Fragments
  <2>9. Collected'  BY <1>1, <1>3, <1>5 DEF Collected
  <2> QED  BY <1>3, <2>4, <2>5, <2>6, <2>7, <2>8, <2>9
<1>6. CASE /\ CallOk /\ data_rpos' = data_rpos + FragmentLen
           /\ data_rpos' = EncodedSize(args.size)
           /\ \/ pc' = "ok" /\ args.ours /\ cleartext' = call.rapdu
              \/ pc' = "failed" /\ cleartext' = <<>>
  <2>1. data_rpos' \in Nat /\ LastFragment
    BY <1>1, <1>6, FragmentIs DEF Fragments
  <2>2. /\ issued \in executed /\ served # {} /\ Covers(call.rapdu, ResponseSize(args.size))
        /\ Pending = {}
    BY <1>1, <1>6, <2>1, NothingPending DEF Collected
  <2>3. cleartext' \in Seq(Spans)
    <3>1. call.rapdu \in Seq(Spans)  BY DEF TypeOK, Calls
    <3>2. cleartext' \in {call.rapdu, <<>>}  BY <1>6
    <3>3. <<>> \in Seq(Spans)  OBVIOUS
    <3> QED  BY <3>1, <3>2, <3>3
  <2>4. TypeOK'  BY <1>1, <1>3, <1>6, <2>1, <2>3 DEF TypeOK, Exchange!TypeOK
  <2>5. Synced'  BY <1>1, <1>3, <1>6 DEF Synced
  <2>6. Asked'  BY <1>1, <1>3, <1>6 DEF Asked
  <2>7. SetupFirst'  BY <1>1, <1>3, <1>6, <2>2 DEF SetupFirst
  <2>8. Fragments'  BY <1>1, <1>3, <1>6, <2>2 DEF Fragments
  <2>9. Collected'  BY <1>1, <1>3, <1>6, <2>2 DEF Collected
  <2> QED  BY <1>3, <2>4, <2>5, <2>6, <2>7, <2>8, <2>9
<1> HIDE DEF PivInv
<1> QED  BY <1>2, <1>4, <1>5, <1>6

-------------------------------------------------------------------------------
(* The card carries out an APDU *)

(* Which APDU the call under way is about                                  *)
LEMMA CallIs ==
    ASSUME PivInv, Calling
    PROVE  /\ pc = "verify" => apdus[issued].ins = "VERIFY"
           /\ pc = "decipher" => \/ call.state = "first" /\ apdus[issued] = AuthApdu
                                 \/ /\ call.state = "next" /\ apdus[issued].ins = "GET_RESPONSE"
                                    /\ LastFragment
<1> USE DEF PivInv
<1>1. call.state \in {"first", "next"}  BY DEF Calling
<1>2. CASE call.state = "first"
  <2>1. apdus[issued] = CallerApdu  BY <1>2 DEF Asked
  <2> QED  BY <1>2, <2>1 DEF CallerApdu, Apdu
<1>3. CASE call.state = "next"
  <2>1. apdus[issued].ins = "GET_RESPONSE" /\ pc \in {"decipher", "died"} /\ LastFragment
    BY <1>3 DEF Asked, Synced
  <2> QED  BY <1>3, <2>1
<1> QED  BY <1>1, <1>2, <1>3

(* The card goes in order, and only while the host is waiting or has given *)
(* up: then it is the last APDU, once the private key is involved.         *)
LEMMA ExecuteIs ==
    ASSUME PivInv, NEW n \in 1..issued, Exchange!Execute(n), UNCHANGED <<hostVars, apdus, rx>>
    PROVE  /\ n \in Pending /\ n \notin executed /\ executed' = executed \cup {n}
           /\ executed' \subseteq 1..issued /\ issued' = issued /\ xfer' = xfer
           /\ Pending' \subseteq Pending /\ PinApdus' = PinApdus
           /\ issued \in executed' => n = issued
           /\ n = issued => Pending' = {}
           /\ UNCHANGED <<pc, args, call, data_rpos, cleartext>>
           /\ DataLeft' = DataLeft /\ LastFragment' = LastFragment /\ AuthApdu' = AuthApdu
           /\ FragmentLen' = FragmentLen /\ Calling' = Calling
           /\ served # {} \/ data_rpos > 0 => n = issued /\ apdus[n].ins \in Keyed
           /\ apdus[n].ins \in Keyed => n = issued /\ ~(pc = "decipher" /\ call.state = "idle")
           /\ Synced' /\ Asked' /\ Collected'
<1> USE DEF PivInv
<1>1. issued \in Nat /\ executed \subseteq 1..issued  BY DEF TypeOK, Exchange!TypeOK
<1>2. /\ \A m \in executed : m < n
      /\ executed' = executed \cup {n} /\ issued' = issued /\ xfer' = xfer
  BY DEF Exchange!Execute
<1>3. n \in Pending /\ n \notin executed /\ issued \notin executed
  <2>1. n \in Int  BY <1>1
  <2>2. n \notin executed  BY <1>2, <2>1
  <2>3. issued \notin executed  BY <1>1, <1>2
  <2> QED  BY <1>2, <2>2, <2>3 DEF Pending
<1>4. Pending' \subseteq Pending /\ (n = issued => Pending' = {})
  <2>1. ASSUME NEW k \in Pending'  PROVE k \in Pending /\ k \in 1..issued /\ n < k
    BY <1>2, <2>1 DEF Pending
  <2>2. n = issued => Pending' = {}  BY <1>1, <2>1
  <2> QED  BY <2>1, <2>2
<1>5. UNCHANGED <<run, pc, args, call, data_rpos, cleartext, apdus, rx>>  BY DEF hostVars
<1>6. /\ DataLeft' = DataLeft /\ LastFragment' = LastFragment /\ AuthApdu' = AuthApdu
      /\ FragmentLen' = FragmentLen /\ Calling' = Calling /\ PinApdus' = PinApdus
  BY <1>2, <1>5 DEF DataLeft, LastFragment, AuthApdu, Apdu, Fragment, FragmentLen, Calling,
                    PinApdus
<1>7. apdus[n].ins \in Keyed => n = issued /\ ~(pc = "decipher" /\ call.state = "idle")
  BY <1>3 DEF Fragments, Keyed, Setup
<1>8. served # {} \/ data_rpos > 0 => n = issued /\ apdus[n].ins \in Keyed
  BY <1>3, <1>7 DEF SetupFirst
<1>9. Synced'  BY <1>2, <1>3, <1>5, <1>6 DEF Synced
<1>10. Asked'
  <2>1. CallerApdu' = CallerApdu  BY <1>5, <1>6 DEF CallerApdu, EmptyVerify
  <2> QED  BY <1>2, <1>5, <1>6, <2>1 DEF Asked
<1>11. Collected'
  <2>1. call.state # "more" /\ pc # "ok" /\ (CallOk => pc \notin {"verify", "decipher"})
    BY <1>3 DEF Collected
  <2>2. call.state = "next" /\ Calling => issued \in executed'
    BY <1>2, <1>3, <1>8 DEF Collected
  <2>3. CallOk' = CallOk  BY <1>5 DEF CallOk
  <2> QED  BY <1>2, <1>5, <1>6, <2>1, <2>2, <2>3 DEF Collected
<1> QED  BY <1>1, <1>2, <1>3, <1>4, <1>5, <1>6, <1>7, <1>8, <1>9, <1>10, <1>11

(* What the card changes is its own state and its answer.                  *)
LEMMA CardTypes ==
    ASSUME TypeOK, NEW n \in 1..issued, Exchange!Execute(n), UNCHANGED <<hostVars, apdus, rx>>,
           card' \in [tries : 0..MaxTries, endless : BOOLEAN, pinOk : BOOLEAN,
                      chain : Seq(Spans), next : Nat, left : Nat],
           answer' \in Answer, spent' \in Nat,
           served' \subseteq [spans : Seq(Spans), pinOk : BOOLEAN]
    PROVE  TypeOK'
<1>1. UNCHANGED <<run, args, pc, call, data_rpos, retries_left, reported, cleartext, apdus, rx>>
  BY DEF hostVars
<1>2. Exchange!TypeOK' /\ issued' = issued  BY DEF TypeOK, Exchange!TypeOK, Exchange!Execute
<1> QED  BY <1>1, <1>2 DEF TypeOK

(* The card does nothing for a key: SELECT and VERIFY.  The argument is    *)
(* the same for both.                                                      *)
LEMMA SetupExecuted ==
    ASSUME PivInv, NEW n \in 1..issued, Exchange!Execute(n), UNCHANGED <<hostVars, apdus, rx>>,
           apdus[n].ins \in Setup, UNCHANGED served, card'.chain = <<>>, card'.left = 0,
           answer'.data = NoData, answer'.sw[1] # 97,
           apdus[n].ins = "VERIFY" => (answer'.sw = SUCCESS => card'.pinOk)
    PROVE  SetupFirst' /\ Fragments' /\ Rest' /\ Replied'
<1> USE DEF PivInv
<1>1. /\ n \in Pending /\ executed' = executed \cup {n} /\ issued' = issued
      /\ Pending' \subseteq Pending
      /\ issued \in executed' => n = issued
      /\ UNCHANGED <<pc, args, call, data_rpos, apdus>>
      /\ DataLeft' = DataLeft /\ LastFragment' = LastFragment /\ AuthApdu' = AuthApdu
      /\ Calling' = Calling
      /\ served # {} \/ data_rpos > 0 => n = issued /\ apdus[n].ins \in Keyed
  BY ExecuteIs
<1>2. apdus[n].ins \notin Keyed /\ apdus[n].ins \notin {"AUTHENTICATE", "GET_RESPONSE"}
  BY DEF Setup, Keyed
<1>3. served = {} /\ data_rpos = 0 /\ served' = {} /\ data_rpos' = 0
  BY <1>1, <1>2 DEF TypeOK
<1>4. ~(args.pin # "none" /\ (pc = "decipher" \/ \E k \in 1..issued : apdus[k].ins \in Keyed))
  BY <1>1, <1>2 DEF SetupFirst
<1>5. SetupFirst'  BY <1>1, <1>3, <1>4 DEF SetupFirst
<1>6. Fragments'  BY <1>1, <1>3, CoversNothing DEF Fragments
<1>7. Rest'  BY <1>3 DEF Rest
<1>8. Replied'
  <2>1. ASSUME issued \in executed', Calling
        PROVE  pc # "decipher" /\ (pc = "verify" => apdus[n].ins = "VERIFY")
    BY <1>1, <1>2, <2>1, CallIs DEF AuthApdu, Apdu
  <2> QED  BY <1>1, <2>1 DEF Replied
<1> QED  BY <1>5, <1>6, <1>7, <1>8

LEMMA SelectExecuted ==
    ASSUME PivInv, NEW n \in 1..issued, Exchange!Execute(n), UNCHANGED <<hostVars, apdus, rx>>,
           apdus[n].ins = "SELECT", CardSelects
    PROVE  PivInv'
<1> USE DEF PivInv
<1>1. /\ executed' = executed \cup {n} /\ executed' \subseteq 1..issued
      /\ issued' = issued /\ xfer' = xfer /\ PinApdus' = PinApdus
      /\ Synced' /\ Asked' /\ Collected'
  BY ExecuteIs
<1>2. card' = FreshCard(card.tries, card.endless) /\ UNCHANGED <<spent, served>>
      /\ \E sw \in {SUCCESS, FILE_NOT_FOUND} : answer' = [data |-> NoData, sw |-> sw]
  BY DEF CardSelects, Says
<1>3. /\ card'.chain = <<>> /\ card'.left = 0 /\ card'.pinOk = FALSE
      /\ card' \in [tries : 0..MaxTries, endless : BOOLEAN, pinOk : BOOLEAN,
                    chain : Seq(Spans), next : Nat, left : Nat]
  BY <1>2 DEF FreshCard, TypeOK
<1>4. answer'.data = NoData /\ answer'.sw \in {<<144, 0>>, <<106, 130>>} /\ answer' \in Answer
  <2>1. NoData \in Spans /\ <<144, 0>> \in StatusWord /\ <<106, 130>> \in StatusWord
    BY DEF NoData, Span, Spans, StatusWord
  <2> QED  BY <1>2, <2>1 DEF SUCCESS, FILE_NOT_FOUND, Answer
<1>5. TypeOK'
  <2>1. spent' \in Nat /\ served' \subseteq [spans : Seq(Spans), pinOk : BOOLEAN]
    BY <1>2 DEF TypeOK
  <2> QED  BY <1>3, <1>4, <2>1, CardTypes
<1>6. Budget'  BY <1>1, <1>2, <1>3 DEF Budget
<1>7. SetupFirst' /\ Fragments' /\ Rest' /\ Replied'
  BY <1>2, <1>3, <1>4, SetupExecuted DEF Setup
<1> QED  BY <1>1, <1>5, <1>6, <1>7

(* What a VERIFY does to the card, and what it says to it                  *)
LEMMA VerifyIs ==
    ASSUME TypeOK, NEW pin \in {"none", "right", "wrong"}, CardVerifies(pin)
    PROVE  /\ card' \in [tries : 0..MaxTries, endless : BOOLEAN, pinOk : BOOLEAN,
                         chain : Seq(Spans), next : Nat, left : Nat]
           /\ card'.chain = <<>> /\ card'.left = 0
           /\ card'.pinOk <=> card.pinOk \/ (pin = "right" /\ card.tries > 0)
           /\ answer' \in Answer /\ answer'.data = NoData /\ answer'.sw[1] \in {144, 105, 99}
           /\ answer'.sw = SUCCESS => card'.pinOk
<1> DEFINE tries == CASE pin = "none" \/ card.tries = 0 -> card.tries
                      [] pin = "right" /\ card.tries > 0 -> MaxTries
                      [] pin = "wrong" /\ card.tries > 0 -> card.tries - 1
           pinOk == card.pinOk \/ (pin = "right" /\ card.tries > 0)
           sw == IF pinOk THEN SUCCESS
                 ELSE IF card.tries = 0 THEN AUTH_BLOCKED ELSE TriesSW(tries)
<1>1. card.tries \in 0..MaxTries /\ MaxTries \in 1..15  BY SizesAssumption DEF TypeOK
<1>2. tries \in 0..MaxTries
  <2>1. CASE pin = "none" \/ card.tries = 0  BY <1>1, <2>1
  <2>2. CASE pin = "right" /\ card.tries > 0  BY <1>1, <2>2
  <2>3. CASE pin = "wrong" /\ card.tries > 0  BY <1>1, <2>3
  <2> QED  BY <1>1, <2>1, <2>2, <2>3
<1>3. card' = [card EXCEPT !.chain = <<>>, !.left = 0, !.tries = tries, !.pinOk = pinOk]
  BY DEF CardVerifies, TypeOK
<1>4. pinOk \in BOOLEAN  OBVIOUS
<1> HIDE DEF tries, pinOk
<1>5. /\ card' \in [tries : 0..MaxTries, endless : BOOLEAN, pinOk : BOOLEAN,
                    chain : Seq(Spans), next : Nat, left : Nat]
      /\ card'.chain = <<>> /\ card'.left = 0 /\ card'.tries = tries /\ card'.pinOk = pinOk
  <2>1. card \in [tries : 0..MaxTries, endless : BOOLEAN, pinOk : BOOLEAN,
                  chain : Seq(Spans), next : Nat, left : Nat]
    BY DEF TypeOK
  <2>2. card' = [tries |-> tries, endless |-> card.endless, pinOk |-> pinOk, chain |-> <<>>,
                 next |-> card.next, left |-> 0]
    BY <1>3, <2>1
  <2>3. <<>> \in Seq(Spans)  OBVIOUS
  <2> QED  BY <1>2, <1>4, <2>1, <2>2, <2>3
<1>6. answer' = [data |-> NoData, sw |-> sw]
  <2>1. answer' = [data |-> NoData,
                   sw |-> IF card'.pinOk THEN SUCCESS
                          ELSE IF card.tries = 0 THEN AUTH_BLOCKED ELSE TriesSW(card'.tries)]
    BY DEF CardVerifies, Says
  <2> QED  BY <1>5, <2>1
<1>7. sw \in {<<144, 0>>, <<105, 131>>, <<99, 192 + tries>>} /\ (sw = SUCCESS => pinOk)
  BY DEF SUCCESS, AUTH_BLOCKED, TriesSW
<1>8. sw \in StatusWord /\ sw[1] \in {144, 105, 99}
  <2>1. 192 + tries \in 0..255  BY <1>1, <1>2
  <2> QED  BY <1>7, <2>1 DEF StatusWord
<1>9. NoData \in Spans  BY DEF NoData, Span, Spans
<1> QED  BY <1>5, <1>6, <1>7, <1>8, <1>9 DEF Answer, pinOk

LEMMA VerifyExecuted ==
    ASSUME PivInv, NEW n \in 1..issued, Exchange!Execute(n), UNCHANGED <<hostVars, apdus, rx>>,
           apdus[n].ins = "VERIFY", CardVerifies(apdus[n].pin)
    PROVE  PivInv'
<1> USE DEF PivInv
<1>1. /\ n \in Pending /\ n \notin executed
      /\ executed' = executed \cup {n} /\ executed' \subseteq 1..issued
      /\ issued' = issued /\ xfer' = xfer /\ PinApdus' = PinApdus
      /\ Synced' /\ Asked' /\ Collected'
  BY ExecuteIs
<1>2. apdus[n].pin \in {"none", "right", "wrong"}
  <2>1. apdus \in Seq(Apdus) /\ n \in 1..Len(apdus)  BY DEF TypeOK
  <2>2. apdus[n] \in Apdus  BY <2>1
  <2> QED  BY <2>2 DEF Apdus
<1>3. /\ card' \in [tries : 0..MaxTries, endless : BOOLEAN, pinOk : BOOLEAN,
                    chain : Seq(Spans), next : Nat, left : Nat]
      /\ card'.chain = <<>> /\ card'.left = 0
      /\ card'.pinOk <=> card.pinOk \/ (apdus[n].pin = "right" /\ card.tries > 0)
      /\ answer' \in Answer /\ answer'.data = NoData /\ answer'.sw[1] \in {144, 105, 99}
      /\ answer'.sw = SUCCESS => card'.pinOk
  BY <1>2, VerifyIs
<1>4. /\ UNCHANGED served
      /\ spent' = IF apdus[n].pin # "none" /\ card.tries > 0 THEN spent + 1 ELSE spent
  BY DEF CardVerifies
<1>5. Budget'
  <2>1. CASE apdus[n].pin = "none"
    <3>1. spent' = spent /\ card'.pinOk = card.pinOk  BY <1>2, <1>3, <1>4, <2>1 DEF TypeOK
    <3> QED  BY <1>1, <3>1 DEF Budget
  <2>2. CASE apdus[n].pin # "none"
    <3>1. n \in PinApdus  BY <2>2 DEF PinApdus
    <3>2. spent = 0 /\ ~card.pinOk  BY <1>1, <3>1 DEF Asked, Budget
    <3> QED  BY <1>1, <1>3, <1>4, <2>2, <3>1, <3>2 DEF Budget
  <2> QED  BY <2>1, <2>2
<1>6. TypeOK'
  <2>1. spent' \in Nat /\ served' \subseteq [spans : Seq(Spans), pinOk : BOOLEAN]
    BY <1>4 DEF TypeOK
  <2> QED  BY <1>3, <2>1, CardTypes
<1>7. SetupFirst' /\ Fragments' /\ Rest' /\ Replied'
  BY <1>3, <1>4, SetupExecuted DEF Setup
<1> QED  BY <1>1, <1>5, <1>6, <1>7

(* The next piece is from where the last one ended, and says whether it is *)
(* the last.                                                               *)
LEMMA GivesIs ==
    ASSUME TypeOK, NEW left \in Nat \ {0}, NEW piece \in Nat, piece <= left, Gives(left, piece)
    PROVE  /\ card' \in [tries : 0..MaxTries, endless : BOOLEAN, pinOk : BOOLEAN,
                         chain : Seq(Spans), next : Nat, left : Nat]
           /\ card'.pinOk = card.pinOk /\ card'.endless = card.endless /\ card'.chain = <<>>
           /\ answer' \in Answer
           /\ answer'.data.from = (IF card.left = 0 THEN 0 ELSE card.next)
           /\ EndOf(answer'.data) = card'.next /\ card'.next = answer'.data.from + piece
           /\ card'.left = IF card.endless THEN left ELSE left - piece
           /\ answer'.sw = SUCCESS => card'.left = 0
<1> DEFINE rest == IF card.endless THEN left ELSE left - piece
           from == IF card.left = 0 THEN 0 ELSE card.next
           sw == IF rest = 0 THEN SUCCESS ELSE MoreSW(rest)
<1>1. card \in [tries : 0..MaxTries, endless : BOOLEAN, pinOk : BOOLEAN,
                chain : Seq(Spans), next : Nat, left : Nat]
  BY DEF TypeOK
<1>2. rest \in Nat /\ from \in Nat /\ from + piece \in Nat  BY <1>1
<1>3. /\ answer' = [data |-> Span(from, piece), sw |-> sw]
      /\ card' = [card EXCEPT !.chain = <<>>, !.left = rest, !.next = from + piece]
  BY DEF Gives, Says
<1>4. sw \in StatusWord /\ (sw = SUCCESS => rest = 0)
  <2>1. CASE rest = 0  BY <2>1 DEF SUCCESS, StatusWord
  <2>2. CASE rest # 0
    <3>1. sw = <<97, IF rest >= 256 THEN 0 ELSE rest>>  BY <2>2 DEF MoreSW
    <3>2. (IF rest >= 256 THEN 0 ELSE rest) \in 0..255  BY <1>2
    <3> QED  BY <3>1, <3>2 DEF SUCCESS, StatusWord
  <2> QED  BY <2>1, <2>2
<1> HIDE DEF rest, from, sw
<1>5. Span(from, piece) \in Spans /\ Span(from, piece).from = from /\ Span(from, piece).len = piece
  BY <1>2 DEF Span, Spans
<1>6. /\ answer' \in Answer /\ answer'.sw = sw /\ answer'.data = Span(from, piece)
  BY <1>3, <1>4, <1>5 DEF Answer
<1>7. /\ card' \in [tries : 0..MaxTries, endless : BOOLEAN, pinOk : BOOLEAN,
                    chain : Seq(Spans), next : Nat, left : Nat]
      /\ card'.pinOk = card.pinOk /\ card'.endless = card.endless /\ card'.chain = <<>>
      /\ card'.left = rest /\ card'.next = from + piece
  <2>1. card' = [tries |-> card.tries, endless |-> card.endless, pinOk |-> card.pinOk,
                 chain |-> <<>>, next |-> from + piece, left |-> rest]
    BY <1>1, <1>3
  <2>2. <<>> \in Seq(Spans)  OBVIOUS
  <2> QED  BY <1>1, <1>2, <2>1, <2>2
<1> QED  BY <1>4, <1>5, <1>6, <1>7 DEF EndOf, rest, from

(* What the two APDUs for the key keep, whatever the card says             *)
LEMMA KeyedExecuted ==
    ASSUME PivInv, NEW n \in 1..issued, Exchange!Execute(n), UNCHANGED <<hostVars, apdus, rx>>,
           apdus[n].ins \in Keyed, card'.pinOk = card.pinOk, UNCHANGED spent,
           \A s \in served' : Covers(s.spans, EncodedSize(args.size)),
           \A s \in served' \ served : s.pinOk = card.pinOk
    PROVE  /\ Budget' /\ SetupFirst' /\ Fragments'
           /\ n = issued /\ Calling' = Calling /\ LastFragment' = LastFragment
           /\ FragmentLen' = FragmentLen /\ UNCHANGED <<pc, args, call, data_rpos, apdus>>
           /\ Calling => /\ apdus[issued].ins \notin Setup /\ pc # "verify"
                         /\ pc = "decipher" =>
                              IF apdus[n].ins = "AUTHENTICATE" THEN call.state = "first"
                              ELSE call.state = "next" /\ LastFragment
<1> USE DEF PivInv
<1>1. /\ n \in Pending /\ executed' = executed \cup {n} /\ issued' = issued
      /\ PinApdus' = PinApdus /\ n = issued /\ Pending' = {}
      /\ UNCHANGED <<pc, args, call, data_rpos, apdus>>
      /\ DataLeft' = DataLeft /\ LastFragment' = LastFragment /\ AuthApdu' = AuthApdu
      /\ FragmentLen' = FragmentLen /\ Calling' = Calling
      /\ ~(pc = "decipher" /\ call.state = "idle")
  BY ExecuteIs DEF hostVars
<1>2. apdus[n].ins \in {"AUTHENTICATE", "GET_RESPONSE"} /\ apdus[n].ins \notin Setup
  BY DEF Keyed, Setup
<1>3. args.pin # "none" => card.pinOk  BY <1>1 DEF SetupFirst
<1>4. Budget'  BY <1>1 DEF Budget
<1>5. SetupFirst'
  <2>1. \A s \in served' : args.pin # "none" => s.pinOk  BY <1>3 DEF SetupFirst
  <2> QED  BY <1>1, <1>2, <1>3, <2>1 DEF SetupFirst
<1>6. Fragments'  BY <1>1 DEF Fragments
<1>7. ASSUME Calling
      PROVE  /\ pc # "verify"
             /\ pc = "decipher" => IF apdus[n].ins = "AUTHENTICATE" THEN call.state = "first"
                                   ELSE call.state = "next" /\ LastFragment
  BY <1>1, <1>2, <1>7, CallIs DEF AuthApdu, Apdu
<1> QED  BY <1>1, <1>2, <1>4, <1>5, <1>6, <1>7

LEMMA AuthenticateExecuted ==
    ASSUME PivInv, NEW n \in 1..issued, Exchange!Execute(n), UNCHANGED <<hostVars, apdus, rx>>,
           apdus[n].ins = "AUTHENTICATE", CardAuthenticates(apdus[n])
    PROVE  PivInv' /\ (UNCHANGED served \/ served = {})
<1> USE DEF PivInv
<1> DEFINE whole == Append(card.chain, apdus[n].span)
           total == ResponseSize(args.size)
<1>1. /\ n \in Pending /\ executed' \subseteq 1..issued
      /\ issued' = issued /\ xfer' = xfer /\ apdus[n].ins \in Keyed
      /\ UNCHANGED <<pc, args, call, data_rpos, cleartext, apdus>>
      /\ Synced' /\ Asked' /\ Collected'
  BY ExecuteIs DEF Keyed, hostVars
<1>2. apdus[n] = AuthApdu /\ DataLeft > 0 /\ served = {} /\ Covers(card.chain, data_rpos)
  BY <1>1 DEF Fragments
<1>3. card.left = 0  BY <1>2 DEF Rest
<1>4. card \in [tries : 0..MaxTries, endless : BOOLEAN, pinOk : BOOLEAN,
                chain : Seq(Spans), next : Nat, left : Nat]
  BY DEF TypeOK
<1>5. apdus[n].span = Fragment /\ (apdus[n].chained <=> ~LastFragment)
  <2>1. DataLeft \in Int /\ FragMax \in Int
    <3>1. data_rpos \in Nat /\ EncodedSize(args.size) \in Nat
      BY SizesArePositive DEF TypeOK, CommandLine
    <3> QED  BY <3>1 DEF DataLeft, FragMax
  <2>2. (DataLeft > FragMax) <=> ~LastFragment  BY <2>1 DEF LastFragment
  <2>3. AuthApdu.span = Fragment /\ AuthApdu.chained = (DataLeft > FragMax)
    BY Zenon DEF AuthApdu, Apdu
  <2> HIDE DEF PivInv
  <2> QED  BY <1>2, <2>2, <2>3, Zenon
<1>6. /\ whole \in Seq(Spans) /\ Covers(whole, data_rpos + FragmentLen)
      /\ LastFragment => data_rpos + FragmentLen = EncodedSize(args.size)
  <2>1. /\ Fragment \in Spans /\ Fragment.from = data_rpos
        /\ EndOf(Fragment) = data_rpos + FragmentLen
        /\ LastFragment => data_rpos + FragmentLen = EncodedSize(args.size)
    BY <1>2, FragmentIs
  <2>2. data_rpos \in Nat  BY DEF TypeOK
  <2> QED  BY <1>2, <1>4, <1>5, <2>1, <2>2, CoversAppend
<1>7. total \in Nat \ {0}  BY SizesArePositive DEF TypeOK, CommandLine
<1>8. NoData \in Spans  BY DEF NoData, Span, Spans
<1>9. CASE /\ apdus[n].chained
           /\ card' = [card EXCEPT !.chain = whole, !.left = 0]
           /\ Says(NoData, SUCCESS) /\ UNCHANGED <<spent, served>>
  <2>1. ~LastFragment /\ answer' = [data |-> NoData, sw |-> SUCCESS]
    BY <1>5, <1>9 DEF Says
  <2>2. card' = [tries |-> card.tries, endless |-> card.endless, pinOk |-> card.pinOk,
                 chain |-> whole, next |-> card.next, left |-> 0]
    BY <1>4, <1>9
  <2>3. answer' \in Answer
    BY <1>8, <2>1 DEF Answer, StatusWord, SUCCESS
  <2> HIDE DEF whole
  <2>4. TypeOK'
    <3>1. card' \in [tries : 0..MaxTries, endless : BOOLEAN, pinOk : BOOLEAN,
                     chain : Seq(Spans), next : Nat, left : Nat]
      BY <1>4, <1>6, <2>2
    <3>2. spent' \in Nat /\ served' \subseteq [spans : Seq(Spans), pinOk : BOOLEAN]
      BY <1>9 DEF TypeOK
    <3> QED  BY <2>3, <3>1, <3>2, CardTypes
  <2>5. /\ Budget' /\ SetupFirst' /\ Fragments'
        /\ n = issued /\ Calling' = Calling /\ LastFragment' = LastFragment
        /\ FragmentLen' = FragmentLen
        /\ Calling => apdus[issued].ins \notin Setup /\ pc # "verify"
    BY <1>1, <1>2, <1>9, <2>2, KeyedExecuted
  <2>6. Rest'  BY <1>2, <1>9, <2>2 DEF Rest
  <2>7. Replied'  BY <1>1, <1>2, <1>6, <1>9, <2>1, <2>2, <2>5 DEF Replied
  <2> QED  BY <1>1, <1>9, <2>4, <2>5, <2>6, <2>7
<1>10. CASE /\ card' = [card EXCEPT !.chain = <<>>, !.left = 0]
            /\ ~apdus[n].chained
            /\ Says(NoData, SECURITY_STATUS) /\ UNCHANGED <<spent, served>>
  <2>1. LastFragment /\ answer' = [data |-> NoData, sw |-> SECURITY_STATUS]
    BY <1>5, <1>10 DEF Says
  <2>2. card' = [tries |-> card.tries, endless |-> card.endless, pinOk |-> card.pinOk,
                 chain |-> <<>>, next |-> card.next, left |-> 0]
    BY <1>4, <1>10
  <2>3. answer' \in Answer
    BY <1>8, <2>1 DEF Answer, StatusWord, SECURITY_STATUS
  <2>4. TypeOK'
    <3>1. <<>> \in Seq(Spans)  OBVIOUS
    <3>2. card' \in [tries : 0..MaxTries, endless : BOOLEAN, pinOk : BOOLEAN,
                     chain : Seq(Spans), next : Nat, left : Nat]
      BY <1>4, <2>2, <3>1
    <3>3. spent' \in Nat /\ served' \subseteq [spans : Seq(Spans), pinOk : BOOLEAN]
      BY <1>10 DEF TypeOK
    <3> QED  BY <2>3, <3>2, <3>3, CardTypes
  <2>5. /\ Budget' /\ SetupFirst' /\ Fragments'
        /\ n = issued /\ Calling' = Calling /\ LastFragment' = LastFragment
        /\ Calling => apdus[issued].ins \notin Setup /\ pc # "verify"
    BY <1>1, <1>2, <1>10, <2>2, KeyedExecuted
  <2>6. Rest'  BY <1>2, <1>10, <2>2 DEF Rest
  <2>7. Replied'  BY <1>1, <2>1, <2>5 DEF Replied, Refused
  <2> QED  BY <1>1, <1>10, <2>4, <2>5, <2>6, <2>7
<1>11. CASE /\ ~apdus[n].chained
            /\ served' = served \cup {[spans |-> whole, pinOk |-> card.pinOk]}
            /\ UNCHANGED spent
            /\ \E piece \in Pieces : piece <= total /\ Gives(total, piece)
  <2>1. LastFragment  BY <1>5, <1>11
  <2>2. PICK piece \in Pieces : piece <= total /\ Gives(total, piece)  BY <1>11
  <2>3. piece \in Nat  BY SizesAssumption
  <2>4. /\ card' \in [tries : 0..MaxTries, endless : BOOLEAN, pinOk : BOOLEAN,
                      chain : Seq(Spans), next : Nat, left : Nat]
        /\ card'.pinOk = card.pinOk /\ card'.endless = card.endless /\ card'.chain = <<>>
        /\ answer' \in Answer /\ answer'.data.from = 0
        /\ EndOf(answer'.data) = card'.next /\ card'.next = piece
        /\ card'.left = IF card.endless THEN total ELSE total - piece
        /\ answer'.sw = SUCCESS => card'.left = 0
    BY <1>3, <1>7, <2>2, <2>3, GivesIs
  <2>5. served' = {[spans |-> whole, pinOk |-> card.pinOk]}  BY <1>2, <1>11
  <2> HIDE DEF whole, total
  <2>6. served' \subseteq [spans : Seq(Spans), pinOk : BOOLEAN]  BY <1>4, <1>6, <2>5
  <2>7. TypeOK'
    <3>1. spent' \in Nat  BY <1>11 DEF TypeOK
    <3> QED  BY <2>4, <2>6, <3>1, CardTypes
  <2>8. \A s \in served' : Covers(s.spans, EncodedSize(args.size)) /\ s.pinOk = card.pinOk
    BY <1>6, <2>1, <2>5
  <2>9. /\ Budget' /\ SetupFirst' /\ Fragments'
        /\ n = issued /\ Calling' = Calling /\ LastFragment' = LastFragment
        /\ Calling => /\ apdus[issued].ins \notin Setup /\ pc # "verify"
                      /\ pc = "decipher" => call.state = "first"
    BY <1>1, <1>2, <1>11, <2>4, <2>8, KeyedExecuted
  <2>10. card'.next = total \/ card'.left # 0
    <3>1. card'.next = piece /\ (card'.left = total \/ card'.left = total - piece)  BY <2>4
    <3>2. total \in Int /\ total # 0  BY <1>7
    <3> QED  BY <2>3, <3>1, <3>2
  <2>11. Rest'
    <3>1. total \in Nat /\ total > 0  BY <1>7
    <3>2. card.endless => card'.left > 0  BY <2>4, <3>1
    <3>3. ~card.endless => card'.next + card'.left = total  BY <2>3, <2>4, <3>1
    <3>4. ResponseSize(args.size)' = total /\ card'.endless = card.endless
      BY <1>1, <2>4 DEF total
    <3> HIDE DEF PivInv
    <3> QED  BY <2>5, <3>2, <3>3, <3>4 DEF Rest
  <2>12. Replied'
    <3>1. answer'.sw = SUCCESS => card'.next = ResponseSize(args.size)
      BY <2>4, <2>10 DEF total
    <3>2. Calling /\ pc = "decipher" => call.rapdu = <<>>  BY <2>9 DEF Synced
    <3>3. Calling /\ pc = "decipher" => Continues(call.rapdu)'
      BY <1>1, <2>4, <3>1, <3>2, CoversNothing DEF Continues
    <3>4. served' # {}  BY <2>5
    <3> QED  BY <1>1, <2>1, <2>9, <3>3, <3>4 DEF Replied
  <2> QED  BY <1>1, <1>2, <2>7, <2>9, <2>11, <2>12
<1> HIDE DEF PivInv
<1> QED  BY <1>9, <1>10, <1>11 DEF CardAuthenticates

LEMMA GetResponseExecuted ==
    ASSUME PivInv, NEW n \in 1..issued, Exchange!Execute(n), UNCHANGED <<hostVars, apdus, rx>>,
           apdus[n].ins = "GET_RESPONSE", CardGetsResponse(apdus[n].span.len)
    PROVE  PivInv'
<1> USE DEF PivInv
<1> DEFINE le == apdus[n].span.len
           piece == IF le < card.left THEN le ELSE card.left
<1>1. /\ n \in Pending /\ executed' \subseteq 1..issued
      /\ issued' = issued /\ xfer' = xfer /\ apdus[n].ins \in Keyed /\ n = issued
      /\ issued \notin executed
      /\ UNCHANGED <<pc, args, call, data_rpos, cleartext, apdus>>
      /\ Synced' /\ Asked' /\ Collected'
  BY ExecuteIs DEF Keyed, hostVars
<1>2. UNCHANGED <<spent, served>>
  BY DEF CardGetsResponse
<1>3. \A s \in served : Covers(s.spans, EncodedSize(args.size))  BY DEF Fragments
<1>4. CASE card.left = 0 /\ Says(NoData, INCORRECT_PARAM) /\ UNCHANGED card
  <2>1. answer' = [data |-> NoData, sw |-> INCORRECT_PARAM]  BY <1>4 DEF Says
  <2>2. answer' \in Answer
    BY <2>1 DEF Answer, StatusWord, INCORRECT_PARAM, NoData, Span, Spans
  <2>3. TypeOK'
    <3>1. /\ spent' \in Nat /\ served' \subseteq [spans : Seq(Spans), pinOk : BOOLEAN]
          /\ card' \in [tries : 0..MaxTries, endless : BOOLEAN, pinOk : BOOLEAN,
                        chain : Seq(Spans), next : Nat, left : Nat]
      BY <1>2, <1>4 DEF TypeOK
    <3> QED  BY <2>2, <3>1, CardTypes
  <2>4. /\ Budget' /\ SetupFirst' /\ Fragments'
        /\ Calling' = Calling /\ LastFragment' = LastFragment
        /\ Calling => /\ apdus[issued].ins \notin Setup /\ pc # "verify"
                      /\ pc = "decipher" => LastFragment
    BY <1>1, <1>2, <1>3, <1>4, KeyedExecuted
  <2>5. Rest'  BY <1>1, <1>2, <1>4 DEF Rest
  <2>6. Replied'  BY <1>1, <2>1, <2>4 DEF Replied, Refused
  <2> QED  BY <1>1, <2>3, <2>4, <2>5, <2>6
<1>5. CASE card.left > 0 /\ Gives(card.left, piece)
  <2>1. le \in Nat
    <3>1. apdus \in Seq(Apdus) /\ n \in 1..Len(apdus)  BY DEF TypeOK
    <3>2. apdus[n] \in Apdus  BY <3>1
    <3> QED  BY <3>2 DEF Apdus, Spans
  <2>2. card.left \in Nat \ {0} /\ card.next \in Nat  BY <1>5 DEF TypeOK
  <2>3. piece \in Nat /\ piece <= card.left  BY <2>1, <2>2
  <2> HIDE DEF piece
  <2>4. /\ card' \in [tries : 0..MaxTries, endless : BOOLEAN, pinOk : BOOLEAN,
                      chain : Seq(Spans), next : Nat, left : Nat]
        /\ card'.pinOk = card.pinOk /\ card'.endless = card.endless /\ card'.chain = <<>>
        /\ answer' \in Answer /\ answer'.data.from = card.next
        /\ EndOf(answer'.data) = card'.next /\ card'.next = card.next + piece
        /\ card'.left = IF card.endless THEN card.left ELSE card.left - piece
        /\ answer'.sw = SUCCESS => card'.left = 0
    BY <1>5, <2>2, <2>3, GivesIs
  <2>5. TypeOK'
    <3>1. spent' \in Nat /\ served' \subseteq [spans : Seq(Spans), pinOk : BOOLEAN]
      BY <1>2 DEF TypeOK
    <3> QED  BY <2>4, <3>1, CardTypes
  <2>6. /\ Budget' /\ SetupFirst' /\ Fragments'
        /\ Calling' = Calling /\ LastFragment' = LastFragment
        /\ Calling => /\ apdus[issued].ins \notin Setup /\ pc # "verify"
                      /\ pc = "decipher" => call.state = "next" /\ LastFragment
    BY <1>1, <1>2, <1>3, <2>4, KeyedExecuted
  <2>7. served # {}  BY <2>2 DEF Rest
  <2>8. ResponseSize(args.size) \in Nat  BY SizesArePositive DEF TypeOK, CommandLine
  <2>9. Rest'
    <3>1. ASSUME card.endless  PROVE card'.left > 0  BY <2>2, <2>4, <3>1
    <3>2. ASSUME ~card.endless  PROVE card'.next + card'.left = ResponseSize(args.size)
      <4>1. card.next + card.left = ResponseSize(args.size)  BY <2>7, <3>2 DEF Rest
      <4>2. card'.next = card.next + piece /\ card'.left = card.left - piece  BY <2>4, <3>2
      <4> QED  BY <2>2, <2>3, <4>1, <4>2
    <3>3. served' = served /\ args' = args /\ card'.endless = card.endless  BY <1>1, <1>2, <2>4
    <3> HIDE DEF PivInv
    <3> QED  BY <2>7, <3>1, <3>2, <3>3 DEF Rest
  <2>10. Replied'
    <3>1. answer'.sw = SUCCESS => card'.next = ResponseSize(args.size)
      <4>1. card.endless => card'.left # 0  BY <2>2, <2>4
      <4>2. card'.next \in Nat /\ card'.endless = card.endless  BY <2>4
      <4> QED  BY <1>1, <1>2, <2>4, <2>7, <2>8, <2>9, <4>1, <4>2 DEF Rest
    <3>2. Calling /\ pc = "decipher" => Covers(call.rapdu, card.next)
      BY <1>1, <2>6 DEF Collected
    <3>3. Calling /\ pc = "decipher" => Continues(call.rapdu)'
      BY <1>1, <2>2, <2>4, <3>1, <3>2 DEF Continues
    <3> QED  BY <1>1, <1>2, <2>6, <2>7, <3>3 DEF Replied
  <2> QED  BY <1>1, <2>5, <2>6, <2>9, <2>10
<1> HIDE DEF PivInv
<1> QED  BY <1>4, <1>5 DEF CardGetsResponse

LEMMA CardKeeps == PivInv /\ Card => PivInv'
<1> SUFFICES ASSUME PivInv, Card PROVE PivInv'  OBVIOUS
<1>1. PICK n \in 1..issued :
        /\ Exchange!Execute(n) /\ UNCHANGED <<hostVars, apdus, rx>>
        /\ \/ apdus[n].ins = "SELECT" /\ CardSelects
           \/ apdus[n].ins = "VERIFY" /\ CardVerifies(apdus[n].pin)
           \/ apdus[n].ins = "AUTHENTICATE" /\ CardAuthenticates(apdus[n])
           \/ apdus[n].ins = "GET_RESPONSE" /\ CardGetsResponse(apdus[n].span.len)
  BY DEF Card
<1>2. CASE apdus[n].ins = "SELECT" /\ CardSelects  BY <1>1, <1>2, SelectExecuted
<1>3. CASE apdus[n].ins = "VERIFY" /\ CardVerifies(apdus[n].pin)
  BY <1>1, <1>3, VerifyExecuted
<1>4. CASE apdus[n].ins = "AUTHENTICATE" /\ CardAuthenticates(apdus[n])
  BY <1>1, <1>4, AuthenticateExecuted
<1>5. CASE apdus[n].ins = "GET_RESPONSE" /\ CardGetsResponse(apdus[n].span.len)
  BY <1>1, <1>5, GetResponseExecuted
<1> QED  BY <1>1, <1>2, <1>3, <1>4, <1>5

LEMMA HostKeeps == PivInv /\ Host => PivInv'
BY GetResponseKeeps, CallAnsweredKeeps, CallFailsKeeps, ReceiveKeeps, CallsKeep, SelectReturnKeeps,
   ProbeReturnKeeps, VerifyReturnKeeps, NoCallKeeps, DecipherReturnKeeps
   DEF Host

LEMMA NothingKeeps == PivInv /\ UNCHANGED vars => PivInv'
<1> SUFFICES ASSUME PivInv, UNCHANGED vars PROVE PivInv'  OBVIOUS
<1> USE DEF PivInv
<1>1. /\ UNCHANGED <<run, args, pc, call, data_rpos, retries_left, reported, cleartext>>
      /\ UNCHANGED <<issued, xfer, executed, apdus, answer, rx, card, spent, served>>
  BY DEF vars, hostVars, exchangeVars, cardVars
<1>2. /\ Budget' /\ Rest' /\ Pending' = Pending /\ PinApdus' = PinApdus
      /\ DataLeft' = DataLeft /\ LastFragment' = LastFragment /\ AuthApdu' = AuthApdu
      /\ FragmentLen' = FragmentLen
  BY <1>1, CardKept
<1>3. Calling' = Calling /\ CallerApdu' = CallerApdu /\ CallOk' = CallOk
  BY <1>1, <1>2 DEF Calling, CallerApdu, EmptyVerify, CallOk
<1>4. TypeOK'  BY <1>1 DEF TypeOK, Exchange!TypeOK
<1>5. Synced' /\ Asked'  BY <1>1, <1>2, <1>3 DEF Synced, Asked
<1>6. SetupFirst' /\ Fragments'  BY <1>1, <1>2 DEF SetupFirst, Fragments
<1>7. Replied' /\ Collected'
  BY <1>1, <1>2, <1>3 DEF Replied, Collected, Refused, Continues
<1> QED  BY <1>2, <1>4, <1>5, <1>6, <1>7

LEMMA InvNext == PivInv /\ [Next]_vars => PivInv'
BY StartRunKeeps, HostKeeps, CardKeeps, NothingKeeps DEF Next, Done

LEMMA Invariance == Spec => []PivInv
BY InvInit, InvNext, PTL DEF Spec

-------------------------------------------------------------------------------
(* Theorems *)

(* Every variable of the program and of the card keeps its type; a run has *)
(* as many APDUs as the token has taken from ccid_xfer().                  *)
THEOREM TypeCorrect == Spec => []TypeOK
BY Invariance, PTL DEF PivInv

(* The card runs the private key operation on all the arguments or not at  *)
(* all, however yubikey_decipher() has to cut them and whatever fails.     *)
THEOREM WholeArguments == Spec => []ServesWholeArguments
<1>1. PivInv => ServesWholeArguments  BY DEF PivInv, Fragments, ServesWholeArguments
<1> QED  BY <1>1, Invariance, PTL

(* What doit() gets is the whole response of the card, whatever pieces     *)
(* ifd_card_xfer() fetched it in, also where truncated answers get past    *)
(* uusb_recv().                                                            *)
THEOREM WholeCleartext == Spec => []CleartextIsWhole
<1>1. PivInv => CleartextIsWhole  BY DEF PivInv, Collected, CleartextIsWhole
<1> QED  BY <1>1, Invariance, PTL

(* yubikey_connect() and yubikey_verify() cost the card one PIN attempt at *)
(* most, and without -p none.                                              *)
THEOREM OnePinAttempt == Spec => []PinBudget
<1>1. ASSUME PivInv PROVE PinBudget
  <2>1. spent \in 0..1 /\ (spent = 1 => PinApdus # {})  BY <1>1 DEF PivInv, Budget
  <2>2. ASSUME NEW k \in PinApdus  PROVE args.pin \in {"right", "wrong"}
    <3>1. apdus[k].pin = args.pin /\ args.pin # "none"
      BY <1>1, <2>2 DEF PivInv, Asked, PinApdus
    <3>2. apdus \in Seq(Apdus) /\ k \in 1..Len(apdus)
      BY <1>1, <2>2 DEF PivInv, TypeOK, PinApdus
    <3>3. apdus[k] \in Apdus  BY <3>2
    <3> QED  BY <3>1, <3>3 DEF Apdus
  <2> QED  BY <2>1, <2>2 DEF PinBudget
<1> QED  BY <1>1, Invariance, PTL

(* doit() lets the card use the key only once the PIN it was given has     *)
(* been accepted.                                                          *)
THEOREM PinFirst == Spec => []PinBeforeKey
<1>1. PivInv => PinBeforeKey  BY DEF PivInv, SetupFirst, PinBeforeKey
<1> QED  BY <1>1, Invariance, PTL

-------------------------------------------------------------------------------
(* PivSession implements Decryption. *)

RunVars == <<IF Finished THEN pc ELSE "running", args.pin # "none", args.ours, spent, served # {}>>

(* The program itself does nothing that the card counts, and ends once.    *)
LEMMA HostSteps ==
    ASSUME PivInv, Host
    PROVE  /\ UNCHANGED <<args, spent, served>>
           /\ \/ pc' = pc
              \/ ~Finished /\ pc' \in {"probe", "verify", "decipher", "ok", "failed", "died"}
<1>1. CASE GetResponse \/ CallAnswered \/ IfdCardXferReceive
  BY <1>1 DEF GetResponse, CallAnswered, IfdCardXferReceive, cardVars, hostVars
<1>2. CASE CallFails
  <2>1. pc \notin {"off", "ok", "failed", "died"}
    BY <1>2 DEF CallFails, Exchange!GiveUp, PivInv, Synced
  <2> QED  BY <1>2, <2>1 DEF CallFails, cardVars, Finished
<1>3. CASE SelectApplication \/ ProbePin \/ VerifyPin \/ DecipherFragment
  BY <1>3 DEF SelectApplication, ProbePin, VerifyPin, DecipherFragment, IfdCardXfer, cardVars
<1>4. CASE SelectApplicationReturn \/ ProbePinReturn \/ VerifyPinReturn \/ DecipherReturn
  <2>1. UNCHANGED <<args, spent, served>>
    BY <1>4 DEF SelectApplicationReturn, ProbePinReturn, VerifyPinReturn, DecipherReturn,
                CallReturns, cardVars
  <2>2. /\ pc \in {"select", "probe", "verify", "decipher"}
        /\ pc' \in {pc, "probe", "verify", "decipher", "ok", "failed"}
    BY <1>4 DEF SelectApplicationReturn, ProbePinReturn, VerifyPinReturn, DecipherReturn, WrongPin
  <2> QED  BY <2>1, <2>2 DEF Finished
<1>5. CASE VerifyPinTooLong \/ DecipherWrongSize
  BY <1>5 DEF VerifyPinTooLong, DecipherWrongSize, WrongPin, cardVars, Finished
<1> QED  BY <1>1, <1>2, <1>3, <1>4, <1>5 DEF Host

LEMMA HostImplements ==
    ASSUME PivInv, PivInv', Host
    PROVE  Run!Succeed \/ Run!Fail \/ UNCHANGED RunVars
<1>1. /\ UNCHANGED <<args, spent, served>>
      /\ \/ pc' = pc
         \/ ~Finished /\ pc' \in {"probe", "verify", "decipher", "ok", "failed", "died"}
  BY HostSteps
<1>2. CASE pc' = pc  BY <1>1, <1>2 DEF RunVars, Finished
<1>3. CASE ~Finished /\ pc' \in {"probe", "verify", "decipher"}
  BY <1>1, <1>3 DEF RunVars, Finished
<1>4. CASE ~Finished /\ pc' \in {"failed", "died"}
  <2>1. Finished'  BY <1>4 DEF Finished
  <2> QED  BY <1>1, <1>4, <2>1 DEF Run!Fail
<1>5. CASE ~Finished /\ pc' = "ok"
  <2>1. Finished' /\ served # {} /\ args.ours
    BY <1>1, <1>5 DEF Finished, PivInv, Collected
  <2> QED  BY <1>1, <1>5, <2>1 DEF Run!Succeed
<1> QED  BY <1>1, <1>2, <1>3, <1>4, <1>5

LEMMA CardImplements ==
    ASSUME PivInv, PivInv', Card
    PROVE  Run!Attempt \/ Run!UseKey \/ UNCHANGED RunVars
<1>1. PICK n \in 1..issued :
        /\ Exchange!Execute(n) /\ UNCHANGED <<hostVars, apdus, rx>>
        /\ \/ apdus[n].ins = "SELECT" /\ CardSelects
           \/ apdus[n].ins = "VERIFY" /\ CardVerifies(apdus[n].pin)
           \/ apdus[n].ins = "AUTHENTICATE" /\ CardAuthenticates(apdus[n])
           \/ apdus[n].ins = "GET_RESPONSE" /\ CardGetsResponse(apdus[n].span.len)
  BY DEF Card
<1>2. UNCHANGED <<pc, args>> /\ Finished' = Finished  BY <1>1 DEF hostVars, Finished
<1>3. Run!UnderWay
  <2>1. pc \in {"off", "select", "probe", "verify", "decipher", "ok", "failed", "died"}
        /\ issued \in Nat
    BY DEF PivInv, TypeOK, Exchange!TypeOK
  <2>2. pc # "off"  BY <2>1 DEF PivInv, Asked
  <2>3. pc # "ok"
    <3>1. issued \notin executed
      BY <1>1, <2>1 DEF Exchange!Execute, PivInv, TypeOK, Exchange!TypeOK
    <3> QED  BY <3>1 DEF PivInv, Collected
  <2> QED  BY <2>1, <2>2, <2>3 DEF Run!UnderWay, Finished
<1>4. CASE UNCHANGED <<spent, served>>  BY <1>2, <1>4 DEF RunVars
<1>5. CASE apdus[n].ins = "VERIFY" /\ CardVerifies(apdus[n].pin) /\ spent' # spent
  <2>1. spent' = spent + 1 /\ served' = served /\ apdus[n].pin # "none"
    BY <1>5 DEF CardVerifies
  <2>2. spent = 0 /\ spent' = 1  BY <2>1 DEF PivInv, Budget
  <2>3. n \in PinApdus  BY <1>5, <2>1 DEF PinApdus
  <2>4. args.pin # "none"  BY <2>1, <2>3 DEF PivInv, Asked
  <2>5. served = {}
    <3>1. served # {} => apdus[n].ins \in Keyed  BY <1>1, ExecuteIs
    <3> QED  BY <1>5, <3>1 DEF Keyed
  <2> QED  BY <1>2, <1>3, <2>1, <2>2, <2>4, <2>5 DEF Run!Attempt
<1>6. CASE apdus[n].ins = "AUTHENTICATE" /\ CardAuthenticates(apdus[n]) /\ served' # served
  <2>1. served = {}  BY <1>1, <1>6, AuthenticateExecuted
  <2>2. spent' = spent  BY <1>6 DEF CardAuthenticates
  <2>3. args.pin # "none" => spent = 1
    <3>1. apdus[n].ins \in Keyed  BY <1>6 DEF Keyed
    <3> QED  BY <3>1 DEF PivInv, SetupFirst, Budget
  <2> QED  BY <1>2, <1>3, <1>6, <2>1, <2>2, <2>3 DEF Run!UseKey
<1>7. \/ UNCHANGED <<spent, served>>
      \/ apdus[n].ins = "VERIFY" /\ CardVerifies(apdus[n].pin) /\ spent' # spent
      \/ apdus[n].ins = "AUTHENTICATE" /\ CardAuthenticates(apdus[n]) /\ served' # served
  <2>1. CardVerifies(apdus[n].pin) => UNCHANGED served  BY DEF CardVerifies
  <2>2. CardAuthenticates(apdus[n]) => UNCHANGED spent  BY DEF CardAuthenticates
  <2>3. CardSelects \/ CardGetsResponse(apdus[n].span.len) => UNCHANGED <<spent, served>>
    BY DEF CardSelects, CardGetsResponse
  <2> QED  BY <1>1, <2>1, <2>2, <2>3
<1> QED  BY <1>4, <1>5, <1>6, <1>7

(* The program and the card do together what Decryption says of one run:   *)
(* one attempt, then one use of the key, then a cleartext, in each run;    *)
(* with the attempt and the use possibly after the program has given up.   *)
THEOREM Refinement == Spec => ImplementsDecryption
<1>1. Init => Run!Init
  <2> SUFFICES ASSUME Init PROVE Run!Init  OBVIOUS
  <2>1. pc = "off" /\ spent = 0 /\ served = {} /\ args \in CommandLine
    BY CommandLinesAssumption DEF Init
  <2> QED  BY <2>1 DEF Run!Init, Finished, CommandLine
<1>2. ASSUME PivInv, PivInv', [Next]_vars
      PROVE  [Run!Next]_(Run!vars)
  <2>1. Run!vars = RunVars /\ Run!vars' = RunVars'  BY DEF Run!vars, RunVars
  <2>2. ASSUME NEW a \in CommandLines, StartRun(a)  PROVE Run!Next
    <3>1. a \in CommandLine /\ (a.pin # "none") \in BOOLEAN /\ a.ours \in BOOLEAN
      BY CommandLinesAssumption DEF CommandLine
    <3>2. Run!Start(a.pin # "none", a.ours)
      BY <2>2 DEF StartRun, Run!Start, Finished
    <3> QED  BY <3>1, <3>2 DEF Run!Next
  <2>3. ASSUME Host  PROVE [Run!Next]_(Run!vars)
    BY <1>2, <2>1, <2>3, HostImplements DEF Run!Next
  <2>4. ASSUME Card  PROVE [Run!Next]_(Run!vars)
    BY <1>2, <2>1, <2>4, CardImplements DEF Run!Next
  <2>5. ASSUME UNCHANGED vars  PROVE [Run!Next]_(Run!vars)
    BY <2>1, <2>5 DEF vars, hostVars, cardVars, RunVars, Finished
  <2> QED  BY <1>2, <2>2, <2>3, <2>4, <2>5 DEF Next, Done
<1> QED  BY <1>1, <1>2, Invariance, PTL DEF Spec, ImplementsDecryption, Run!Spec

-------------------------------------------------------------------------------
(* The run uses itself up *)

(* Room for more bytes is good for more rounds.                            *)
LEMMA StepsAre ==
    ASSUME NEW m \in Nat, NEW n \in 0..m
    PROVE  /\ StepsFor(n) \in Nat /\ StepsFor(m) \in Nat
           /\ 3 <= StepsFor(n) /\ StepsFor(n) <= StepsFor(m)
           /\ n < m => StepsFor(n) <= StepsFor(m) - 3
BY DEF StepsFor

LEMMA RoomLeftIs == TypeOK => Capacity \in Nat /\ RoomLeft \in 0..Capacity
<1> SUFFICES ASSUME TypeOK PROVE Capacity \in Nat /\ RoomLeft \in 0..Capacity  OBVIOUS
<1>1. Capacity \in Nat /\ call.size \in Nat  BY SizesAssumption DEF TypeOK, Calls
<1> QED  BY <1>1 DEF RoomLeft, Fits

(* A run that goes on has calls left; and how many turns, by the state of  *)
(* the call.                                                               *)
LEMMA CallsLeftAre ==
    ASSUME PivInv
    PROVE  /\ CallsLeft \in Nat
           /\ pc \in {"select", "probe", "verify", "decipher"} => CallsLeft > 0
<1>1. EncodedSize(args.size) \in Nat \ {0} /\ data_rpos \in Nat
  BY SizesArePositive DEF PivInv, TypeOK, CommandLine
<1>2. pc \in {"off", "select", "probe", "verify", "decipher", "ok", "failed", "died"}
  BY DEF PivInv, TypeOK
<1>3. CASE pc = "select"  BY <1>1, <1>3 DEF CallsLeft
<1>4. CASE pc = "probe"  BY <1>1, <1>4 DEF CallsLeft
<1>5. CASE pc = "verify"  BY <1>1, <1>5 DEF CallsLeft
<1>6. CASE pc = "decipher"
  <2>1. DataLeft > 0  BY <1>6 DEF PivInv, Fragments
  <2>2. DataLeft \in Int  BY <1>1 DEF DataLeft
  <2> QED  BY <1>6, <2>1, <2>2 DEF CallsLeft
<1>7. CASE pc \in {"off", "ok", "failed", "died"}  BY <1>7 DEF CallsLeft
<1> QED  BY <1>2, <1>3, <1>4, <1>5, <1>6, <1>7

LEMMA LeftType == PivInv => CallsLeft \in Nat /\ TurnsLeft \in Nat
<1> SUFFICES ASSUME PivInv PROVE CallsLeft \in Nat /\ TurnsLeft \in Nat  OBVIOUS
<1> DEFINE left == StepsFor(RoomLeft)
           most == StepsFor(Capacity)
<1>1. left \in Nat /\ most \in Nat /\ 3 <= left
  BY RoomLeftIs, StepsAre DEF PivInv
<1>2. TurnsLeft \in {most + 3, most + 1, most + 2, left, left - 2, left - 1, 0,
                     most + 1 + 0, most + 1 + 1, left - 2 + 0, left - 2 + 1}
  BY DEF TurnsLeft
<1> HIDE DEF left, most
<1> QED  BY <1>1, <1>2, CallsLeftAre

(* The turns of a call                                                     *)
LEMMA CallUses ==
    ASSUME PivInv, PivInv',
           SelectApplication \/ ProbePin \/ VerifyPin \/ DecipherFragment
    PROVE  CallsLeft' = CallsLeft /\ TurnsLeft' < TurnsLeft
<1>1. /\ call.state = "idle" /\ call'.state = "first"
      /\ UNCHANGED <<pc, args, data_rpos>>
  BY DEF SelectApplication, ProbePin, VerifyPin, DecipherFragment, IfdCardXfer, Idle
<1>2. CallsLeft' = CallsLeft  BY <1>1 DEF CallsLeft, DataLeft
<1> DEFINE most == StepsFor(Capacity)
<1>3. most \in Nat  BY RoomLeftIs, StepsAre DEF PivInv
<1>4. TurnsLeft = most + 3 /\ TurnsLeft' \in {most + 1 + 0, most + 1 + 1}
  BY <1>1 DEF TurnsLeft
<1> HIDE DEF most
<1> QED  BY <1>2, <1>3, <1>4

LEMMA GetResponseUses ==
    ASSUME PivInv, GetResponse
    PROVE  CallsLeft' = CallsLeft /\ TurnsLeft' < TurnsLeft
<1>1. /\ call.state = "more" /\ call'.state = "next" /\ call'.size = call.size
      /\ UNCHANGED <<pc, args, data_rpos>>
  BY DEF GetResponse, PivInv, TypeOK, Calls
<1>2. CallsLeft' = CallsLeft  BY <1>1 DEF CallsLeft, DataLeft
<1> DEFINE left == StepsFor(RoomLeft)
<1>3. left \in Nat  BY RoomLeftIs, StepsAre DEF PivInv
<1>4. RoomLeft' = RoomLeft  BY <1>1 DEF RoomLeft, Fits
<1>5. TurnsLeft = left /\ TurnsLeft' \in {left - 2 + 0, left - 2 + 1}
  BY <1>1, <1>4 DEF TurnsLeft
<1> HIDE DEF left
<1> QED  BY <1>2, <1>3, <1>5

(* The answer comes or does not: the process may die of that.              *)
LEMMA AnswerUses ==
    ASSUME PivInv, CallAnswered \/ CallFails
    PROVE  \/ CallsLeft' < CallsLeft
           \/ CallsLeft' = CallsLeft /\ TurnsLeft' < TurnsLeft
<1>1. /\ xfer = "wait" /\ xfer' # "wait" /\ UNCHANGED <<args, call, data_rpos>>
      /\ pc' \in {pc, "died"}
  BY DEF CallAnswered, CallFails, Exchange!Respond, Exchange!GiveUp, hostVars
<1>2. call.state \in {"first", "next"} /\ pc \in {"select", "probe", "verify", "decipher"}
  BY <1>1 DEF PivInv, Synced, TypeOK
<1>3. CASE pc' = "died"
  <2>1. CallsLeft' = 0  BY <1>3 DEF CallsLeft
  <2> QED  BY <1>2, <2>1, CallsLeftAre
<1>4. CASE pc' = pc
  <2>1. CallsLeft' = CallsLeft  BY <1>1, <1>4 DEF CallsLeft, DataLeft
  <2>2. RoomLeft' = RoomLeft  BY <1>1 DEF RoomLeft, Fits
  <2> DEFINE left == StepsFor(RoomLeft)
             most == StepsFor(Capacity)
  <2>3. left \in Nat /\ most \in Nat  BY RoomLeftIs, StepsAre DEF PivInv
  <2>4. \/ TurnsLeft = most + 1 + 1 /\ TurnsLeft' = most + 1 + 0
        \/ TurnsLeft = left - 2 + 1 /\ TurnsLeft' = left - 2 + 0
    BY <1>1, <1>2, <2>2 DEF TurnsLeft
  <2> HIDE DEF left, most
  <2> QED  BY <2>1, <2>3, <2>4
<1> QED  BY <1>1, <1>3, <1>4

(* A round of the 61xx loop appends a byte at least, where there is room.  *)
LEMMA ReceiveUses ==
    ASSUME PivInv, PivInv', IfdCardXferReceive
    PROVE  CallsLeft' = CallsLeft /\ TurnsLeft' < TurnsLeft
<1> DEFINE left == StepsFor(RoomLeft)
           most == StepsFor(Capacity)
<1>1. /\ call.state \in {"first", "next"} /\ xfer # "wait"
      /\ UNCHANGED <<pc, args, data_rpos>>
  BY DEF IfdCardXferReceive, Exchange!Return
<1>2. CallsLeft' = CallsLeft  BY <1>1 DEF CallsLeft, DataLeft
<1>3. /\ left \in Nat /\ most \in Nat /\ 3 <= left /\ 3 <= most
      /\ StepsFor(RoomLeft') \in Nat /\ StepsFor(RoomLeft') <= most
  <2>1. Capacity \in Nat /\ RoomLeft \in 0..Capacity  BY RoomLeftIs DEF PivInv
  <2>2. RoomLeft' \in 0..Capacity
    <3>1. call'.size \in Nat  BY DEF PivInv, TypeOK, Calls
    <3> QED  BY <2>1, <3>1 DEF RoomLeft, Fits
  <2>3. 0 \in 0..Capacity  BY <2>1
  <2> QED  BY <2>1, <2>2, <2>3, StepsAre
<1>4. TurnsLeft = IF call.state = "first" THEN most + 1 + 0 ELSE left - 2 + 0
  BY <1>1 DEF TurnsLeft
<1>5. CASE call'.state # "more"
  <2>1. call'.state \in {"done", "null"}
    BY <1>5 DEF IfdCardXferReceive, Failure, Idle
  <2>2. TurnsLeft' = 0  BY <2>1 DEF TurnsLeft
  <2> HIDE DEF left, most
  <2> QED  BY <1>2, <1>3, <1>4, <2>2
<1>6. CASE call'.state = "more"
  <2>1. /\ call'.size = call.size + rx.data.len
        /\ call.state = "next" => rx.data.len = call.want /\ Fits(call'.size)
    BY <1>1, <1>6 DEF IfdCardXferReceive, Expected, Failure, Idle
  <2>2. TurnsLeft' = StepsFor(RoomLeft')  BY <1>6 DEF TurnsLeft
  <2>3. CASE call.state = "first"
    <3> HIDE DEF left, most
    <3> QED  BY <1>2, <1>3, <1>4, <2>2, <2>3
  <2>4. CASE call.state = "next"
    <3>1. call.size \in Nat /\ call.want \in Nat /\ call.want > 0 /\ Capacity \in Nat
      <4>1. call \in Calls /\ call.want > 0  BY <2>4 DEF PivInv, TypeOK, Synced
      <4>2. call.size \in Nat /\ call.want \in 0..256  BY <4>1 DEF Calls
      <4>3. Capacity \in Nat  BY SizesAssumption
      <4> QED  BY <4>1, <4>2, <4>3
    <3>2. call'.size = call.size + call.want /\ call'.size <= Capacity
      BY <2>1, <2>4 DEF Fits
    <3>3. RoomLeft = Capacity - call.size /\ RoomLeft' = Capacity - call'.size
      BY <3>1, <3>2 DEF RoomLeft, Fits
    <3>4. RoomLeft \in Nat /\ RoomLeft' \in 0..RoomLeft /\ RoomLeft' < RoomLeft
      BY <3>1, <3>2, <3>3
    <3>5. StepsFor(RoomLeft') <= left - 3  BY <3>4, StepsAre
    <3> HIDE DEF left, most
    <3> QED  BY <1>2, <1>3, <1>4, <2>2, <2>4, <3>5
  <2> QED  BY <1>1, <2>3, <2>4
<1> QED  BY <1>5, <1>6

(* The caller gives up one of the calls it had left.                       *)
LEMMA ReturnUses ==
    ASSUME PivInv, PivInv',
           \/ SelectApplicationReturn \/ ProbePinReturn \/ VerifyPinReturn \/ VerifyPinTooLong
           \/ DecipherWrongSize \/ DecipherReturn
    PROVE  CallsLeft' < CallsLeft
<1> DEFINE e == EncodedSize(args.size)
<1>1. e \in Nat \ {0} /\ data_rpos \in Nat /\ DataLeft = e - data_rpos
  BY SizesArePositive DEF PivInv, TypeOK, CommandLine, DataLeft
<1>2. args' = args /\ e' = e /\ DataLeft' = e - data_rpos'
  BY DEF SelectApplicationReturn, ProbePinReturn, VerifyPinReturn, VerifyPinTooLong,
         DecipherWrongSize, DecipherReturn, CallReturns, DataLeft
<1> HIDE DEF e
<1>3. CASE pc \in {"select", "probe", "verify", "decipher"} /\ pc' \in {"failed", "ok"}
  <2>1. CallsLeft' = 0  BY <1>3 DEF CallsLeft
  <2> QED  BY <1>3, <2>1, CallsLeftAre
<1>4. CASE pc = "select" /\ pc' = "probe"
  <2>1. CallsLeft = e + 3 /\ CallsLeft' = e + 2  BY <1>2, <1>4 DEF CallsLeft, e
  <2> QED  BY <1>1, <2>1
<1>5. CASE pc = "probe" /\ pc' = "verify"
  <2>1. CallsLeft = e + 2 /\ CallsLeft' = e + 1  BY <1>2, <1>5 DEF CallsLeft, e
  <2> QED  BY <1>1, <2>1
<1>6. CASE pc \in {"probe", "verify"} /\ pc' = "decipher" /\ data_rpos' = data_rpos
  <2>1. CallsLeft \in {e + 2, e + 1} /\ CallsLeft' = e - data_rpos
    BY <1>2, <1>6 DEF CallsLeft, e
  <2> QED  BY <1>1, <2>1
<1>7. CASE pc = "decipher" /\ pc' = "decipher" /\ data_rpos' = data_rpos + FragmentLen
  <2>1. FragmentLen \in Nat /\ FragmentLen > 0
    <3>1. DataLeft > 0 /\ TypeOK  BY <1>7 DEF PivInv, Fragments
    <3> QED  BY <1>1, <3>1 DEF FragmentLen, FragMax
  <2>2. CallsLeft = e - data_rpos /\ CallsLeft' = e - data_rpos'
    BY <1>1, <1>2, <1>7 DEF CallsLeft
  <2> QED  BY <1>1, <1>7, <2>1, <2>2
<1>8. CASE SelectApplicationReturn  BY <1>3, <1>4, <1>8 DEF SelectApplicationReturn
<1>9. CASE ProbePinReturn  BY <1>5, <1>6, <1>9 DEF ProbePinReturn
<1>10. CASE VerifyPinReturn  BY <1>3, <1>6, <1>10 DEF VerifyPinReturn, WrongPin
<1>11. CASE VerifyPinTooLong \/ DecipherWrongSize
  BY <1>3, <1>11 DEF VerifyPinTooLong, DecipherWrongSize, WrongPin
<1>12. CASE DecipherReturn  BY <1>3, <1>7, <1>12 DEF DecipherReturn
<1> QED  BY <1>8, <1>9, <1>10, <1>11, <1>12

LEMMA HostUses ==
    ASSUME PivInv, PivInv', Host
    PROVE  \/ CallsLeft' < CallsLeft
           \/ CallsLeft' = CallsLeft /\ TurnsLeft' < TurnsLeft
BY CallUses, GetResponseUses, AnswerUses, ReceiveUses, ReturnUses DEF Host

(* Nothing else changes what is left.                                      *)
LEMMA CardGivesNothingBack ==
    ASSUME Card \/ Done \/ UNCHANGED vars
    PROVE  UNCHANGED <<CallsLeft, TurnsLeft>>
<1>1. UNCHANGED <<pc, xfer, call, args, data_rpos>>
  <2>1. CASE Card  BY <2>1 DEF Card, Exchange!Execute, hostVars
  <2>2. CASE Done \/ UNCHANGED vars  BY <2>2 DEF Done, vars, hostVars, exchangeVars
  <2> QED  BY <2>1, <2>2
<1>2. RoomLeft' = RoomLeft  BY <1>1 DEF RoomLeft, Fits
<1> QED  BY <1>1, <1>2 DEF CallsLeft, DataLeft, TurnsLeft

(* Each step of a run uses up a call or a turn: with a card that always    *)
(* has more, with calls that fail anywhere, and for every size of the      *)
(* buffer and of the ciphertext, a run that goes on comes to its end.      *)
THEOREM RunsDown == Spec => EveryStepCounts
<1> DEFINE Left == CallsLeft \in Nat /\ TurnsLeft \in Nat
           Counts == run' = run => IF Host THEN UsesUp ELSE UNCHANGED <<CallsLeft, TurnsLeft>>
<1>1. ASSUME PivInv, PivInv', Left', [Next]_vars  PROVE Counts
  <2>1. CASE Host
    <3>1. UsesUp  BY <1>1, <2>1, HostUses DEF UsesUp
    <3> QED  BY <2>1, <3>1
  <2>2. CASE ~Host
    <3>1. ASSUME NEW a \in CommandLines, StartRun(a)  PROVE run' # run
      BY <1>1, <3>1 DEF StartRun, PivInv, TypeOK
    <3>2. run' = run => Card \/ Done \/ UNCHANGED vars  BY <1>1, <2>2, <3>1 DEF Next
    <3> QED  BY <2>2, <3>2, CardGivesNothingBack
  <2> QED  BY <2>1, <2>2
<1>2. PivInv => Left  BY LeftType
<1> HIDE DEF Left
<1> QED  BY <1>1, <1>2, Invariance, PTL DEF Spec, EveryStepCounts

===============================================================================

--------------------------- MODULE CcidRestartProofs ---------------------------
(***************************************************************************)
(* Proofs about CcidRestart, for any number of runs and for all that       *)
(* CcidReaderProofs leaves open: what a run leaves in the token and in the *)
(* pipe is what CcidReader assumes to find there.                          *)
(***************************************************************************)
EXTENDS CcidRestart, CcidReaderProofs

(* What is under way and ours is younger than the last command answered    *)
(* for good.                                                               *)
Unsettled ==
    /\ settled <= sent
    /\ \A i \in 1..Len(pending) : pending[i].id = 0 \/ settled < pending[i].id
    /\ \A i \in 1..Len(inPipe) : inPipe[i].id = 0 \/ settled < inPipe[i].id

RestartTypeOK == TypeOK /\ runs \in Nat /\ settled \in Nat /\ suspect \in BOOLEAN

RestartInv == RestartTypeOK /\ (~suspect => IInv /\ Unsettled)

-------------------------------------------------------------------------------
(* Within a run *)

(* Commands and packets come from what was under way, and only one command *)
(* is new: the next.                                                       *)
LEMMA Flow ==
    ASSUME TypeOK, IInv, Next
    PROVE  /\ sent' \in Nat /\ sent <= sent'
           /\ \A i \in 1..Len(pending') :
                  \/ pending'[i].id = sent + 1
                  \/ \E k \in 1..Len(pending) : pending'[i] = pending[k]
           /\ \A i \in 1..Len(inPipe') :
                  \/ \E k \in 1..Len(pending) : inPipe'[i].id = pending[k].id
                  \/ \E k \in 1..Len(inPipe) : inPipe'[i] = inPipe[k]
<1>. DEFINE P == \A i \in 1..Len(pending') :
                     \/ pending'[i].id = sent + 1
                     \/ \E k \in 1..Len(pending) : pending'[i] = pending[k]
            Q == \A i \in 1..Len(inPipe') :
                     \/ \E k \in 1..Len(pending) : inPipe'[i].id = pending[k].id
                     \/ \E k \in 1..Len(inPipe) : inPipe'[i] = inPipe[k]
<1>0. sent \in Nat  BY DEF TypeOK
<1>1. CASE UNCHANGED <<sent, pending, inPipe>>  BY <1>0, <1>1
<1>2. CASE XferStep
  <2>1. UNCHANGED <<sent, pending>> /\ inPipe' \in {inPipe, Tail(inPipe)}
        /\ (inPipe = <<>> => inPipe' = inPipe)
    BY <1>2 DEF XferStep, CcidXferReceive, CcidXferReceiveFails, CcidXferTooManyRetries,
                hostVars, tokenVars
  <2>2. P  BY <2>1
  <2>3. Q
    <3>1. CASE inPipe' = inPipe  BY <3>1
    <3>2. CASE inPipe # <<>> /\ inPipe' = Tail(inPipe)
      <4>1. \A i \in 1..Len(inPipe') :
                inPipe'[i] = inPipe[i + 1] /\ i + 1 \in 1..Len(inPipe)
        <5>1. inPipe \in Seq(Packet)  BY DEF TypeOK
        <5>. QED  BY <3>2, <5>1, SeqTail
      <4>. QED  BY <4>1
    <3>. QED  BY <2>1, <3>1, <3>2
  <2>. QED  BY <1>0, <2>1, <2>2, <2>3
<1>3. ASSUME NEW kind \in Kinds, NEW v \in 0..3, CcidXferSend(kind, v)
      PROVE  sent' \in Nat /\ sent <= sent' /\ P /\ Q
  <2>1. inPipe' = inPipe  BY <1>3 DEF CcidXferSend
  <2>2. \/ UNCHANGED <<pending, sent>>
        \/ /\ sent' = sent + 1 /\ cmd'.id = sent'
           /\ Len(pending') = Len(pending) + 1 /\ pending'[Len(pending) + 1] = cmd'
           /\ \A i \in 1..Len(pending) : pending'[i] = pending[i]
    BY <1>3, InvSend
  <2>3. P
    <3>1. CASE UNCHANGED pending  BY <3>1
    <3>2. CASE /\ sent' = sent + 1 /\ cmd'.id = sent'
               /\ Len(pending') = Len(pending) + 1 /\ pending'[Len(pending) + 1] = cmd'
               /\ \A i \in 1..Len(pending) : pending'[i] = pending[i]
      <4>1. \A i \in 1..Len(pending') : i \in 1..Len(pending) \/ i = Len(pending) + 1
        BY <3>2, Elements
      <4>. QED  BY <3>2, <4>1
    <3>. QED  BY <2>2, <3>1, <3>2
  <2>4. Q  BY <2>1
  <2>. QED  BY <1>0, <2>2, <2>3, <2>4
<1>4. CASE Caller
  <2>1. \/ UNCHANGED <<sent, pending, inPipe>>
        \/ \E kind \in Kinds, v \in 0..3 : CcidXferSend(kind, v)
    BY <1>4 DEF Caller, CcidReaderCreate, SelectSlot, SelectSlotReturn, PowerOn, PowerOnReturn,
                PowerOnExhausted, ApduXfer, ApduXferReturn, Return, tokenVars, Kinds
  <2>. QED  BY <1>1, <1>3, <2>1
<1>5. CASE Token
  <2>1. /\ pending # <<>> /\ UNCHANGED sent /\ pending' \in {pending, Tail(pending)}
        /\ \E p \in Packet : /\ inPipe' \in {inPipe, Append(inPipe, p)}
                             /\ p.id = Head(pending).id
    BY <1>5, TokenStep DEF TokenUnchanged, hostVars
  <2>2. /\ \A i \in 1..Len(pending') : \E k \in 1..Len(pending) : pending'[i] = pending[k]
        /\ Head(pending) = pending[1] /\ 1 \in 1..Len(pending)
    BY <2>1, Taken
  <2>3. PICK p \in Packet : /\ inPipe' \in {inPipe, Append(inPipe, p)}
                            /\ p.id = pending[1].id
    BY <2>1, <2>2
  <2>4. \A i \in 1..Len(inPipe') :
            (i \in 1..Len(inPipe) /\ inPipe'[i] = inPipe[i]) \/ inPipe'[i] = p
    BY <2>3, Queued
  <2>5. Q
    <3>1. SUFFICES ASSUME NEW i \in 1..Len(inPipe')
                   PROVE  \/ inPipe'[i].id = pending[1].id
                          \/ \E k \in 1..Len(inPipe) : inPipe'[i] = inPipe[k]
      BY <2>2
    <3>. QED  BY <2>3, <2>4
  <2>6. P  BY <2>2
  <2>7. sent' \in Nat /\ sent <= sent'  BY <1>0, <2>1
  <2>. QED  BY <2>5, <2>6, <2>7
<1>. QED  BY <1>1, <1>2, <1>4, <1>5 DEF Next, Host, Terminated, vars, hostVars, tokenVars

(* A step of the program or the token.                                     *)
LEMMA InvWithinRun == ASSUME RestartInv, WithinRun PROVE RestartInv'
<1>1. /\ Next /\ UNCHANGED <<runs, suspect>> /\ TypeOK
      /\ settled' = IF AnswerArrives THEN sent ELSE settled
  BY DEF WithinRun, Settle, RestartInv, RestartTypeOK
<1>2. settled \in Nat /\ sent \in Nat  BY DEF RestartInv, RestartTypeOK, TypeOK
<1>3. RestartTypeOK'
  <2>1. TypeOK'  BY <1>1, TypeNext
  <2>2. settled' \in Nat  BY <1>1, <1>2
  <2>. QED  BY <1>1, <2>1, <2>2 DEF RestartInv, RestartTypeOK
<1>4. ASSUME ~suspect PROVE IInv' /\ Unsettled'
  <2>1. IInv /\ Unsettled  BY <1>4 DEF RestartInv
  <2>2. IInv'  BY <1>1, <2>1, InvNext
  <2>3. CASE AnswerArrives
    <3>1. /\ CcidXferReceive /\ xfer = "wait" /\ inPipe # <<>> /\ inPipe' = Tail(inPipe)
          /\ UNCHANGED <<sent, pending>>
      BY <2>3 DEF AnswerArrives, CcidXferReceive, tokenVars
    <3>2. inPipe \in Seq(Packet)  BY <1>1 DEF TypeOK
    <3>3. Head(inPipe) = inPipe[1]  BY <3>1, <3>2, SeqTail
    <3>4. Mine(inPipe[1]) /\ inPipe[1].ctl # "more"
      BY <2>3, <3>3 DEF AnswerArrives
    <3>5. pending = <<>> /\ Tail(inPipe) = <<>>
      BY <1>1, <2>1, <3>1, <3>4, Received
    <3>6. Len(pending') = 0 /\ Len(inPipe') = 0 /\ settled' = sent'
      BY <1>1, <2>3, <3>1, <3>5
    <3>7. settled' <= sent'  BY <1>2, <3>1, <3>6
    <3>8. Unsettled'
      <4>1. \A n : n = 0 => 1..n = {}  OBVIOUS
      <4>2. 1..Len(pending') = {} /\ 1..Len(inPipe') = {}  BY <3>6, <4>1
      <4>. QED  BY <3>7, <4>2 DEF Unsettled
    <3>. QED  BY <2>2, <3>8
  <2>4. CASE ~AnswerArrives
    <3>1. settled' = settled /\ settled <= sent  BY <1>1, <2>1, <2>4 DEF Unsettled
    <3>2. /\ sent' \in Nat /\ sent <= sent'
          /\ \A i \in 1..Len(pending') :
                 \/ pending'[i].id = sent + 1
                 \/ \E k \in 1..Len(pending) : pending'[i] = pending[k]
          /\ \A i \in 1..Len(inPipe') :
                 \/ \E k \in 1..Len(pending) : inPipe'[i].id = pending[k].id
                 \/ \E k \in 1..Len(inPipe) : inPipe'[i] = inPipe[k]
      BY <1>1, <2>1, Flow
    <3>3. settled < sent + 1 /\ settled <= sent'  BY <1>2, <3>1, <3>2
    <3>4. \A i \in 1..Len(pending') : pending'[i].id = 0 \/ settled < pending'[i].id
      BY <2>1, <3>2, <3>3 DEF Unsettled
    <3>5. \A i \in 1..Len(inPipe') : inPipe'[i].id = 0 \/ settled < inPipe'[i].id
      BY <2>1, <3>2 DEF Unsettled
    <3>6. Unsettled'  BY <3>1, <3>3, <3>4, <3>5 DEF Unsettled
    <3>. QED  BY <2>2, <3>6
  <2>. QED  BY <2>3, <2>4
<1>. QED  BY <1>1, <1>3, <1>4 DEF RestartInv

-------------------------------------------------------------------------------
(* From one run to the next *)

(* Only the numbers are forgotten.                                         *)
LEMMA ForgottenCommands ==
    ASSUME NEW s \in Seq(Command)
    PROVE  /\ Forgotten(s) \in Seq(Command) /\ Len(Forgotten(s)) = Len(s)
           /\ \A i \in 1..Len(s) : Forgotten(s)[i].id = 0 /\ Forgotten(s)[i].seq = s[i].seq
<1>1. DOMAIN s = 1..Len(s) /\ Len(s) \in Nat /\ \A i \in 1..Len(s) : s[i] \in Command
  OBVIOUS
<1>2. \A c \in Command : /\ [c EXCEPT !.id = 0] \in Command
                         /\ [c EXCEPT !.id = 0].id = 0 /\ [c EXCEPT !.id = 0].seq = c.seq
  BY DEF Command
<1>. DEFINE f == [i \in 1..Len(s) |-> [s[i] EXCEPT !.id = 0]]
<1>3. Forgotten(s) = f  BY <1>1 DEF Forgotten
<1>4. \A i \in 1..Len(s) : f[i] = [s[i] EXCEPT !.id = 0]  OBVIOUS
<1>5. f \in [1..Len(s) -> Command]  BY <1>1, <1>2
<1>. HIDE DEF f
<1>6. f \in Seq(Command) /\ Len(f) = Len(s)  BY <1>1, <1>5
<1>7. ASSUME NEW i \in 1..Len(s)
      PROVE  f[i].id = 0 /\ f[i].seq = s[i].seq
  <2>1. s[i] \in Command /\ f[i] = [s[i] EXCEPT !.id = 0]  BY <1>1, <1>4
  <2>. QED  BY <1>2, <2>1
<1>. QED  BY <1>3, <1>6, <1>7

LEMMA ForgottenPackets ==
    ASSUME NEW s \in Seq(Packet)
    PROVE  /\ Forgotten(s) \in Seq(Packet) /\ Len(Forgotten(s)) = Len(s)
           /\ \A i \in 1..Len(s) : /\ Forgotten(s)[i].id = 0 /\ Forgotten(s)[i].seq = s[i].seq
                                   /\ Forgotten(s)[i].slot = s[i].slot
<1>1. DOMAIN s = 1..Len(s) /\ Len(s) \in Nat /\ \A i \in 1..Len(s) : s[i] \in Packet
  OBVIOUS
<1>2. \A p \in Packet : /\ [p EXCEPT !.id = 0] \in Packet
                        /\ [p EXCEPT !.id = 0].id = 0 /\ [p EXCEPT !.id = 0].seq = p.seq
                        /\ [p EXCEPT !.id = 0].slot = p.slot
  BY DEF Packet
<1>. DEFINE f == [i \in 1..Len(s) |-> [s[i] EXCEPT !.id = 0]]
<1>3. Forgotten(s) = f  BY <1>1 DEF Forgotten
<1>4. \A i \in 1..Len(s) : f[i] = [s[i] EXCEPT !.id = 0]  OBVIOUS
<1>5. f \in [1..Len(s) -> Packet]  BY <1>1, <1>2
<1>. HIDE DEF f
<1>6. f \in Seq(Packet) /\ Len(f) = Len(s)  BY <1>1, <1>5
<1>7. ASSUME NEW i \in 1..Len(s)
      PROVE  f[i].id = 0 /\ f[i].seq = s[i].seq /\ f[i].slot = s[i].slot
  <2>1. s[i] \in Packet /\ f[i] = [s[i] EXCEPT !.id = 0]  BY <1>1, <1>4
  <2>. QED  BY <1>2, <2>1
<1>. QED  BY <1>3, <1>6, <1>7

(* Types when a run begins.                                                *)
LEMMA TypeRestart == ASSUME RestartTypeOK, Restart PROVE RestartTypeOK'
<1>1. TypeOK  BY DEF RestartTypeOK
<1>2. pending' \in Seq(Command) /\ inPipe' \in Seq(Packet)
  <2>1. pending \in Seq(Command) /\ inPipe \in Seq(Packet)  BY <1>1 DEF TypeOK
  <2>. QED  BY <2>1, ForgottenCommands, ForgottenPackets DEF Restart
<1>3. cmd' \in Command
  BY SeqModAssumption DEF Restart, NoCommand, Command, Kinds
<1>4. reply' \in Packet  BY SeqModAssumption DEF Restart, NoReply, Packet, Slot, Forms
<1>5. 0 \in 0..MaxApdus /\ 0 \in 0..SeqMod /\ 0 \in 0..MaxRetries
  BY SeqModAssumption, RetriesAssumption, BoundsAssumption
<1>6. TypeOK'  BY <1>1, <1>2, <1>3, <1>4, <1>5 DEF Restart, TypeOK
<1>7. runs' \in Nat /\ settled' \in Nat /\ suspect' \in BOOLEAN
  BY DEF Restart, RestartTypeOK
<1>. QED  BY <1>6, <1>7 DEF RestartTypeOK

(* What a run that is not suspect leaves bears no sequence number 0.       *)
LEMMA FreshRestart == ASSUME RestartInv, Restart, ~suspect' PROVE Fresh'
<1>1. /\ TypeOK /\ IInv /\ Unsettled /\ settled \in Nat /\ sent \in Nat
      /\ \A n \in (settled + 1)..sent : SeqOf(n) # 0
  BY DEF RestartInv, RestartTypeOK, TypeOK, Restart
<1>2. \A n \in 1..sent : settled < n => SeqOf(n) # 0
  BY <1>1
<1>3. \A i \in 1..Len(pending') : StrangeCommand(pending'[i])
  <2>1. pending \in Seq(Command) /\ pending' = Forgotten(pending)
    BY <1>1 DEF TypeOK, Restart
  <2>2. /\ Len(pending') = Len(pending)
        /\ \A i \in 1..Len(pending) : pending'[i].id = 0 /\ pending'[i].seq = pending[i].seq
    BY <2>1, ForgottenCommands
  <2>3. ASSUME NEW i \in 1..Len(pending) PROVE pending[i].seq # 0
    <3>1. CASE StrangeCommand(pending[i])  BY <3>1 DEF StrangeCommand
    <3>2. CASE pending[i].id \in 1..sent /\ pending[i].seq = SeqOf(pending[i].id)
      <4>1. settled < pending[i].id  BY <1>1, <3>2 DEF Unsettled
      <4>. QED  BY <1>2, <3>2, <4>1
    <3>. QED  BY <1>1, <3>1, <3>2 DEF IInv, Numbered
  <2>. QED  BY <2>2, <2>3 DEF StrangeCommand
<1>4. \A i \in 1..Len(inPipe') : StrangePacket(inPipe'[i])
  <2>1. inPipe \in Seq(Packet) /\ inPipe' = Forgotten(inPipe)
    BY <1>1 DEF TypeOK, Restart
  <2>2. /\ Len(inPipe') = Len(inPipe)
        /\ \A i \in 1..Len(inPipe) : /\ inPipe'[i].id = 0 /\ inPipe'[i].seq = inPipe[i].seq
                                     /\ inPipe'[i].slot = inPipe[i].slot
    BY <2>1, ForgottenPackets
  <2>3. ASSUME NEW i \in 1..Len(inPipe)
        PROVE  ~(inPipe[i].slot = Slot /\ inPipe[i].seq = 0)
    <3>1. CASE StrangePacket(inPipe[i])  BY <3>1 DEF StrangePacket
    <3>2. CASE inPipe[i].id \in 1..sent /\ inPipe[i].seq = SeqOf(inPipe[i].id)
      <4>1. settled < inPipe[i].id  BY <1>1, <3>2 DEF Unsettled
      <4>. QED  BY <1>2, <3>2, <4>1
    <3>. QED  BY <1>1, <3>1, <3>2 DEF IInv, Numbered
  <2>. QED  BY <2>2, <2>3 DEF StrangePacket
<1>. QED  BY <1>3, <1>4 DEF Fresh, Restart, NoReply, StrangeCommand, StrangePacket

(* A run begins.                                                           *)
LEMMA InvRestart == ASSUME RestartInv, Restart PROVE RestartInv'
<1>1. RestartTypeOK'  BY TypeRestart DEF RestartInv
<1>2. ASSUME ~suspect' PROVE IInv' /\ Unsettled'
  <2>1. Fresh'  BY <1>2, FreshRestart
  <2>2. Fresh' => IInv'  BY InvFresh, PTL
  <2>3. Unsettled'
    BY <2>1 DEF Restart, Fresh, Unsettled, StrangeCommand, StrangePacket
  <2>. QED  BY <2>1, <2>2, <2>3
<1>. QED  BY <1>1, <1>2 DEF RestartInv

-------------------------------------------------------------------------------
(* The inductive invariant: what CcidReader assumes of its leftovers holds *)
(* for those of earlier runs, unless one of them was suspect.              *)
THEOREM Invariance == RestartSpec => []RestartInv
<1>1. RestartInit => RestartInv
  <2>. SUFFICES ASSUME RestartInit PROVE RestartInv  OBVIOUS
  <2>1. Init /\ runs = 1 /\ settled = 0 /\ suspect = FALSE  BY DEF RestartInit
  <2>2. TypeOK /\ IInv  BY <2>1, TypeInit, InvInit
  <2>3. sent = 0 /\ Fresh
    BY <2>1, LeftoversAssumption DEF Init, Fresh, NoReply
  <2>4. Unsettled
    BY <2>1, <2>3 DEF Fresh, Unsettled, StrangeCommand, StrangePacket
  <2>. QED  BY <2>1, <2>2, <2>4 DEF RestartInv, RestartTypeOK
<1>2. ASSUME RestartInv, [RestartNext]_restartVars PROVE RestartInv'
  <2>1. CASE WithinRun  BY <1>2, <2>1, InvWithinRun
  <2>2. CASE Restart  BY <1>2, <2>2, InvRestart
  <2>3. CASE UNCHANGED restartVars
    <3>1. UNCHANGED vars /\ UNCHANGED <<runs, settled, suspect>>
      BY <2>3 DEF restartVars
    <3>2. TypeOK'  BY <1>2, <3>1, TypeNext DEF RestartInv, RestartTypeOK
    <3>3. IInv => IInv'  BY <1>2, <3>1, InvNext DEF RestartInv, RestartTypeOK
    <3>4. Unsettled => Unsettled'
      BY <3>1 DEF Unsettled, vars, hostVars, tokenVars
    <3>. QED  BY <1>2, <3>1, <3>2, <3>3, <3>4 DEF RestartInv, RestartTypeOK
  <2>. QED  BY <1>2, <2>1, <2>2, <2>3 DEF RestartNext
<1>. QED  BY <1>1, <1>2, PTL DEF RestartSpec

(* ccid_reader_create() starts again at sequence number 0 while the token  *)
(* may still answer the runs before: ccid_xfer() never takes such an       *)
(* answer for its own, however many runs were interrupted and wherever,    *)
(* unless one left a command with sequence number 0 unanswered.            *)
THEOREM RestartsStayFresh == RestartSpec => []FreshAfterRestart
<1>1. RestartInv => FreshAfterRestart  BY DEF RestartInv, IInv, FreshAfterRestart
<1>. QED  BY <1>1, Invariance, PTL
===============================================================================

--------------------------- MODULE CcidReaderProofs ---------------------------
(***************************************************************************)
(* Proofs about CcidReader, for every SeqMod > 3, every retry budget, every*)
(* set of descriptors and of leftovers, every pipe and any number of APDU  *)
(* exchanges.                                                              *)
(***************************************************************************)
EXTENDS CcidReader, TLAPS

-------------------------------------------------------------------------------
(* Sequence numbers that wrap around, and the elements of a sequence after *)
(* Tail and Append                                                         *)

(* Quotient and remainder.                                                 *)
LEMMA DivMod ==
    ASSUME NEW M \in Nat, M > 0, NEW n \in Nat
    PROVE  n = M * (n \div M) + (n % M) /\ n \div M \in Nat /\ n % M \in 0..(M - 1)
OBVIOUS

(* Numbers below M are their own remainder.                                *)
LEMMA SmallMod ==
    ASSUME NEW M \in Nat, M > 0, NEW n \in Nat, n < M PROVE n % M = n
OBVIOUS

(* Different multiples of M are at least M apart.                          *)
LEMMA Multiples ==
    ASSUME NEW M \in Nat, M > 0, NEW p \in Nat, NEW q \in Nat, p < q
    PROVE  M * p + M <= M * q
OBVIOUS

(* Numbers less than M apart differ modulo M. *)
LEMMA ModApart ==
    ASSUME NEW M \in Nat, M > 0, NEW a \in Nat, NEW b \in Nat, a < b, b - a < M
    PROVE  a % M # b % M
<1>. SUFFICES ASSUME a % M = b % M PROVE FALSE  OBVIOUS
<1>. DEFINE p == a \div M
            q == b \div M
            r == a % M
<1>1. a = M * p + r /\ b = M * q + r /\ p \in Nat /\ q \in Nat /\ r \in 0..(M - 1)
  BY DivMod
<1>. HIDE DEF p, q, r
<1>2. M * p \in Int /\ M * q \in Int  BY <1>1
<1>3. M * p < M * q /\ M * q < M * p + M  BY <1>1, <1>2
<1>4. CASE p < q  BY <1>1, <1>2, <1>3, <1>4, Multiples
<1>5. CASE q < p
  <2>1. M * q + M <= M * p  BY <1>1, <1>5, Multiples
  <2>. QED  BY <2>1, <1>2, <1>3
<1>6. CASE p = q  BY <1>2, <1>3, <1>6
<1>. QED  BY <1>1, <1>4, <1>5, <1>6

(* There is only one remainder.                                            *)
LEMMA RemainderUnique ==
    ASSUME NEW M \in Nat, M > 0, NEW n \in Nat, NEW q \in Nat, NEW r \in 0..(M - 1),
           n = M * q + r
    PROVE  n % M = r
<1>. DEFINE p == n \div M
            s == n % M
<1>1. n = M * p + s /\ p \in Nat /\ s \in 0..(M - 1)  BY DivMod
<1>. SUFFICES s = r  OBVIOUS
<1>. HIDE DEF p, s
<1>2. M * p \in Int /\ M * q \in Int  BY <1>1
<1>3. CASE p < q  BY <1>1, <1>2, <1>3, Multiples
<1>4. CASE q < p
  <2>1. M * q + M <= M * p  BY <1>1, <1>4, Multiples
  <2>. QED  BY <2>1, <1>1, <1>2
<1>5. CASE p = q  BY <1>1, <1>2, <1>5
<1>. QED  BY <1>1, <1>3, <1>4, <1>5

(* It does not matter whether a counter wraps before or after it advances. *)
LEMMA ModSucc ==
    ASSUME NEW M \in Nat, M > 0, NEW n \in Nat PROVE ((n % M) + 1) % M = (n + 1) % M
<1>. DEFINE q == n \div M
            r == n % M
<1>1. n = M * q + r /\ q \in Nat /\ r \in 0..(M - 1)  BY DivMod
<1>. SUFFICES (r + 1) % M = (n + 1) % M  OBVIOUS
<1>. HIDE DEF q, r
<1>2. M * q \in Int /\ M * (q + 1) = M * q + M  BY <1>1
<1>3. CASE r + 1 < M
  <2>1. n + 1 = M * q + (r + 1) /\ r + 1 \in 0..(M - 1)  BY <1>1, <1>2, <1>3
  <2>2. (n + 1) % M = r + 1  BY <2>1, <1>1, RemainderUnique
  <2>. QED  BY <2>1, <2>2, SmallMod
<1>4. CASE r + 1 = M
  <2>1. /\ n + 1 \in Nat /\ n + 1 = M * (q + 1) + 0
        /\ 0 \in 0..(M - 1) /\ q + 1 \in Nat
    BY <1>1, <1>2, <1>4
  <2>2. (n + 1) % M = 0  BY <2>1, RemainderUnique
  <2>3. M = M * 1 + 0 /\ 1 \in Nat  OBVIOUS
  <2>4. M % M = 0  BY <2>1, <2>3, RemainderUnique
  <2>. QED  BY <2>2, <2>4, <1>4
<1>. QED  BY <1>1, <1>3, <1>4

(* The elements of a sequence.                                             *)
LEMMA SeqElements ==
    ASSUME NEW S, NEW s \in Seq(S)
    PROVE  /\ Len(s) \in Nat /\ \A i \in 1..Len(s) : s[i] \in S
           /\ s = <<>> <=> Len(s) = 0
OBVIOUS

(* The elements of a tail.                                                 *)
LEMMA SeqTail ==
    ASSUME NEW S, NEW s \in Seq(S), s # <<>>
    PROVE  /\ Len(s) \in Nat \ {0} /\ Len(Tail(s)) = Len(s) - 1 /\ Head(s) = s[1]
           /\ 1 \in 1..Len(s)
           /\ \A i \in 1..Len(Tail(s)) : Tail(s)[i] = s[i + 1] /\ i + 1 \in 1..Len(s)
OBVIOUS

(* The elements after one is appended.                                     *)
LEMMA SeqAppend ==
    ASSUME NEW S, NEW s \in Seq(S), NEW e \in S
    PROVE  /\ Len(s) \in Nat /\ Len(Append(s, e)) = Len(s) + 1
           /\ Append(s, e)[Len(s) + 1] = e
           /\ \A i \in 1..Len(s) : Append(s, e)[i] = s[i]
OBVIOUS

-------------------------------------------------------------------------------
(* Types *)

(* What ccid_build_command() builds is a command, whatever ccid_seq is.    *)
LEMMA CommandType ==
    ASSUME TypeOK, NEW kind \in Kinds, NEW v \in 0..3
    PROVE  /\ BuildCommand(kind, v) \in Command
           /\ BuildCommand(kind, v).id = sent + 1
           /\ BuildCommand(kind, v).seq \in 0..(SeqMod - 1)
<1>1. ccid_seq % SeqMod \in 0..(SeqMod - 1)  BY SeqModAssumption DEF TypeOK
<1>2. sent + 1 \in Nat \ {0}  BY DEF TypeOK
<1>. QED  BY <1>1, <1>2 DEF BuildCommand, Command

(* What the token answers is a packet.                                     *)
LEMMA AnswerType ==
    ASSUME NEW c \in Command, NEW type \in {"SLOTSTAT", "DATA"},
           NEW ctl \in {"ok", "absent", "more", "error"},
           NEW form \in Forms
    PROVE  Answer(c, type, ctl, form) \in Packet
BY DEF Answer, Command, Packet, Slot, Forms

(* There are two types of responses.                                       *)
LEMMA ExpectedTypeType ==
    ASSUME NEW kind PROVE ExpectedType(kind) \in {"SLOTSTAT", "DATA"}
BY DEF ExpectedType

(* Types after the first half of ccid_xfer().                              *)
LEMMA SendType ==
    ASSUME TypeOK, NEW kind \in Kinds, NEW v \in 0..3, CcidXferSend(kind, v)
    PROVE  /\ cmd' \in Command /\ pending' \in Seq(Command) /\ ccid_seq' \in 0..SeqMod
           /\ sent' \in Nat /\ retries' \in 0..MaxRetries
           /\ xfer' \in {"wait", "null"}
           /\ UNCHANGED <<reader, reply, executed, cardVolt, ccid, inPipe>>
<1>. DEFINE c == BuildCommand(kind, v)
<1>1. c \in Command /\ c.seq \in 0..(SeqMod - 1)  BY CommandType
<1>2. NextSeq(c) \in 0..SeqMod  BY <1>1, SeqModAssumption DEF NextSeq
<1>3. Append(pending, c) \in Seq(Command)  BY <1>1 DEF TypeOK
<1>. HIDE DEF c
<1>4. UNCHANGED <<reader, reply, executed, cardVolt, ccid, inPipe>>
  BY DEF CcidXferSend
<1>5. CASE cmd' = c /\ pending' = Append(pending, c) /\ ccid_seq' = NextSeq(c)
           /\ sent' = sent + 1 /\ retries' = MaxRetries /\ xfer' = "wait"
  BY <1>1, <1>2, <1>3, <1>4, <1>5, RetriesAssumption DEF TypeOK
<1>6. CASE xfer' = "null" /\ UNCHANGED <<cmd, pending, ccid_seq, sent, retries>>
  BY <1>4, <1>6 DEF TypeOK
<1>. QED  BY <1>5, <1>6 DEF CcidXferSend, c

(* Types in the initial states.                                            *)
LEMMA TypeInit == Init => TypeOK
<1>. SUFFICES ASSUME Init PROVE TypeOK  OBVIOUS
<1>1. inPipe \in Seq(Packet) /\ pending \in Seq(Command)
  BY LeftoversAssumption DEF Init
<1>2. NoCommand \in Command
  BY SeqModAssumption DEF NoCommand, Command, Kinds
<1>3. NoReply \in Packet  BY SeqModAssumption DEF NoReply, Packet, Slot, Forms
<1>4. ccid \in Descriptor  BY DescriptorsAssumption DEF Init
<1>5. 0 \in 0..MaxApdus /\ 0 \in 0..SeqMod /\ 0 \in 0..MaxRetries
  BY SeqModAssumption, RetriesAssumption, BoundsAssumption
<1>. QED  BY <1>1, <1>2, <1>3, <1>4, <1>5 DEF Init, TypeOK

(* Types after a turn of the loop of ccid_xfer().                          *)
LEMMA TypeXfer == ASSUME TypeOK, XferStep PROVE TypeOK'
<1>1. CASE CcidXferReceive
  <2>1. Tail(inPipe) \in Seq(Packet) /\ Head(inPipe) \in Packet
    BY <1>1 DEF CcidXferReceive, TypeOK
  <2>2. Judge(Head(inPipe)) \in {"wait", "ok", "null", "crashed"}
    BY DEF Judge
  <2>3. reply' \in Packet  BY <1>1, <2>1 DEF CcidXferReceive, TypeOK
  <2>4. retries' \in 0..MaxRetries  BY <1>1, RetriesAssumption DEF CcidXferReceive, TypeOK, RetriesLeft
  <2>. QED  BY <1>1, <2>1, <2>2, <2>3, <2>4 DEF CcidXferReceive, TypeOK, tokenVars
<1>2. CASE CcidXferReceiveFails
  <2>1. retries' \in 0..MaxRetries
    BY <1>2, RetriesAssumption DEF CcidXferReceiveFails, TypeOK, RetriesLeft
  <2>2. inPipe # <<>> => Tail(inPipe) \in Seq(Packet)  BY DEF TypeOK
  <2>3. inPipe' \in Seq(Packet)  BY <1>2, <2>2 DEF CcidXferReceiveFails, TypeOK
  <2>. QED  BY <1>2, <2>1, <2>3 DEF CcidXferReceiveFails, TypeOK, tokenVars
<1>3. CASE CcidXferTooManyRetries
  BY <1>3 DEF CcidXferTooManyRetries, TypeOK, tokenVars, hostVars
<1>. QED  BY <1>1, <1>2, <1>3 DEF XferStep

(* Types after a step of a caller of ccid_xfer().                          *)
LEMMA TypeCaller == ASSUME TypeOK, Caller PROVE TypeOK'
<1>1. CASE CcidReaderCreate
  <2>1. ccid.voltages \subseteq 1..3  BY DEF TypeOK, Descriptor
  <2>2. AutoVoltage \in BOOLEAN  BY DEF AutoVoltage
  <2>3. reader' \in [auto_voltage : BOOLEAN, supported_voltages : SUBSET (1..3)]
    BY <1>1, <2>1, <2>2 DEF CcidReaderCreate, TypeOK
  <2>. QED  BY <1>1, <2>3 DEF CcidReaderCreate, TypeOK, tokenVars
<1>2. CASE SelectSlot
  <2>1. "GETSLOTSTAT" \in Kinds /\ 0 \in 0..3  BY DEF Kinds
  <2>. QED  BY <1>2, <2>1, SendType DEF SelectSlot, TypeOK
<1>3. CASE SelectSlotReturn
  BY <1>3 DEF SelectSlotReturn, Return, TypeOK, tokenVars
<1>4. ASSUME NEW v \in 0..3, PowerOn(v) PROVE TypeOK'
  <2>1. "ICCPOWERON" \in Kinds  BY DEF Kinds
  <2>2. volt' \in 0..4  BY <1>4 DEF PowerOn
  <2>. QED  BY <1>4, <2>1, <2>2, SendType DEF PowerOn, TypeOK
<1>5. CASE PowerOnReturn
  BY <1>5 DEF PowerOnReturn, Return, TypeOK, tokenVars
<1>6. CASE PowerOnExhausted
  BY <1>6 DEF PowerOnExhausted, Return, TypeOK, tokenVars
<1>7. CASE ApduXfer
  <2>1. "XFRBLOCK" \in Kinds /\ 0 \in 0..3  BY DEF Kinds
  <2>2. apdus' \in 0..MaxApdus  BY <1>7, BoundsAssumption DEF ApduXfer, TypeOK
  <2>. QED  BY <1>7, <2>1, <2>2, SendType DEF ApduXfer, TypeOK
<1>8. CASE ApduXferReturn
  <2>1. tolerated' \in 0..1  BY <1>8 DEF ApduXferReturn, TypeOK
  <2>2. pc' \in {"stopped", "apdu"} /\ Return(pc')
    BY <1>8 DEF ApduXferReturn, Return
  <2>. QED  BY <2>1, <2>2 DEF Return, TypeOK, tokenVars
<1>. QED  BY <1>1, <1>2, <1>3, <1>4, <1>5, <1>6, <1>7, <1>8 DEF Caller

(* The first command the token has to work on, and the others.             *)
LEMMA HeadTailType ==
    ASSUME TypeOK, pending # <<>>
    PROVE  /\ Head(pending) \in Command /\ Tail(pending) \in Seq(Command)
           /\ Head(pending).id \in Nat /\ Head(pending).volt \in 0..3
<1>1. Head(pending) \in Command /\ Tail(pending) \in Seq(Command)  BY DEF TypeOK
<1>. QED  BY <1>1 DEF Command

(* Types after the token has carried out a command.                        *)
LEMMA ExecutesType ==
    ASSUME TypeOK, pending # <<>>, TokenExecutes
    PROVE  /\ pending' \in Seq(Command) /\ executed' \subseteq Nat \ {0}
           /\ cardVolt' \in -1..3
<1>1. cardVolt' \in -1..3
  <2>1. Head(pending).volt \in -1..3  BY HeadTailType
  <2>2. cardVolt \in -1..3  BY DEF TypeOK
  <2>. QED  BY <2>1, <2>2 DEF TokenExecutes
<1>2. executed' \subseteq Nat \ {0}  BY HeadTailType DEF TokenExecutes, TypeOK
<1>3. pending' \in Seq(Command)  BY HeadTailType DEF TokenExecutes
<1>. QED  BY <1>1, <1>2, <1>3

(* Types after a step of the token.                                        *)
LEMMA TypeToken == ASSUME TypeOK, Token PROVE TypeOK'
<1>. DEFINE c == Head(pending)
<1>1. /\ pending # <<>> /\ TokenUnchanged
      /\ c \in Command /\ Tail(pending) \in Seq(Command)
  <2>1. pending # <<>> /\ TokenUnchanged
    BY DEF Token, TokenAsksForTime, TokenAnswers, TokenRefuses, TokenStaysSilent
  <2>. QED  BY <2>1, HeadTailType
<1>2. ASSUME NEW type \in {"SLOTSTAT", "DATA"},
             NEW ctl \in {"ok", "absent", "more", "error"},
             NEW form \in Forms
      PROVE  Append(inPipe, Answer(c, type, ctl, form)) \in Seq(Packet)
  <2>1. Answer(c, type, ctl, form) \in Packet  BY <1>1, AnswerType
  <2>. QED  BY <2>1 DEF TypeOK
<1>. HIDE DEF c
<1>3. CASE TokenAsksForTime
  <2>1. inPipe' \in Seq(Packet)
    BY <1>2, <1>3, ExpectedTypeType DEF TokenAsksForTime, c, Forms
  <2>. QED  BY <1>1, <1>3, <2>1 DEF TokenAsksForTime, TokenUnchanged, hostVars, tokenVars, TypeOK
<1>4. ASSUME NEW form \in Forms, TokenAnswers(form) PROVE TypeOK'
  <2>1. inPipe' \in Seq(Packet)
    BY <1>2, <1>4, ExpectedTypeType DEF TokenAnswers, c
  <2>. QED
    BY <1>1, <1>4, <2>1, ExecutesType DEF TokenAnswers, TokenUnchanged, hostVars, TypeOK
<1>5. ASSUME NEW type \in {"SLOTSTAT", "DATA"}, TokenRefuses(type) PROVE TypeOK'
  <2>1. inPipe' \in Seq(Packet)
    BY <1>2, <1>5 DEF TokenRefuses, c, Forms
  <2>. QED  BY <1>1, <1>5, <2>1 DEF TokenRefuses, TokenUnchanged, hostVars, TypeOK
<1>6. CASE TokenStaysSilent
  BY <1>1, <1>6, ExecutesType DEF TokenStaysSilent, TokenUnchanged, hostVars, TypeOK
<1>. QED  BY <1>3, <1>4, <1>5, <1>6 DEF Token

LEMMA TypeNext == ASSUME TypeOK, [Next]_vars PROVE TypeOK'
<1>1. CASE Host  BY <1>1, TypeXfer, TypeCaller DEF Host
<1>2. CASE Token  BY <1>2, TypeToken
<1>3. CASE UNCHANGED vars
  BY <1>3 DEF TypeOK, vars, hostVars, tokenVars
<1>. QED  BY <1>1, <1>2, <1>3 DEF Next, Terminated

(* Every variable keeps its type; in particular the sequence number of a   *)
(* command is truncated to one byte by ccid_build_command().               *)
THEOREM TypeCorrect == Spec => []TypeOK
BY TypeInit, TypeNext, PTL DEF Spec

-------------------------------------------------------------------------------
(* Safety: IInv is inductive *)

(* What TypeOK says of single commands and packets. *)
LEMMA Elements ==
    ASSUME TypeOK
    PROVE  /\ Len(pending) \in Nat /\ Len(inPipe) \in Nat
           /\ \A i \in 1..Len(pending) : pending[i] \in Command /\ pending[i].id \in Nat
           /\ \A i \in 1..Len(inPipe) : inPipe[i] \in Packet /\ inPipe[i].id \in Nat
           /\ reply.id \in Nat /\ sent \in Nat /\ volt \in 0..4 /\ tolerated \in 0..1
           /\ (pending = <<>> <=> Len(pending) = 0) /\ (inPipe = <<>> <=> Len(inPipe) = 0)
<1>1. pending \in Seq(Command) /\ inPipe \in Seq(Packet)  BY DEF TypeOK
<1>2. /\ \A i \in 1..Len(pending) : pending[i] \in Command
      /\ \A i \in 1..Len(inPipe) : inPipe[i] \in Packet
      /\ Len(pending) \in Nat /\ Len(inPipe) \in Nat
      /\ (pending = <<>> <=> Len(pending) = 0) /\ (inPipe = <<>> <=> Len(inPipe) = 0)
  BY <1>1, SeqElements
<1>3. \A c \in Command : c.id \in Nat  BY DEF Command
<1>4. \A p \in Packet : p.id \in Nat  BY DEF Packet
<1>. QED  BY <1>2, <1>3, <1>4 DEF TypeOK

(* Commands less than SeqMod apart have different sequence numbers.        *)
LEMMA SeqOfApart ==
    ASSUME NEW a \in Nat \ {0}, NEW b \in Nat \ {0}, a < b, b - a < SeqMod
    PROVE  SeqOf(a) # SeqOf(b)
<1>. DEFINE x == a - 1
            y == b - 1
<1>1. x \in Nat /\ y \in Nat /\ x < y /\ y - x < SeqMod /\ SeqMod \in Nat /\ SeqMod > 0
  BY SeqModAssumption
<1>2. SUFFICES x % SeqMod # y % SeqMod  BY DEF SeqOf
<1>. HIDE DEF x, y
<1>. QED  BY <1>1, ModApart

(* The number a command gets is the one its place in the order calls for,  *)
(* and ccid_seq keeps up with it.                                          *)
LEMMA SeqOfNext ==
    ASSUME TypeOK, Numbered, NEW kind, NEW v
    PROVE  /\ BuildCommand(kind, v).seq = SeqOf(sent + 1)
           /\ NextSeq(BuildCommand(kind, v)) % SeqMod = (sent + 1) % SeqMod
<1>1. sent \in Nat /\ ccid_seq \in Nat  BY SeqModAssumption DEF TypeOK
<1>2. ccid_seq % SeqMod = sent % SeqMod  BY DEF Numbered
<1>3. BuildCommand(kind, v).seq = sent % SeqMod  BY <1>2 DEF BuildCommand
<1>4. SeqOf(sent + 1) = sent % SeqMod  BY <1>1 DEF SeqOf
<1>5. ((sent % SeqMod) + 1) % SeqMod = (sent + 1) % SeqMod
  <2>1. SeqMod \in Nat /\ SeqMod > 0  BY SeqModAssumption
  <2>. QED  BY <1>1, <2>1, ModSucc
<1>. QED  BY <1>3, <1>4, <1>5 DEF NextSeq

(* A run has begun, and what earlier users left bears no sequence number   *)
(* 0.                                                                      *)
Fresh ==
    /\ pc = "create" /\ xfer = "idle" /\ ccid_seq = 0 /\ sent = 0 /\ reply.id = 0
    /\ executed = {}
    /\ \A i \in 1..Len(pending) : StrangeCommand(pending[i])
    /\ \A i \in 1..Len(inPipe) : StrangePacket(inPipe[i])

(* No command of ours is under way, and no leftover looks like an answer.  *)
LEMMA InvFresh == Fresh => IInv
<1>. SUFFICES ASSUME Fresh PROVE IInv  OBVIOUS
<1>1. /\ sent = 0 /\ executed = {} /\ reply.id = 0
      /\ xfer = "idle" /\ pc = "create" /\ ccid_seq = 0
  BY DEF Fresh
<1>2. \A i \in 1..Len(pending) : StrangeCommand(pending[i]) /\ pending[i].id = 0
  BY DEF Fresh, StrangeCommand
<1>3. \A i \in 1..Len(inPipe) : StrangePacket(inPipe[i]) /\ inPipe[i].id = 0
  BY DEF Fresh, StrangePacket
<1>4. Numbered  BY <1>1, <1>2, <1>3 DEF Numbered
<1>5. Ordered  BY <1>1, <1>2, <1>3 DEF Ordered, Before
<1>6. CarriedOut  BY <1>1, <1>2, <1>3 DEF CarriedOut
<1>7. Drained /\ Window  BY <1>1 DEF Drained, Window
<1>8. Powered  BY <1>1 DEF Powered
<1>. QED
  BY <1>1, <1>4, <1>5, <1>6, <1>7, <1>8 DEF IInv, FreshAnswer, CleanPipe

LEMMA InvInit == Init => IInv
<1>1. Init => Fresh
  BY LeftoversAssumption DEF Init, Fresh, NoReply
<1>. QED  BY <1>1, InvFresh

(* Steps that leave the token, the pipe and the command alone. *)
LEMMA InvStill ==
    ASSUME TypeOK, IInv, UNCHANGED <<ccid_seq, cmd, reply, sent, tokenVars, inPipe>>,
           xfer' \in {xfer, "idle", "null"}
    PROVE  /\ Numbered' /\ Ordered' /\ Drained' /\ CarriedOut' /\ FreshAnswer' /\ CleanPipe'
<1>1. Numbered'  BY DEF IInv, Numbered, tokenVars
<1>2. Ordered'  BY DEF IInv, Ordered, tokenVars
<1>3. Drained'  BY DEF IInv, Drained, tokenVars
<1>4. CarriedOut'  BY DEF IInv, CarriedOut, tokenVars
<1>5. FreshAnswer' /\ CleanPipe'  BY DEF IInv, FreshAnswer, CleanPipe, tokenVars
<1>. QED  BY <1>1, <1>2, <1>3, <1>4, <1>5

(* ccid_xfer() sends, or the transport refuses.                            *)
LEMMA InvSend ==
    ASSUME TypeOK, IInv, NEW kind \in Kinds, NEW v \in 0..3, CcidXferSend(kind, v)
    PROVE  /\ Numbered' /\ Ordered' /\ Drained' /\ CarriedOut' /\ FreshAnswer' /\ CleanPipe'
           /\ \/ xfer' = "null" /\ UNCHANGED <<cmd, pending, sent>>
              \/ /\ xfer' = "wait" /\ sent' = sent + 1
                 /\ cmd'.id = sent' /\ cmd'.kind = kind /\ cmd'.volt = v
                 /\ Len(pending') = Len(pending) + 1 /\ pending'[Len(pending) + 1] = cmd'
                 /\ \A i \in 1..Len(pending) : pending'[i] = pending[i]
<1>1. /\ xfer = "idle" /\ xfer' \in {"wait", "null"}
      /\ UNCHANGED <<reply, executed, cardVolt, inPipe>>
  BY SendType DEF CcidXferSend
<1>2. FreshAnswer' /\ CleanPipe'  BY <1>1 DEF FreshAnswer, CleanPipe
<1>3. CASE xfer' = "null" /\ UNCHANGED <<cmd, pending, ccid_seq, sent, retries>>
  BY <1>1, <1>3, InvStill DEF tokenVars
<1>. DEFINE c == BuildCommand(kind, v)
<1>4. CASE /\ cmd' = c /\ pending' = Append(pending, c) /\ ccid_seq' = NextSeq(c)
           /\ sent' = sent + 1 /\ xfer' = "wait"
  <2>1. c \in Command /\ c.id = sent + 1 /\ c.kind = kind /\ c.volt = v
    BY CommandType DEF BuildCommand
  <2>2. c.seq = SeqOf(sent + 1) /\ NextSeq(c) % SeqMod = (sent + 1) % SeqMod
    BY SeqOfNext DEF IInv
  <2>. HIDE DEF c
  <2>3. /\ Len(pending') = Len(pending) + 1 /\ pending'[Len(pending) + 1] = c
        /\ \A i \in 1..Len(pending) : pending'[i] = pending[i]
    <3>1. pending \in Seq(Command)  BY DEF TypeOK
    <3>. QED  BY <1>4, <2>1, <3>1, SeqAppend
  <2>4. \A i \in 1..Len(pending') : i \in 1..Len(pending) \/ i = Len(pending) + 1
    BY <2>3, Elements
  <2>5. /\ \A i \in 1..Len(pending) : pending[i].id \in 0..sent
        /\ \A i \in 1..Len(inPipe) : inPipe[i].id \in 0..sent
    <3>1. \A i \in 1..Len(pending) : pending[i].id = 0 \/ pending[i].id \in 1..sent
      BY DEF IInv, Numbered, StrangeCommand
    <3>2. \A i \in 1..Len(inPipe) : inPipe[i].id = 0 \/ inPipe[i].id \in 1..sent
      BY DEF IInv, Numbered, StrangePacket
    <3>. QED  BY <3>1, <3>2, Elements
  <2>6. Numbered'
    <3>1. ccid_seq' % SeqMod = sent' % SeqMod  BY <1>4, <2>2
    <3>2. sent' > 0 /\ cmd'.id = sent' /\ cmd'.seq = SeqOf(sent')
      BY <1>4, <2>1, <2>2, Elements
    <3>3. ASSUME NEW i \in 1..Len(pending')
          PROVE  \/ StrangeCommand(pending'[i])
                 \/ pending'[i].id \in 1..sent' /\ pending'[i].seq = SeqOf(pending'[i].id)
      <4>1. CASE i \in 1..Len(pending)
        <5>1. \/ StrangeCommand(pending[i])
              \/ pending[i].id \in 1..sent /\ pending[i].seq = SeqOf(pending[i].id)
          BY <4>1 DEF IInv, Numbered
        <5>2. 1..sent \subseteq 1..sent'  BY <1>4, Elements
        <5>. QED  BY <2>3, <4>1, <5>1, <5>2
      <4>2. CASE i = Len(pending) + 1
        BY <1>4, <2>1, <2>2, <2>3, <4>2, Elements
      <4>. QED  BY <2>4, <4>1, <4>2
    <3>4. ASSUME NEW i \in 1..Len(inPipe)
          PROVE  \/ StrangePacket(inPipe[i])
                 \/ inPipe[i].id \in 1..sent' /\ inPipe[i].seq = SeqOf(inPipe[i].id)
      BY <1>4, Elements DEF IInv, Numbered
    <3>. QED  BY <1>1, <3>1, <3>2, <3>3, <3>4 DEF Numbered, StrangePacket, StrangeCommand
  <2>7. Ordered'
    <3>1. ASSUME NEW i \in 1..Len(pending'), NEW j \in 1..Len(pending'), i < j
          PROVE  pending'[i].id < pending'[j].id \/ pending'[i].id = 0
      <4>1. i \in 1..Len(pending)  BY <2>3, <2>4, <3>1, Elements
      <4>2. CASE j \in 1..Len(pending)
        BY <2>3, <3>1, <4>1, <4>2 DEF IInv, Ordered
      <4>3. CASE j = Len(pending) + 1
        BY <2>1, <2>3, <2>5, <4>1, <4>3, Elements
      <4>. QED  BY <2>4, <4>2, <4>3
    <3>2. \A i, j \in 1..Len(inPipe) : i < j => Before(inPipe[i], inPipe[j].id)
      BY DEF IInv, Ordered
    <3>3. ASSUME NEW i \in 1..Len(inPipe), NEW j \in 1..Len(pending')
          PROVE  Before(inPipe[i], pending'[j].id)
      <4>1. CASE j \in 1..Len(pending)
        BY <2>3, <4>1 DEF IInv, Ordered
      <4>2. CASE j = Len(pending) + 1
        BY <2>1, <2>3, <2>5, <4>2, Elements DEF Before
      <4>. QED  BY <2>4, <4>1, <4>2
    <3>. QED  BY <1>1, <3>1, <3>2, <3>3 DEF Ordered, Before
  <2>8. Drained'
    <3>1. /\ reply.id <= sent
          /\ reply.id # 0 => \A i \in 1..Len(pending) : reply.id < pending[i].id
      BY DEF IInv, Drained, Window
    <3>2. ASSUME reply.id # 0, NEW i \in 1..Len(pending') PROVE reply.id < pending'[i].id
      <4>1. CASE i \in 1..Len(pending)  BY <2>3, <3>1, <3>2, <4>1
      <4>2. CASE i = Len(pending) + 1
        <5>1. pending'[i].id = sent + 1  BY <2>1, <2>3, <4>2
        <5>2. reply.id \in Nat /\ sent \in Nat  BY Elements
        <5>. QED  BY <3>1, <5>1, <5>2
      <4>. QED  BY <2>4, <4>1, <4>2
    <3>. QED  BY <1>1, <3>2 DEF IInv, Drained
  <2>9. CarriedOut'
    <3>1. executed \subseteq 1..sent /\ executed \subseteq 1..sent'
      BY <1>4, Elements DEF IInv, CarriedOut
    <3>2. ASSUME NEW m \in executed, NEW i \in 1..Len(pending') PROVE m < pending'[i].id
      <4>1. m \in 1..sent  BY <3>1
      <4>2. CASE i \in 1..Len(pending)  BY <2>3, <4>2 DEF IInv, CarriedOut
      <4>3. CASE i = Len(pending) + 1  BY <2>1, <2>3, <4>1, <4>3, Elements
      <4>. QED  BY <2>4, <4>2, <4>3
    <3>. QED  BY <1>1, <3>1, <3>2 DEF IInv, CarriedOut, Succeeds
  <2>. QED  BY <1>2, <1>4, <2>1, <2>3, <2>6, <2>7, <2>8, <2>9
<1>. QED  BY <1>3, <1>4 DEF CcidXferSend

(* No command under way is SeqMod or more before the one waited for.       *)
LEMMA Window4 ==
    ASSUME TypeOK, IInv, xfer = "wait", NEW n \in Nat \ {0}, reply.id < n, n <= sent
    PROVE  sent - n < SeqMod
<1>1. pc \in {"select", "reset", "apdu"}
  BY DEF TypeOK, IInv, Window
<1>2. CASE pc = "select"  BY <1>2, Elements, SeqModAssumption DEF IInv, Window
<1>3. CASE pc = "reset"  BY <1>3, Elements, SeqModAssumption DEF IInv, Window
<1>4. CASE pc = "apdu"
  <2>1. sent - reply.id <= tolerated + 1  BY <1>4 DEF IInv, Window
  <2>. QED  BY <2>1, Elements, SeqModAssumption
<1>. QED  BY <1>1, <1>2, <1>3, <1>4

(* A packet with our slot and number is never a leftover. *)
LEMMA NotStrange ==
    ASSUME TypeOK, IInv, xfer = "wait", NEW i \in 1..Len(inPipe), Mine(inPipe[i])
    PROVE  inPipe[i].id \in 1..sent /\ inPipe[i].seq = SeqOf(inPipe[i].id)
<1>1. SUFFICES ASSUME StrangePacket(inPipe[i]) PROVE FALSE
  BY DEF IInv, Numbered
<1>2. inPipe[i].id = 0 /\ cmd.seq # 0  BY <1>1 DEF StrangePacket, Mine
<1>3. reply.id = 0  BY <1>2, Elements DEF IInv, Drained
<1>4. pc = "select"  BY <1>3 DEF TypeOK, IInv, Window
<1>5. sent = 1  BY <1>4, Elements DEF IInv, Window, Numbered
<1>6. 0 % SeqMod = 0
  <2>1. SeqMod \in Nat /\ SeqMod > 0 /\ 0 \in Nat /\ 0 < SeqMod  BY SeqModAssumption
  <2>. QED  BY <2>1, SmallMod
<1>7. cmd.seq = 0  BY <1>5, <1>6 DEF IInv, Numbered, SeqOf
<1>. QED  BY <1>2, <1>7

(* What the sequence number can tell: a packet that bears it and asks for  *)
(* no more time answers the command under way, and nothing else is left.   *)
LEMMA Received ==
    ASSUME TypeOK, IInv, xfer = "wait", inPipe # <<>>,
           Mine(inPipe[1]), inPipe[1].ctl # "more"
    PROVE  inPipe[1].id = sent /\ pending = <<>> /\ Tail(inPipe) = <<>>
<1>. DEFINE p == inPipe[1]
<1>1. 1 \in 1..Len(inPipe)  BY Elements
<1>2. p.id \in 1..sent /\ p.seq = SeqOf(p.id) /\ reply.id < p.id
  BY <1>1, NotStrange, Elements DEF IInv, Drained
<1>3. SeqOf(p.id) = SeqOf(sent)  BY <1>2 DEF IInv, Numbered, Mine
<1>4. p.ctl # "more"  OBVIOUS
<1>. HIDE DEF p
<1>5. p.id = sent
  <2>1. SUFFICES ASSUME p.id < sent PROVE FALSE  BY <1>2, Elements
  <2>2. p.id \in Nat \ {0} /\ sent \in Nat \ {0}  BY <1>2, Elements
  <2>3. sent - p.id < SeqMod  BY <1>2, <2>1, <2>2, Window4
  <2>. QED  BY <1>3, <2>1, <2>2, <2>3, SeqOfApart
<1>6. \A n : Before(p, n) => p.id < n  BY <1>2, <1>4 DEF Before
<1>7. Len(pending) = 0
  <2>1. SUFFICES ASSUME Len(pending) # 0 PROVE FALSE  OBVIOUS
  <2>2. 1 \in 1..Len(pending)  BY <2>1, Elements
  <2>3. p.id < pending[1].id  BY <1>1, <1>6, <2>2 DEF IInv, Ordered, p
  <2>4. pending[1].id = 0 \/ pending[1].id \in 1..sent
    BY <2>2 DEF IInv, Numbered, StrangeCommand
  <2>. QED  BY <1>5, <2>2, <2>3, <2>4, Elements
<1>8. Len(inPipe) = 1
  <2>1. SUFFICES ASSUME Len(inPipe) # 1 PROVE FALSE  OBVIOUS
  <2>2. 2 \in 1..Len(inPipe)
    <3>1. Len(inPipe) \in Nat  BY Elements
    <3>2. \A n \in Nat : 1 \in 1..n /\ n # 1 => 2 \in 1..n  OBVIOUS
    <3>. QED  BY <1>1, <2>1, <3>1, <3>2
  <2>3. p.id < inPipe[2].id  BY <1>1, <1>6, <2>2 DEF IInv, Ordered, p
  <2>4. inPipe[2].id = 0 \/ inPipe[2].id \in 1..sent
    BY <2>2 DEF IInv, Numbered, StrangePacket
  <2>. QED  BY <1>5, <2>2, <2>3, <2>4, Elements
<1>9. Tail(inPipe) = <<>>
  <2>1. inPipe \in Seq(Packet)  BY DEF TypeOK
  <2>2. Len(Tail(inPipe)) = 0 /\ Tail(inPipe) \in Seq(Packet)  BY <1>8, <2>1, SeqTail
  <2>. QED  BY <2>2, SeqElements
<1>. QED  BY <1>5, <1>7, <1>9, Elements DEF p

(* A packet leaves the pipe, whatever it was. *)
LEMMA InvPop ==
    ASSUME TypeOK, IInv, xfer = "wait", inPipe # <<>>, inPipe' = Tail(inPipe),
           UNCHANGED <<ccid_seq, cmd, sent, tokenVars>>
    PROVE  /\ Numbered' /\ Ordered' /\ CarriedOut'
           /\ \A i \in 1..Len(inPipe') : inPipe'[i] = inPipe[i + 1] /\ i + 1 \in 1..Len(inPipe)
           /\ Len(inPipe') \in Nat
<1>1. /\ \A i \in 1..Len(inPipe') : inPipe'[i] = inPipe[i + 1] /\ i + 1 \in 1..Len(inPipe)
      /\ Len(inPipe') \in Nat
  <2>1. inPipe \in Seq(Packet)  BY DEF TypeOK
  <2>. QED  BY <2>1, SeqTail
<1>2. Numbered'
  <2>1. ASSUME NEW i \in 1..Len(inPipe')
        PROVE  \/ StrangePacket(inPipe'[i])
               \/ inPipe'[i].id \in 1..sent /\ inPipe'[i].seq = SeqOf(inPipe'[i].id)
    BY <1>1 DEF IInv, Numbered
  <2>2. ccid_seq % SeqMod = sent % SeqMod  BY DEF IInv, Numbered
  <2>3. sent > 0 /\ cmd.id = sent /\ cmd.seq = SeqOf(sent)  BY DEF IInv, Numbered
  <2>4. \A i \in 1..Len(pending) :
            \/ StrangeCommand(pending[i])
            \/ pending[i].id \in 1..sent /\ pending[i].seq = SeqOf(pending[i].id)
    BY DEF IInv, Numbered
  <2>. QED
    BY <2>1, <2>2, <2>3, <2>4 DEF Numbered, StrangePacket, StrangeCommand, SeqOf, tokenVars
<1>3. Ordered'
  <2>1. ASSUME NEW i \in 1..Len(inPipe'), NEW j \in 1..Len(inPipe'), i < j
        PROVE  Before(inPipe'[i], inPipe'[j].id)
    <3>1. i + 1 < j + 1 /\ i + 1 \in 1..Len(inPipe) /\ j + 1 \in 1..Len(inPipe)
      BY <1>1, <2>1
    <3>2. Before(inPipe[i + 1], inPipe[j + 1].id)  BY <3>1 DEF IInv, Ordered
    <3>. QED  BY <1>1, <3>2
  <2>2. ASSUME NEW i \in 1..Len(inPipe'), NEW j \in 1..Len(pending)
        PROVE  Before(inPipe'[i], pending[j].id)
    BY <1>1 DEF IInv, Ordered
  <2>3. \A i, j \in 1..Len(pending) :
            i < j => pending[i].id < pending[j].id \/ pending[i].id = 0
    BY DEF IInv, Ordered
  <2>. QED  BY <2>1, <2>2, <2>3 DEF Ordered, Before, tokenVars
<1>4. CarriedOut'
  BY <1>1 DEF IInv, CarriedOut, Succeeds, tokenVars
<1>. QED  BY <1>1, <1>2, <1>3, <1>4

(* ccid_xfer() accepts only what bears our slot and number and succeeds.   *)
LEMMA JudgeOk ==
    ASSUME NEW p, Judge(p) = "ok"
    PROVE  Mine(p) /\ Succeeds(p) /\ p.ctl # "more" /\ ~Unparsable(p)
<1>1. Mine(p) /\ Succeeds(p) /\ ~Unparsable(p)  BY DEF Judge
<1>. QED  BY <1>1 DEF Succeeds

(* A turn of the loop of ccid_xfer().                                      *)
LEMMA InvXfer == ASSUME TypeOK, IInv, XferStep PROVE IInv'
<1>1. ASSUME xfer = "wait", inPipe # <<>>, inPipe' = Tail(inPipe),
             xfer' \in {"wait", "null", "crashed"},
             UNCHANGED <<pc, reader, volt, apdus, tolerated, ccid_seq, cmd, sent, reply,
                         tokenVars, ccid>>
      PROVE  IInv'
  <2>1. /\ Numbered' /\ Ordered' /\ CarriedOut' /\ Len(inPipe') \in Nat
        /\ \A i \in 1..Len(inPipe') : inPipe'[i] = inPipe[i + 1] /\ i + 1 \in 1..Len(inPipe)
    BY <1>1, InvPop
  <2>2. Drained'  BY <1>1, <2>1 DEF IInv, Drained, tokenVars
  <2>3. Window'  BY <1>1 DEF IInv, Window
  <2>4. Powered'
    <3>1. pc = "reset" /\ xfer' = "wait" =>
              \A i \in 1..Len(inPipe') :
                  inPipe'[i].id = sent /\ Succeeds(inPipe'[i]) => cardVolt = volt - 1
      BY <1>1, <2>1 DEF IInv, Powered
    <3>. QED  BY <1>1, <3>1 DEF IInv, Powered, Succeeds, tokenVars
  <2>5. FreshAnswer' /\ CleanPipe'  BY <1>1 DEF FreshAnswer, CleanPipe
  <2>. QED  BY <2>1, <2>2, <2>3, <2>4, <2>5 DEF IInv
<1>2. CASE CcidXferReceive
  <2>1. /\ xfer = "wait" /\ inPipe # <<>> /\ inPipe' = Tail(inPipe)
        /\ xfer' = Judge(inPipe[1])
        /\ reply' = IF xfer' = "ok" THEN inPipe[1] ELSE reply
        /\ UNCHANGED <<pc, reader, volt, apdus, tolerated, ccid_seq, cmd, sent, tokenVars, ccid>>
    <3>1. inPipe # <<>> /\ inPipe \in Seq(Packet)  BY <1>2 DEF CcidXferReceive, TypeOK
    <3>2. Head(inPipe) = inPipe[1]  BY <3>1, SeqTail
    <3>. QED  BY <1>2, <3>2 DEF CcidXferReceive
  <2>2. xfer' \in {"wait", "ok", "null", "crashed"}  BY <2>1 DEF Judge
  <2>3. CASE xfer' # "ok"  BY <1>1, <2>1, <2>2, <2>3
  <2>4. CASE xfer' = "ok"
    <3>1. /\ Mine(inPipe[1]) /\ Succeeds(inPipe[1]) /\ inPipe[1].id = sent
          /\ pending = <<>> /\ Tail(inPipe) = <<>>
      BY <2>1, <2>4, JudgeOk, Received
    <3>2. Numbered' /\ Ordered' /\ CarriedOut'  BY <2>1, InvPop
    <3>3. /\ reply'.id = sent /\ pending' = <<>> /\ inPipe' = <<>>
          /\ Len(pending') = 0 /\ Len(inPipe') = 0
      BY <2>1, <2>4, <3>1, Elements DEF tokenVars
    <3>4. Drained'  BY <3>3 DEF Drained
    <3>5. sent > 0 /\ sent \in Nat /\ volt \in 0..4 /\ tolerated \in 0..1
      BY <2>1, Elements DEF IInv, Numbered
    <3>6. pc \in {"select", "reset", "apdu"}  BY <2>1 DEF TypeOK, IInv, Window
    <3>7. Window'
      <4>1. pc = "select" => sent <= 1  BY DEF IInv, Window
      <4>. QED  BY <2>1, <2>4, <3>3, <3>5, <3>6, <4>1 DEF Window
    <3>8. Powered'
      <4>1. pc = "reset" => /\ cardVolt = volt - 1 /\ cmd.kind = "ICCPOWERON"
                            /\ cmd.volt = volt - 1
        <5>1. 1 \in 1..Len(inPipe)  BY <2>1, Elements
        <5>. QED  BY <2>1, <3>1, <5>1 DEF IInv, Powered
      <4>2. pc = "apdu" => cardVolt = volt - 1  BY DEF IInv, Powered
      <4>. QED  BY <2>1, <2>4, <3>3, <4>1, <4>2 DEF Powered, tokenVars
    <3>9. FreshAnswer' /\ CleanPipe'  BY <2>1, <3>3 DEF FreshAnswer, CleanPipe
    <3>. QED  BY <3>2, <3>4, <3>7, <3>8, <3>9 DEF IInv
  <2>. QED  BY <2>3, <2>4
<1>3. CASE xfer = "wait" /\ xfer' = "null" /\ UNCHANGED inPipe
           /\ UNCHANGED <<pc, reader, volt, apdus, tolerated, ccid_seq, cmd, reply, sent,
                          tokenVars, ccid>>
  <2>1. Numbered' /\ Ordered' /\ Drained' /\ CarriedOut' /\ FreshAnswer' /\ CleanPipe'
    BY <1>3, InvStill
  <2>2. Window'  BY <1>3 DEF IInv, Window
  <2>3. Powered'  BY <1>3 DEF IInv, Powered, tokenVars
  <2>. QED  BY <2>1, <2>2, <2>3 DEF IInv
<1>4. CASE CcidXferReceiveFails  BY <1>1, <1>3, <1>4 DEF CcidXferReceiveFails
<1>5. CASE CcidXferTooManyRetries
  BY <1>3, <1>5 DEF CcidXferTooManyRetries, hostVars
<1>. QED  BY <1>2, <1>4, <1>5 DEF XferStep

(* A step of a caller that sends nothing. *)
LEMMA InvReturn ==
    ASSUME TypeOK, IInv, NEW to, Return(to), Window', Powered'
    PROVE  IInv'
BY InvStill DEF Return, IInv

(* No command has been sent that was not counted. *)
LEMMA PendingIds ==
    ASSUME TypeOK, IInv PROVE \A i \in 1..Len(pending) : pending[i].id <= sent
<1>1. \A i \in 1..Len(pending) : pending[i].id = 0 \/ pending[i].id \in 1..sent
  BY DEF IInv, Numbered, StrangeCommand
<1>. QED  BY <1>1, Elements

(* A step of a caller of ccid_xfer().                                      *)
LEMMA InvCaller == ASSUME TypeOK, IInv, Caller PROVE IInv'
<1>1. CASE CcidReaderCreate
  <2>1. Numbered' /\ Ordered' /\ Drained' /\ CarriedOut' /\ FreshAnswer' /\ CleanPipe'
    BY <1>1, InvStill DEF CcidReaderCreate
  <2>2. Window' /\ Powered'
    BY <1>1 DEF CcidReaderCreate, IInv, Window, Powered
  <2>. QED  BY <2>1, <2>2 DEF IInv
<1>2. CASE SelectSlot
  <2>1. CcidXferSend("GETSLOTSTAT", 0) /\ pc = "select" /\ UNCHANGED <<pc, volt, apdus, tolerated>>
    BY <1>2 DEF SelectSlot
  <2>2. /\ Numbered' /\ Ordered' /\ Drained' /\ CarriedOut' /\ FreshAnswer' /\ CleanPipe'
        /\ \/ xfer' = "null" /\ UNCHANGED <<cmd, pending, sent>>
           \/ /\ xfer' = "wait" /\ sent' = sent + 1
              /\ cmd'.id = sent'
              /\ Len(pending') = Len(pending) + 1 /\ pending'[Len(pending) + 1] = cmd'
              /\ \A i \in 1..Len(pending) : pending'[i] = pending[i]
    BY <2>1, InvSend DEF Kinds
  <2>3. UNCHANGED <<reply, cardVolt, inPipe>> /\ xfer = "idle"
    BY <2>1 DEF CcidXferSend
  <2>4. Window'  BY <2>1, <2>2, <2>3, Elements DEF IInv, Window
  <2>5. xfer' = "wait" => \A i \in 1..Len(pending') : pending'[i].id = sent' => pending'[i] = cmd'
    <3>1. \A i \in 1..Len(pending) : pending[i].id <= sent  BY PendingIds
    <3>. QED  BY <2>2, <3>1, Elements
  <2>6. Powered'  BY <2>1, <2>5 DEF Powered
  <2>. QED  BY <2>2, <2>4, <2>6 DEF IInv
<1>3. CASE SelectSlotReturn
  <2>1. pc = "select" /\ UNCHANGED tolerated
    BY <1>3 DEF SelectSlotReturn
  <2>2. \/ xfer = "ok" /\ Return("reset")
        \/ Return("stopped")
    BY <1>3 DEF SelectSlotReturn
  <2>3. Powered'  BY <2>2 DEF Return, Powered
  <2>4. CASE xfer = "ok" /\ Return("reset")
    <3>1. reply.id = sent /\ sent > 0  BY <2>4 DEF IInv, FreshAnswer, Numbered
    <3>2. Window'  BY <2>4, <3>1, Elements DEF Return, Window
    <3>. QED  BY <2>3, <2>4, <3>2, InvReturn
  <2>5. CASE Return("stopped")
    <3>1. Window'  BY <2>5 DEF Return, IInv, Window
    <3>. QED  BY <2>3, <2>5, <3>1, InvReturn
  <2>. QED  BY <2>2, <2>4, <2>5
<1>4. ASSUME NEW v \in 0..3, PowerOn(v) PROVE IInv'
  <2>1. /\ CcidXferSend("ICCPOWERON", v) /\ pc = "reset" /\ volt' = v + 1 /\ v >= volt
        /\ UNCHANGED <<pc, apdus, tolerated>>
    BY <1>4 DEF PowerOn, Untried
  <2>2. /\ Numbered' /\ Ordered' /\ Drained' /\ CarriedOut' /\ FreshAnswer' /\ CleanPipe'
        /\ \/ xfer' = "null" /\ UNCHANGED <<cmd, pending, sent>>
           \/ /\ xfer' = "wait" /\ sent' = sent + 1
              /\ cmd'.id = sent' /\ cmd'.kind = "ICCPOWERON" /\ cmd'.volt = v
              /\ Len(pending') = Len(pending) + 1 /\ pending'[Len(pending) + 1] = cmd'
              /\ \A i \in 1..Len(pending) : pending'[i] = pending[i]
    BY <2>1, InvSend DEF Kinds
  <2>3. UNCHANGED <<reply, cardVolt, inPipe>> /\ xfer = "idle"
    BY <2>1 DEF CcidXferSend
  <2>4. Window'  BY <2>1, <2>2, <2>3, Elements DEF IInv, Window
  <2>5. xfer' = "wait" => \A i \in 1..Len(pending') : pending'[i].id = sent' => pending'[i] = cmd'
    <3>. SUFFICES ASSUME xfer' = "wait", NEW i \in 1..Len(pending'), pending'[i].id = sent'
                  PROVE  pending'[i] = cmd'
      OBVIOUS
    <3>1. sent' = sent + 1 /\ Len(pending') = Len(pending) + 1  BY <2>2
    <3>2. CASE i = Len(pending) + 1  BY <2>2, <3>2
    <3>3. CASE i \in 1..Len(pending)
      <4>1. pending'[i] = pending[i]  BY <2>2, <3>3
      <4>2. pending[i].id <= sent  BY <3>3, PendingIds
      <4>. QED  BY <3>1, <3>3, <4>1, <4>2, Elements
    <3>. QED  BY <3>1, <3>2, <3>3, Elements
  <2>6. xfer' = "wait" => \A i \in 1..Len(inPipe) : inPipe[i].id # sent'
    <3>1. \A i \in 1..Len(inPipe) : inPipe[i].id = 0 \/ inPipe[i].id <= sent
      BY DEF IInv, Numbered, StrangePacket
    <3>. QED  BY <2>2, <3>1, Elements
  <2>7. xfer' = "wait" => cmd'.kind = "ICCPOWERON" /\ cmd'.volt = volt' - 1
    BY <2>1, <2>2
  <2>8. Powered'  BY <2>1, <2>2, <2>3, <2>5, <2>6, <2>7 DEF Powered
  <2>. QED  BY <2>2, <2>4, <2>8 DEF IInv
<1>5. CASE PowerOnReturn
  <2>1. /\ pc = "reset" /\ UNCHANGED tolerated
        /\ \/ xfer = "ok" /\ \E to \in {"apdu", "stopped"} : Return(to)
           \/ Return("reset")
    BY <1>5 DEF PowerOnReturn
  <2>2. ASSUME xfer = "ok", NEW to \in {"apdu", "stopped"}, Return(to) PROVE IInv'
    <3>1. reply.id = sent /\ sent > 0 /\ pending = <<>> /\ cardVolt = volt - 1
      BY <2>1, <2>2 DEF IInv, FreshAnswer, CleanPipe, Numbered, Powered
    <3>2. Window'  BY <2>1, <2>2, <3>1, Elements DEF Return, Window
    <3>3. Powered'  BY <2>2, <3>1, Elements DEF Return, Powered, tokenVars
    <3>. QED  BY <2>2, <3>2, <3>3, InvReturn
  <2>3. CASE Return("reset")
    <3>1. Window' /\ Powered'  BY <2>1, <2>3 DEF Return, IInv, Window, Powered
    <3>. QED  BY <2>3, <3>1, InvReturn
  <2>. QED  BY <2>1, <2>2, <2>3
<1>6. CASE PowerOnExhausted
  <2>1. Return("stopped")  BY <1>6 DEF PowerOnExhausted
  <2>2. Window' /\ Powered'  BY <2>1 DEF Return, IInv, Window, Powered
  <2>. QED  BY <2>1, <2>2, InvReturn
<1>7. CASE ApduXfer
  <2>1. CcidXferSend("XFRBLOCK", 0) /\ pc = "apdu" /\ UNCHANGED <<pc, volt, tolerated>>
    BY <1>7 DEF ApduXfer
  <2>2. /\ Numbered' /\ Ordered' /\ Drained' /\ CarriedOut' /\ FreshAnswer' /\ CleanPipe'
        /\ \/ xfer' = "null" /\ UNCHANGED <<cmd, pending, sent>>
           \/ /\ xfer' = "wait" /\ sent' = sent + 1
              /\ cmd'.id = sent' /\ cmd'.kind = "XFRBLOCK"
              /\ Len(pending') = Len(pending) + 1 /\ pending'[Len(pending) + 1] = cmd'
              /\ \A i \in 1..Len(pending) : pending'[i] = pending[i]
    BY <2>1, InvSend DEF Kinds
  <2>3. UNCHANGED <<reply, cardVolt, inPipe>> /\ xfer = "idle"
    BY <2>1 DEF CcidXferSend
  <2>4. Window'
    <3>1. reply.id > 0 /\ sent - reply.id <= tolerated /\ reply.id <= sent
      BY <2>1, <2>3, Elements DEF IInv, Window
    <3>. QED  BY <2>1, <2>2, <2>3, <3>1, Elements DEF Window
  <2>5. xfer' = "wait" => \A i \in 1..Len(pending') : pending'[i].id = sent' => pending'[i] = cmd'
    <3>1. \A i \in 1..Len(pending) : pending[i].id <= sent  BY PendingIds
    <3>. QED  BY <2>2, <3>1, Elements
  <2>6. \A i \in 1..Len(pending') : pending'[i].kind # "ICCPOWERON"
    <3>1. \A i \in 1..Len(pending) : pending[i].kind # "ICCPOWERON"
      BY <2>1 DEF IInv, Powered
    <3>. QED  BY <2>2, <3>1, Elements
  <2>7. Powered'  BY <2>1, <2>3, <2>5, <2>6 DEF IInv, Powered
  <2>. QED  BY <2>2, <2>4, <2>7 DEF IInv
<1>8. CASE ApduXferReturn
  <2>1. /\ pc = "apdu"
        /\ \/ Return("stopped") /\ UNCHANGED tolerated
           \/ xfer = "ok" /\ Return("apdu") /\ UNCHANGED tolerated
           \/ xfer = "null" /\ tolerated = 0 /\ Return("apdu") /\ tolerated' = 1
    BY <1>8 DEF ApduXferReturn
  <2>2. CASE Return("stopped")
    <3>1. Window' /\ Powered'  BY <2>2 DEF Return, IInv, Window, Powered
    <3>. QED  BY <2>2, <3>1, InvReturn
  <2>3. CASE xfer = "ok" /\ Return("apdu") /\ UNCHANGED tolerated
    <3>1. reply.id = sent /\ sent > 0  BY <2>3 DEF IInv, FreshAnswer, Numbered
    <3>2. Window'  BY <2>3, <3>1, Elements DEF Return, Window
    <3>3. Powered'  BY <2>1, <2>3 DEF Return, IInv, Powered, tokenVars
    <3>. QED  BY <2>3, <3>2, <3>3, InvReturn
  <2>4. CASE xfer = "null" /\ tolerated = 0 /\ Return("apdu") /\ tolerated' = 1
    <3>1. Window'  BY <2>1, <2>4, Elements DEF Return, IInv, Window
    <3>2. Powered'  BY <2>1, <2>4 DEF Return, IInv, Powered, tokenVars
    <3>. QED  BY <2>4, <3>1, <3>2, InvReturn
  <2>. QED  BY <2>1, <2>2, <2>3, <2>4
<1>. QED  BY <1>1, <1>2, <1>3, <1>4, <1>5, <1>6, <1>7, <1>8 DEF Caller

(* The token takes the first command from its queue, or leaves it there. *)
LEMMA Taken ==
    ASSUME TypeOK, IInv, pending # <<>>, pending' \in {pending, Tail(pending)}
    PROVE  /\ \A i \in 1..Len(pending') : \E k \in 1..Len(pending) :
                  pending'[i] = pending[k] /\ (pending' = Tail(pending) => k # 1)
           /\ \A i, j \in 1..Len(pending') : i < j => pending'[i].id < pending'[j].id \/ pending'[i].id = 0
           /\ Head(pending) = pending[1] /\ 1 \in 1..Len(pending)
           /\ \A k \in 1..Len(pending) : k # 1 => pending[1].id < pending[k].id \/ pending[1].id = 0
<1>1. pending \in Seq(Command)  BY DEF TypeOK
<1>2. /\ Head(pending) = pending[1] /\ 1 \in 1..Len(pending)
      /\ \A i \in 1..Len(Tail(pending)) :
             Tail(pending)[i] = pending[i + 1] /\ i + 1 \in 1..Len(pending)
      /\ Len(Tail(pending)) \in Nat /\ Len(pending) \in Nat
  BY <1>1, SeqTail
<1>3. \A i, j \in 1..Len(pending) : i < j => pending[i].id < pending[j].id \/ pending[i].id = 0
  BY DEF IInv, Ordered
<1>4. CASE pending' = pending /\ pending # Tail(pending)
  BY <1>2, <1>3, <1>4
<1>5. CASE pending' = Tail(pending)
  <2>1. ASSUME NEW i \in 1..Len(pending')
        PROVE  \E k \in 1..Len(pending) : pending'[i] = pending[k] /\ k # 1
    <3>1. i + 1 \in 1..Len(pending) /\ i + 1 # 1 /\ pending'[i] = pending[i + 1]
      BY <1>2, <1>5
    <3>. QED  BY <3>1
  <2>2. ASSUME NEW i \in 1..Len(pending'), NEW j \in 1..Len(pending'), i < j
        PROVE  pending'[i].id < pending'[j].id \/ pending'[i].id = 0
    <3>1. /\ i + 1 \in 1..Len(pending) /\ j + 1 \in 1..Len(pending) /\ i + 1 < j + 1
          /\ pending'[i] = pending[i + 1] /\ pending'[j] = pending[j + 1]
      BY <1>2, <1>5, <2>2
    <3>. QED  BY <1>3, <3>1
  <2>3. \A k \in 1..Len(pending) : k # 1 => pending[1].id < pending[k].id \/ pending[1].id = 0
    BY <1>2, <1>3
  <2>. QED  BY <1>2, <2>1, <2>2, <2>3
<1>. QED  BY <1>4, <1>5

(* The token has room for a packet and puts it at the end of the pipe, or  *)
(* puts nothing there.                                                     *)
LEMMA Queued ==
    ASSUME TypeOK, NEW p \in Packet, inPipe' \in {inPipe, Append(inPipe, p)}
    PROVE  /\ Len(inPipe) \in Nat /\ Len(inPipe') \in Nat
           /\ \A i \in 1..Len(inPipe') :
                  \/ i \in 1..Len(inPipe) /\ inPipe'[i] = inPipe[i]
                  \/ i = Len(inPipe) + 1 /\ inPipe'[i] = p /\ inPipe' = Append(inPipe, p)
<1>1. inPipe \in Seq(Packet)  BY DEF TypeOK
<1>2. Len(inPipe) \in Nat  BY <1>1, SeqElements
<1>3. CASE inPipe' = inPipe  BY <1>2, <1>3
<1>4. CASE inPipe' = Append(inPipe, p)
  <2>1. /\ Len(inPipe') = Len(inPipe) + 1 /\ inPipe'[Len(inPipe) + 1] = p
        /\ \A i \in 1..Len(inPipe) : inPipe'[i] = inPipe[i]
    BY <1>1, <1>4, SeqAppend
  <2>2. \A i \in 1..Len(inPipe') : i \in 1..Len(inPipe) \/ i = Len(inPipe) + 1
    BY <1>2, <2>1
  <2>. QED  BY <1>2, <1>4, <2>1, <2>2
<1>. QED  BY <1>3, <1>4

(* What a step of the token amounts to: it may take the first command, may *)
(* carry it out if it takes it, and may queue an answer, which is a request*)
(* for more time only if the command stays, and reports success only if it *)
(* was carried out.                                                        *)
LEMMA TokenStep ==
    ASSUME TypeOK, Token
    PROVE  /\ pending # <<>> /\ TokenUnchanged
           /\ pending' \in {pending, Tail(pending)}
           /\ \/ UNCHANGED <<executed, cardVolt>>
              \/ pending' = Tail(pending) /\ TokenExecutes
           /\ \E p \in Packet :
                  /\ inPipe' \in {inPipe, Append(inPipe, p)}
                  /\ p.id = Head(pending).id /\ p.seq = Head(pending).seq
                  /\ p.ctl = "more" \/ pending' = Tail(pending)
                  /\ Succeeds(p) => TokenExecutes
<1>. DEFINE c == Head(pending)
<1>1. pending # <<>> /\ TokenUnchanged
  BY DEF Token, TokenAsksForTime, TokenAnswers, TokenRefuses, TokenStaysSilent
<1>2. c \in Command  BY <1>1, HeadTailType
<1>3. ASSUME NEW type \in {"SLOTSTAT", "DATA"},
             NEW ctl \in {"ok", "absent", "more", "error"},
             NEW form \in Forms
      PROVE  /\ Answer(c, type, ctl, form) \in Packet
             /\ Answer(c, type, ctl, form).id = c.id
             /\ Answer(c, type, ctl, form).seq = c.seq
             /\ Answer(c, type, ctl, form).ctl = ctl
  BY <1>2, <1>3, AnswerType DEF Answer
<1>4. ExpectedType(c.kind) \in {"SLOTSTAT", "DATA"}  BY ExpectedTypeType
<1>. DEFINE E == ExpectedType(c.kind)
<1>5. CASE TokenAsksForTime
  <2>1. inPipe' = Append(inPipe, Answer(c, E, "more", "whole")) /\ UNCHANGED tokenVars
    BY <1>5 DEF TokenAsksForTime
  <2>. HIDE DEF E, c
  <2>2. Answer(c, E, "more", "whole") \in Packet
        /\ Answer(c, E, "more", "whole").id = c.id
        /\ Answer(c, E, "more", "whole").seq = c.seq
        /\ Answer(c, E, "more", "whole").ctl = "more"
    BY <1>3, <1>4 DEF E, Forms
  <2>. QED  BY <1>1, <2>1, <2>2 DEF tokenVars, Succeeds, c
<1>6. ASSUME NEW form \in Forms, TokenAnswers(form)
      PROVE  /\ pending' = Tail(pending) /\ TokenExecutes
             /\ \E p \in Packet : /\ inPipe' = Append(inPipe, p)
                                  /\ p.id = c.id /\ p.seq = c.seq
  <2>1. TokenExecutes /\ pending' = Tail(pending)  BY <1>6 DEF TokenAnswers, TokenExecutes
  <2>2. PICK ctl \in {"ok", "absent", "more", "error"} :
            inPipe' = Append(inPipe, Answer(c, E, ctl, form))
    BY <1>6 DEF TokenAnswers
  <2>. HIDE DEF E, c
  <2>3. /\ Answer(c, E, ctl, form) \in Packet
        /\ Answer(c, E, ctl, form).id = c.id /\ Answer(c, E, ctl, form).seq = c.seq
    BY <1>3, <1>4 DEF E
  <2>. QED  BY <2>1, <2>2, <2>3
<1>7. ASSUME NEW type \in {"SLOTSTAT", "DATA"}, TokenRefuses(type)
      PROVE  /\ pending' = Tail(pending) /\ UNCHANGED <<executed, cardVolt>>
             /\ \E p \in Packet : /\ inPipe' = Append(inPipe, p)
                                  /\ p.id = c.id /\ p.seq = c.seq /\ ~Succeeds(p)
  <2>1. /\ pending' = Tail(pending) /\ UNCHANGED <<executed, cardVolt>>
        /\ inPipe' = Append(inPipe, Answer(c, type, "error", "whole"))
    BY <1>7 DEF TokenRefuses
  <2>. HIDE DEF c
  <2>2. /\ Answer(c, type, "error", "whole") \in Packet
        /\ Answer(c, type, "error", "whole").id = c.id
        /\ Answer(c, type, "error", "whole").seq = c.seq
        /\ Answer(c, type, "error", "whole").ctl = "error"
    BY <1>3 DEF Forms
  <2>. QED  BY <2>1, <2>2 DEF Succeeds
<1>8. CASE TokenStaysSilent
  <2>1. /\ pending' = Tail(pending) /\ inPipe' = inPipe
        /\ TokenExecutes \/ UNCHANGED <<executed, cardVolt>>
    BY <1>8 DEF TokenStaysSilent, TokenExecutes
  <2>2. \E p \in Packet : p.id = c.id /\ p.seq = c.seq /\ ~Succeeds(p)
    <3>. HIDE DEF c
    <3>. QED  BY <1>3 DEF Succeeds, Forms
  <2>. QED  BY <1>1, <2>1, <2>2
<1>. QED  BY <1>1, <1>5, <1>6, <1>7, <1>8 DEF Token

(* A step of the token.                                                    *)
LEMMA InvToken == ASSUME TypeOK, IInv, Token PROVE IInv'
<1>. DEFINE c == pending[1]
<1>1. /\ pending # <<>> /\ TokenUnchanged
      /\ pending' \in {pending, Tail(pending)}
      /\ \/ UNCHANGED <<executed, cardVolt>>
         \/ pending' = Tail(pending) /\ TokenExecutes
  BY TokenStep
<1>2. /\ \A i \in 1..Len(pending') : \E k \in 1..Len(pending) :
             pending'[i] = pending[k] /\ (pending' = Tail(pending) => k # 1)
      /\ \A i, j \in 1..Len(pending') :
             i < j => pending'[i].id < pending'[j].id \/ pending'[i].id = 0
      /\ Head(pending) = c /\ 1 \in 1..Len(pending)
      /\ \A k \in 1..Len(pending) : k # 1 => c.id < pending[k].id \/ c.id = 0
  BY <1>1, Taken
<1>3. PICK p \in Packet :
          /\ inPipe' \in {inPipe, Append(inPipe, p)}
          /\ p.id = c.id /\ p.seq = c.seq
          /\ p.ctl = "more" \/ pending' = Tail(pending)
          /\ Succeeds(p) => TokenExecutes
  BY <1>2, TokenStep
<1>4. \A i \in 1..Len(inPipe') :
          \/ i \in 1..Len(inPipe) /\ inPipe'[i] = inPipe[i]
          \/ i = Len(inPipe) + 1 /\ inPipe'[i] = p
  BY <1>3, Queued
<1>5. /\ UNCHANGED <<pc, volt, tolerated, xfer, ccid_seq, cmd, reply, sent>>
      /\ sent \in Nat /\ reply.id \in Nat /\ Len(inPipe) \in Nat
  BY <1>1, Elements DEF TokenUnchanged, hostVars
<1>6. /\ c \in Command /\ c.id \in Nat
      /\ StrangeCommand(c) \/ (c.id \in 1..sent /\ c.seq = SeqOf(c.id))
      /\ c.id \in 0..sent
      /\ reply.id # 0 => reply.id < c.id
  BY <1>2, Elements DEF IInv, Numbered, Drained, StrangeCommand
<1>7. xfer # "ok"  BY <1>1 DEF IInv, CleanPipe
<1>8. ASSUME NEW i \in 1..Len(inPipe) PROVE Before(inPipe[i], c.id)
  BY <1>2 DEF IInv, Ordered
<1>9. TokenExecutes => /\ executed' = executed \cup ({c.id} \ {0}) /\ pending' = Tail(pending)
                       /\ cardVolt' = IF c.kind = "ICCPOWERON" THEN c.volt ELSE cardVolt
  BY <1>2 DEF TokenExecutes
<1>. HIDE DEF c
<1>10. Numbered'
  <2>1. \A i \in 1..Len(pending') :
            \/ StrangeCommand(pending'[i])
            \/ pending'[i].id \in 1..sent /\ pending'[i].seq = SeqOf(pending'[i].id)
    BY <1>2 DEF IInv, Numbered
  <2>2. \A i \in 1..Len(inPipe') :
            \/ StrangePacket(inPipe'[i])
            \/ inPipe'[i].id \in 1..sent /\ inPipe'[i].seq = SeqOf(inPipe'[i].id)
    <3>1. StrangePacket(p) \/ (p.id \in 1..sent /\ p.seq = SeqOf(p.id))
      BY <1>3, <1>6 DEF StrangeCommand, StrangePacket
    <3>. QED  BY <1>4, <3>1 DEF IInv, Numbered
  <2>3. /\ ccid_seq % SeqMod = sent % SeqMod
        /\ xfer \in {"wait", "ok"} => sent > 0 /\ cmd.id = sent /\ cmd.seq = SeqOf(sent)
    BY DEF IInv, Numbered
  <2>. QED  BY <1>5, <2>1, <2>2, <2>3 DEF Numbered, StrangePacket, StrangeCommand, SeqOf
<1>11. Ordered'
  <2>1. ASSUME NEW i \in 1..Len(inPipe'), NEW j \in 1..Len(inPipe'), i < j
        PROVE  Before(inPipe'[i], inPipe'[j].id)
    <3>1. i \in 1..Len(inPipe) /\ inPipe'[i] = inPipe[i]
      BY <1>4, <1>5, <2>1
    <3>2. CASE j \in 1..Len(inPipe) /\ inPipe'[j] = inPipe[j]
      BY <2>1, <3>1, <3>2 DEF IInv, Ordered
    <3>3. CASE inPipe'[j] = p  BY <1>3, <1>8, <3>1, <3>3
    <3>. QED  BY <1>4, <3>2, <3>3
  <2>2. ASSUME NEW i \in 1..Len(inPipe'), NEW j \in 1..Len(pending')
        PROVE  Before(inPipe'[i], pending'[j].id)
    <3>1. PICK k \in 1..Len(pending) :
              pending'[j] = pending[k] /\ (pending' = Tail(pending) => k # 1)
      BY <1>2
    <3>2. CASE inPipe'[i] = inPipe[i] /\ i \in 1..Len(inPipe)
      BY <3>1, <3>2 DEF IInv, Ordered
    <3>3. CASE inPipe'[i] = p
      <4>1. k # 1 => c.id < pending[k].id \/ c.id = 0  BY <1>2
      <4>2. k = 1 => p.ctl = "more" /\ pending[k] = c  BY <1>3, <3>1 DEF c
      <4>3. pending[k].id \in Nat  BY Elements
      <4>. QED  BY <1>3, <1>6, <3>1, <3>3, <4>1, <4>2, <4>3 DEF Before
    <3>. QED  BY <1>4, <3>2, <3>3
  <2>. QED  BY <1>2, <2>1, <2>2 DEF Ordered, Before
<1>12. Drained'
  <2>1. reply.id # 0 => \A i \in 1..Len(pending') : reply.id < pending'[i].id
    BY <1>2 DEF IInv, Drained
  <2>2. reply.id # 0 => \A i \in 1..Len(inPipe') : reply.id < inPipe'[i].id
    BY <1>3, <1>4, <1>6 DEF IInv, Drained
  <2>. QED  BY <1>5, <2>1, <2>2 DEF Drained
<1>13. Window'  BY <1>5 DEF IInv, Window
<1>14. Powered'
  <2>1. pc = "reset" /\ xfer = "wait" => cmd.kind = "ICCPOWERON" /\ cmd.volt = volt - 1
    BY DEF IInv, Powered
  <2>2. xfer = "wait" => \A i \in 1..Len(pending') : pending'[i].id = sent => pending'[i] = cmd
    BY <1>2 DEF IInv, Powered
  <2>3. ASSUME pc = "reset", xfer = "wait", NEW i \in 1..Len(inPipe'),
               inPipe'[i].id = sent, Succeeds(inPipe'[i])
        PROVE  cardVolt' = volt - 1
    <3>1. inPipe'[i] = p
      <4>1. SUFFICES ASSUME i \in 1..Len(inPipe), inPipe'[i] = inPipe[i] PROVE FALSE
        BY <1>4
      <4>2. Before(inPipe[i], c.id)  BY <1>8, <4>1
      <4>3. sent > 0  BY <2>3 DEF IInv, Numbered
      <4>. QED  BY <1>5, <1>6, <2>3, <4>1, <4>2, <4>3 DEF Before, Succeeds
    <3>2. TokenExecutes /\ c.id = sent  BY <1>3, <2>3, <3>1
    <3>3. c = cmd  BY <1>2, <2>3, <3>2 DEF IInv, Powered, c
    <3>. QED  BY <1>9, <2>1, <2>3, <3>2, <3>3
  <2>4. pc = "apdu" => /\ cardVolt' = volt - 1
                       /\ \A i \in 1..Len(pending') : pending'[i].kind # "ICCPOWERON"
    <3>1. SUFFICES ASSUME pc = "apdu"
                   PROVE  /\ cardVolt' = volt - 1
                          /\ \A i \in 1..Len(pending') : pending'[i].kind # "ICCPOWERON"
      OBVIOUS
    <3>2. /\ cardVolt = volt - 1
          /\ \A k \in 1..Len(pending) : pending[k].kind # "ICCPOWERON"
      BY <3>1 DEF IInv, Powered
    <3>3. c.kind # "ICCPOWERON"  BY <1>2, <3>2 DEF c
    <3>4. cardVolt' = cardVolt  BY <1>1, <1>9, <3>3
    <3>. QED  BY <1>2, <3>2, <3>4
  <2>. QED  BY <1>5, <1>7, <2>1, <2>2, <2>3, <2>4 DEF Powered, Succeeds
<1>15. CarriedOut'
  <2>1. executed' \subseteq 1..sent
    <3>1. {c.id} \ {0} \subseteq 1..sent  BY <1>5, <1>6
    <3>. QED  BY <1>1, <1>9, <3>1 DEF IInv, CarriedOut
  <2>2. ASSUME NEW m \in executed', NEW i \in 1..Len(pending') PROVE m < pending'[i].id
    <3>1. PICK k \in 1..Len(pending) :
              pending'[i] = pending[k] /\ (pending' = Tail(pending) => k # 1)
      BY <1>2
    <3>2. CASE m \in executed  BY <3>1, <3>2 DEF IInv, CarriedOut
    <3>3. CASE m = c.id /\ c.id # 0 /\ pending' = Tail(pending)  BY <1>2, <3>1, <3>3
    <3>. QED  BY <1>1, <1>9, <3>2, <3>3
  <2>3. ASSUME NEW i \in 1..Len(inPipe'), inPipe'[i].id # 0, Succeeds(inPipe'[i])
        PROVE  inPipe'[i].id \in executed'
    <3>1. executed \subseteq executed'  BY <1>1, <1>9
    <3>2. CASE i \in 1..Len(inPipe) /\ inPipe'[i] = inPipe[i]
      BY <2>3, <3>1, <3>2 DEF IInv, CarriedOut
    <3>3. CASE inPipe'[i] = p  BY <1>3, <1>9, <2>3, <3>3
    <3>. QED  BY <1>4, <3>2, <3>3
  <2>. QED  BY <1>5, <2>1, <2>2, <2>3 DEF CarriedOut, Succeeds
<1>16. FreshAnswer' /\ CleanPipe'  BY <1>5, <1>7 DEF FreshAnswer, CleanPipe
<1>. QED  BY <1>10, <1>11, <1>12, <1>13, <1>14, <1>15, <1>16 DEF IInv

LEMMA InvNext == ASSUME TypeOK, IInv, [Next]_vars PROVE IInv'
<1>1. CASE Host  BY <1>1, InvXfer, InvCaller DEF Host
<1>2. CASE Token  BY <1>2, InvToken
<1>3. CASE UNCHANGED vars
  <2>1. Numbered' /\ Ordered' /\ Drained' /\ CarriedOut' /\ FreshAnswer' /\ CleanPipe'
    BY <1>3, InvStill DEF vars, hostVars
  <2>2. Window' /\ Powered'
    BY <1>3 DEF IInv, Window, Powered, Succeeds, vars, hostVars, tokenVars
  <2>. QED  BY <2>1, <2>2 DEF IInv
<1>. QED  BY <1>1, <1>2, <1>3 DEF Next, Terminated

(* The inductive invariant: commands, answers and sequence numbers stay in *)
(* step however late the token answers and whichever calls gave up.        *)
THEOREM Invariant == Spec => []IInv
BY InvInit, InvNext, TypeCorrect, PTL DEF Spec

(* ccid_xfer() never takes a late answer of a command given up on, or a    *)
(* packet of an earlier user, for the answer of its own command.           *)
THEOREM AnswerIsFresh == Spec => []FreshAnswer
<1>1. IInv => FreshAnswer  BY DEF IInv
<1>. QED  BY <1>1, Invariant, PTL

(* A call of ccid_xfer() that succeeds leaves nothing under way.           *)
THEOREM PipeIsClean == Spec => []CleanPipe
<1>1. IInv => CleanPipe  BY DEF IInv
<1>. QED  BY <1>1, Invariant, PTL

(* During the APDU exchanges the card runs at the voltage whose ATR        *)
(* ccid_reset_card() accepted.                                             *)
THEOREM PowerIsKnown == Spec => []PoweredAsBelieved
<1>1. IInv => PoweredAsBelieved  BY DEF IInv, Powered, PoweredAsBelieved
<1>. QED  BY <1>1, Invariant, PTL

-------------------------------------------------------------------------------
(* Refinement: ccid_xfer() implements CcidExchange *)

(* Sending issues a command, or is refused.                                *)
LEMMA SendImplements ==
    ASSUME NEW kind, NEW v, CcidXferSend(kind, v)
    PROVE  Exchange!Issue \/ Exchange!Refuse
BY DEF CcidXferSend, Exchange!Issue, Exchange!Refuse

(* A turn of the loop responds, gives up or goes unnoticed.                *)
LEMMA XferImplements ==
    ASSUME TypeOK, IInv, XferStep PROVE [Exchange!Next]_(Exchange!vars)
<1>1. UNCHANGED <<sent, executed>> /\ xfer = "wait"
  BY DEF XferStep, CcidXferReceive, CcidXferReceiveFails, CcidXferTooManyRetries,
         hostVars, tokenVars
<1>2. CASE xfer' \in {"null", "crashed"}
  BY <1>1, <1>2 DEF Exchange!Next, Exchange!GiveUp
<1>3. CASE xfer' = "wait"  BY <1>1, <1>3 DEF Exchange!vars
<1>4. CASE xfer' = "ok"
  <2>1. CcidXferReceive
    BY <1>4 DEF XferStep, CcidXferReceiveFails, CcidXferTooManyRetries
  <2>2. inPipe # <<>> /\ inPipe \in Seq(Packet)  BY <2>1 DEF CcidXferReceive, TypeOK
  <2>3. Judge(inPipe[1]) = "ok"  BY <1>4, <2>1, <2>2, SeqTail DEF CcidXferReceive
  <2>4. Succeeds(inPipe[1]) /\ inPipe[1].id = sent /\ 1 \in 1..Len(inPipe)
    BY <1>1, <2>2, <2>3, JudgeOk, Received, SeqTail
  <2>5. sent # 0 /\ sent \in executed
    BY <1>1, <2>4, Elements DEF IInv, Numbered, CarriedOut
  <2>. QED  BY <1>1, <1>4, <2>5 DEF Exchange!Next, Exchange!Respond
<1>5. xfer' \in {"wait", "ok", "null", "crashed"}
  BY <1>1 DEF XferStep, CcidXferReceive, CcidXferReceiveFails, CcidXferTooManyRetries, Judge
<1>. QED  BY <1>2, <1>3, <1>4, <1>5

(* The callers issue commands and take results.                            *)
LEMMA CallerImplements ==
    ASSUME Caller PROVE [Exchange!Next]_(Exchange!vars)
<1>1. ASSUME NEW to, Return(to), xfer \in {"ok", "null"} PROVE Exchange!Next
  BY <1>1 DEF Return, tokenVars, Exchange!Next, Exchange!Return
<1>2. CASE CcidReaderCreate
  BY <1>2 DEF CcidReaderCreate, tokenVars, Exchange!vars
<1>3. CASE SelectSlot
  BY <1>3, SendImplements DEF SelectSlot, Exchange!Next
<1>4. CASE SelectSlotReturn  BY <1>1, <1>4 DEF SelectSlotReturn
<1>5. ASSUME NEW v \in 0..3, PowerOn(v) PROVE Exchange!Next
  BY <1>5, SendImplements DEF PowerOn, Exchange!Next
<1>6. CASE PowerOnReturn  BY <1>1, <1>6 DEF PowerOnReturn
<1>7. CASE PowerOnExhausted
  BY <1>7 DEF PowerOnExhausted, Return, tokenVars, Exchange!vars
<1>8. CASE ApduXfer
  BY <1>8, SendImplements DEF ApduXfer, Exchange!Next
<1>9. CASE ApduXferReturn  BY <1>1, <1>9 DEF ApduXferReturn
<1>. QED  BY <1>2, <1>3, <1>4, <1>5, <1>6, <1>7, <1>8, <1>9 DEF Caller

(* The token carries out a command, or what it does goes unnoticed.        *)
LEMMA TokenImplements ==
    ASSUME TypeOK, IInv, Token PROVE [Exchange!Next]_(Exchange!vars)
<1>1. /\ pending # <<>> /\ UNCHANGED <<sent, xfer>>
      /\ \/ UNCHANGED <<executed, cardVolt>>
         \/ TokenExecutes
  BY TokenStep DEF TokenUnchanged, hostVars
<1>2. CASE UNCHANGED executed  BY <1>1, <1>2 DEF Exchange!vars
<1>3. CASE TokenExecutes
  <2>1. pending \in Seq(Command)  BY DEF TypeOK
  <2>2. Head(pending) = pending[1] /\ 1 \in 1..Len(pending)  BY <1>1, <2>1, SeqTail
  <2>. DEFINE n == pending[1].id
  <2>3. n = 0 \/ n \in 1..sent
    BY <2>2 DEF IInv, Numbered, StrangeCommand
  <2>4. executed' = executed \cup ({n} \ {0})  BY <1>3, <2>2 DEF TokenExecutes
  <2>5. \A m \in executed : m < n  BY <2>2 DEF IInv, CarriedOut
  <2>. HIDE DEF n
  <2>6. CASE n = 0  BY <1>1, <2>4, <2>6 DEF Exchange!vars
  <2>7. CASE n \in 1..sent
    <3>1. executed' = executed \cup {n}  BY <2>4, <2>7, Elements
    <3>2. Exchange!Execute(n)  BY <1>1, <2>5, <2>7, <3>1 DEF Exchange!Execute
    <3>. QED  BY <2>7, <3>2 DEF Exchange!Next
  <2>. QED  BY <2>3, <2>6, <2>7
<1>. QED  BY <1>1, <1>2, <1>3

(* ccid_xfer() keeps the promise its callers rely on: commands carried out *)
(* at most once and in order, and a response only for one that was.        *)
THEOREM Refinement == Spec => Implements
<1>1. Init => Exchange!Init  BY DEF Init, Exchange!Init
<1>2. ASSUME TypeOK, IInv, [Next]_vars PROVE [Exchange!Next]_(Exchange!vars)
  <2>1. CASE Host  BY <1>2, <2>1, XferImplements, CallerImplements DEF Host
  <2>2. CASE Token  BY <1>2, <2>2, TokenImplements
  <2>3. CASE UNCHANGED vars
    BY <2>3 DEF vars, hostVars, tokenVars, Exchange!vars
  <2>. QED  BY <1>2, <2>1, <2>2, <2>3 DEF Next, Terminated
<1>. QED  BY <1>1, <1>2, TypeCorrect, Invariant, PTL DEF Spec, Implements, Exchange!Spec
-------------------------------------------------------------------------------
(* The run uses itself up *)

(* What is left is counted in natural numbers.                             *)
LEMMA LeftType == TypeOK => CallsLeft \in Nat /\ TurnsLeft \in Nat
<1>. SUFFICES ASSUME TypeOK PROVE CallsLeft \in Nat /\ TurnsLeft \in Nat  OBVIOUS
<1>1. MaxApdus \in Nat /\ apdus \in 0..MaxApdus /\ volt \in 0..4 /\ retries \in Nat
  BY BoundsAssumption, RetriesAssumption DEF TypeOK
<1>2. CallsLeft \in Nat
  <2>1. pc \in {"create", "select", "reset", "apdu", "stopped"}  BY DEF TypeOK
  <2>2. CASE pc = "create"  BY <1>1, <2>2 DEF CallsLeft
  <2>3. CASE pc = "select"  BY <1>1, <2>3 DEF CallsLeft
  <2>4. CASE pc = "reset"  BY <1>1, <2>4 DEF CallsLeft
  <2>5. CASE pc = "apdu"  BY <1>1, <2>5 DEF CallsLeft
  <2>6. CASE pc = "stopped"  BY <2>6 DEF CallsLeft
  <2>. QED  BY <2>1, <2>2, <2>3, <2>4, <2>5, <2>6
<1>3. TurnsLeft \in Nat  BY <1>1 DEF TurnsLeft
<1>. QED  BY <1>2, <1>3

(* A turn of the loop uses up a retry, or ends the call.                   *)
LEMMA XferUses ==
    ASSUME TypeOK, XferStep
    PROVE  CallsLeft' = CallsLeft /\ TurnsLeft' < TurnsLeft
<1>1. /\ xfer = "wait" /\ UNCHANGED <<pc, volt, apdus>>
      /\ xfer' \in {"wait", "ok", "null", "crashed"}
      /\ xfer' = "wait" => retries' = retries - 1
  <2>1. CASE CcidXferReceive
    BY <2>1 DEF CcidXferReceive, Judge, RetriesLeft
  <2>2. CASE CcidXferReceiveFails
    BY <2>2 DEF CcidXferReceiveFails
  <2>3. CASE CcidXferTooManyRetries
    BY <2>3 DEF CcidXferTooManyRetries, hostVars
  <2>. QED  BY <2>1, <2>2, <2>3 DEF XferStep
<1>2. retries \in Nat  BY RetriesAssumption DEF TypeOK
<1>3. CallsLeft' = CallsLeft  BY <1>1 DEF CallsLeft
<1>4. TurnsLeft = retries + 2  BY <1>1 DEF TurnsLeft
<1>5. TurnsLeft' < retries + 2  BY <1>1, <1>2 DEF TurnsLeft
<1>. QED  BY <1>3, <1>4, <1>5

(* A caller begins one of the calls it may still make, returns from one,   *)
(* or goes on where there are fewer to make.                               *)
LEMMA CallerUses ==
    ASSUME TypeOK, Caller
    PROVE  \/ CallsLeft' < CallsLeft
           \/ CallsLeft' = CallsLeft /\ TurnsLeft' < TurnsLeft
<1>. DEFINE m == MaxApdus
<1>0. m \in Nat /\ apdus \in 0..m /\ volt \in 0..4  BY BoundsAssumption DEF TypeOK
<1>. HIDE DEF m
<1>9. ASSUME NEW to, Return(to), xfer \in {"ok", "null"}
      PROVE  /\ pc' = to /\ xfer' = "idle" /\ volt' = volt /\ apdus' = apdus
             /\ TurnsLeft' = 0 /\ TurnsLeft = 1
  BY <1>9 DEF Return, TurnsLeft
<1>1. CASE CcidReaderCreate
  <2>1. pc = "create" /\ pc' \in {"select", "stopped"}  BY <1>1 DEF CcidReaderCreate
  <2>2. CallsLeft = m + 8  BY <2>1 DEF CallsLeft, m
  <2>3. CallsLeft' \in {m + 7, m + 6, 0}  BY <2>1 DEF CallsLeft, m
  <2>. QED  BY <1>0, <2>2, <2>3
<1>2. CASE SelectSlot
  <2>1. pc = "select" /\ pc' = "select" /\ xfer = "idle" /\ xfer' # "idle"
    BY <1>2 DEF SelectSlot, CcidXferSend
  <2>2. CallsLeft = m + 7 /\ CallsLeft' = m + 6  BY <2>1 DEF CallsLeft, m
  <2>. QED  BY <1>0, <2>2
<1>3. CASE SelectSlotReturn
  <2>1. pc = "select" /\ xfer \in {"ok", "null"}  BY <1>3 DEF SelectSlotReturn
  <2>2. PICK to \in {"reset", "stopped"} : Return(to)  BY <1>3 DEF SelectSlotReturn
  <2>3. pc' = to /\ volt' = volt  BY <1>9, <2>1, <2>2
  <2>4. CallsLeft = m + 6  BY <2>1 DEF CallsLeft, m
  <2>5. CallsLeft' \in {m + 5 - volt, 0}  BY <2>2, <2>3 DEF CallsLeft, m
  <2>. QED  BY <1>0, <2>4, <2>5
<1>4. ASSUME NEW v \in 0..3, PowerOn(v) PROVE CallsLeft' < CallsLeft
  <2>1. pc = "reset" /\ pc' = "reset" /\ volt' = v + 1 /\ v >= volt
    BY <1>4 DEF PowerOn, Untried
  <2>2. CallsLeft = m + 5 - volt /\ CallsLeft' = m + 5 - volt'  BY <2>1 DEF CallsLeft, m
  <2>. QED  BY <1>0, <2>1, <2>2
<1>5. CASE PowerOnReturn
  <2>1. pc = "reset" /\ xfer \in {"ok", "null"}  BY <1>5 DEF PowerOnReturn
  <2>2. PICK to \in {"apdu", "stopped", "reset"} : Return(to)  BY <1>5 DEF PowerOnReturn
  <2>3. /\ pc' = to /\ volt' = volt /\ apdus' = apdus
        /\ TurnsLeft' = 0 /\ TurnsLeft = 1
    BY <1>9, <2>1, <2>2
  <2>4. CallsLeft = m + 5 - volt  BY <2>1 DEF CallsLeft, m
  <2>5. CASE to = "reset"
    <3>1. CallsLeft' = m + 5 - volt  BY <2>3, <2>5 DEF CallsLeft, m
    <3>. QED  BY <2>3, <2>4, <3>1
  <2>6. CASE to # "reset"
    <3>1. CallsLeft' \in {m - apdus, 0}  BY <2>2, <2>3, <2>6 DEF CallsLeft, m
    <3>. QED  BY <1>0, <2>4, <3>1
  <2>. QED  BY <2>5, <2>6
<1>6. CASE PowerOnExhausted
  <2>1. pc = "reset" /\ pc' = "stopped"  BY <1>6 DEF PowerOnExhausted, Return
  <2>2. CallsLeft = m + 5 - volt /\ CallsLeft' = 0  BY <2>1 DEF CallsLeft, m
  <2>. QED  BY <1>0, <2>2
<1>7. CASE ApduXfer
  <2>1. pc = "apdu" /\ pc' = "apdu" /\ apdus' = apdus + 1  BY <1>7 DEF ApduXfer
  <2>2. CallsLeft = m - apdus /\ CallsLeft' = m - apdus'  BY <2>1 DEF CallsLeft, m
  <2>. QED  BY <1>0, <2>1, <2>2
<1>8. CASE ApduXferReturn
  <2>1. pc = "apdu" /\ xfer \in {"ok", "null"}  BY <1>8 DEF ApduXferReturn
  <2>2. PICK to \in {"apdu", "stopped"} : Return(to)  BY <1>8 DEF ApduXferReturn
  <2>3. pc' = to /\ apdus' = apdus /\ TurnsLeft' = 0 /\ TurnsLeft = 1
    BY <1>9, <2>1, <2>2
  <2>4. CallsLeft = m - apdus  BY <2>1 DEF CallsLeft, m
  <2>5. CallsLeft' = IF to = "apdu" THEN m - apdus ELSE 0  BY <2>2, <2>3 DEF CallsLeft, m
  <2>. QED  BY <1>0, <2>3, <2>4, <2>5
<1>. QED  BY <1>1, <1>2, <1>3, <1>4, <1>5, <1>6, <1>7, <1>8 DEF Caller

(* Nothing else changes what is left.                                      *)
LEMMA TokenGivesNothingBack ==
    ASSUME [Next]_vars, ~Host
    PROVE  UNCHANGED <<CallsLeft, TurnsLeft>>
<1>1. UNCHANGED <<pc, xfer, volt, apdus, retries>>
  <2>1. CASE Token
    BY <2>1 DEF Token, TokenAsksForTime, TokenAnswers, TokenRefuses, TokenStaysSilent,
                TokenUnchanged, hostVars
  <2>2. CASE Terminated \/ UNCHANGED vars  BY <2>2 DEF Terminated, vars, hostVars
  <2>. QED  BY <2>1, <2>2 DEF Next
<1>. QED  BY <1>1 DEF CallsLeft, TurnsLeft

(* Between its beginning and its end a run makes no step that does not use *)
(* up a retry, a call or a voltage: ccid_xfer() and its callers come to an *)
(* end for every retry budget and every number of APDUs, whatever comes    *)
(* out of the pipe, as long as the host goes on at all.                    *)
THEOREM RunsDown == Spec => EveryStepCounts
<1>. DEFINE Left == CallsLeft \in Nat /\ TurnsLeft \in Nat
<1>1. ASSUME TypeOK, Left', [Next]_vars
      PROVE  IF Host THEN UsesUp ELSE UNCHANGED <<CallsLeft, TurnsLeft>>
  <2>1. CASE Host
    <3>1. \/ CallsLeft' < CallsLeft
          \/ CallsLeft' = CallsLeft /\ TurnsLeft' < TurnsLeft
      BY <1>1, <2>1, XferUses, CallerUses DEF Host
    <3>. QED  BY <1>1, <2>1, <3>1 DEF UsesUp
  <2>2. CASE ~Host  BY <1>1, <2>2, TokenGivesNothingBack
  <2>. QED  BY <2>1, <2>2
<1>2. TypeOK => Left  BY LeftType
<1>. HIDE DEF Left
<1>. QED  BY <1>1, <1>2, TypeCorrect, PTL DEF Spec, EveryStepCounts

====

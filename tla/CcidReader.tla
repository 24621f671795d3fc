------------------------------ MODULE CcidReader ------------------------------
(***************************************************************************)
(* reader.c: one run of the program against one CCID token.  The host side *)
(* is ccid_reader_create(), ccid_reader_select_slot(),                     *)
(* ccid_reader_identify_card() with its power-on attempts, and the APDU    *)
(* exchanges that follow, every one of them a call of ccid_xfer().  The    *)
(* token and the two bulk pipes are external: the token works through the  *)
(* commands it took in order, may ask for more time, may answer late (when *)
(* the host has given up), cut short or not at all, and whoever used it    *)
(* before may have left commands in it and packets in its IN pipe.         *)
(***************************************************************************)
EXTENDS Integers, Sequences

CONSTANTS
    SeqMod,      \* ccid_command.seq is a uint8_t: 256 in the code
    MaxRetries,  \* `unsigned int retries = 6' in ccid_xfer()
    Descriptors, \* CCID descriptors the token may have
    Leftovers,   \* what may be under way when the program starts
    MaxPipe,     \* bound: packets in the IN pipe
    MaxApdus     \* bound: APDU exchanges in one run

Slot == 0            \* doit() uses slot 0 throughout

Features == {"AUTO_ATR", "AUTO_ACTIVATE", "AUTO_VOLTAGE", "AUTO_PARAM",
             "AUTO_PPS", "APDU"}

Descriptor == [protocols : SUBSET {"T0", "T1"}, features : SUBSET Features,
               voltages : SUBSET (1..3)]

Kinds == {"GETSLOTSTAT", "ICCPOWERON", "XFRBLOCK"}

(* The number of a command, and of the command a packet answers, is there  *)
(* for the properties only; 0 stands for those of an earlier user.         *)
Command == [id : Nat, kind : Kinds, volt : 0..3, seq : 0..(SeqMod - 1)]

Forms == {"whole", "cut", "clipped", "runt"}

(* `ctl' is the status byte ctl[0]: success (card present or absent), the  *)
(* request for more time, an error.  `form' says how much arrived: "whole";*)
(* "cut", the status byte and what is before it (8 bytes or more), but not *)
(* all of the rest, which is two bytes of header and the payload;          *)
(* "clipped", the length field (5 to 7 bytes), but not the status byte;    *)
(* "runt", not even the length field.                                      *)
Packet == [id : Nat, type : {"SLOTSTAT", "DATA"}, slot : 0..1,
           seq : 0..(SeqMod - 1), ctl : {"ok", "absent", "more", "error"},
           form : Forms]

(* An earlier user of the token was not interrupted in a command that      *)
(* carries sequence number 0: no command or packet it left does, but for   *)
(* packets of another slot.                                                *)
StrangeCommand(c) == c.id = 0 /\ c.seq # 0
StrangePacket(p) == p.id = 0 /\ ~(p.slot = Slot /\ p.seq = 0)

(* Four commands in a row can be under way, see Window. *)
ASSUME SeqModAssumption == SeqMod \in Nat /\ SeqMod > 3
ASSUME RetriesAssumption == MaxRetries \in Nat \ {0}
ASSUME DescriptorsAssumption == Descriptors \subseteq Descriptor
ASSUME LeftoversAssumption ==
    \A l \in Leftovers :
        /\ l \in [pending : Seq(Command), inPipe : Seq(Packet)]
        /\ \A i \in 1..Len(l.pending) : StrangeCommand(l.pending[i])
        /\ \A i \in 1..Len(l.inPipe) : StrangePacket(l.inPipe[i])
ASSUME BoundsAssumption == MaxPipe \in Nat /\ MaxApdus \in Nat \ {0}

VARIABLES
    pc,          \* the function of reader.c at work: "create", "select",
                 \* "reset", "apdu", or "stopped"
    ccid,        \* the descriptor of the token
    reader,      \* [auto_voltage, supported_voltages]
    volt,        \* ccid_reset_card(): voltages below this one have been tried
    apdus,       \* how many APDU exchanges were begun
    tolerated,   \* how many failed APDU exchanges the caller went past
    xfer,        \* ccid_xfer(): "idle", "wait", "ok", "null", "crashed"
    ccid_seq,    \* reader->ccid_seq
    cmd,         \* the command ccid_xfer() works on
    retries,     \* its local of the same name
    reply,       \* the last response ccid_xfer() returned
    sent,        \* how many of our commands the token has taken
    pending,     \* commands taken and not yet carried out, in order
    inPipe,      \* packets the token has queued for the host
    executed,    \* numbers of our commands the token has carried out
    cardVolt     \* the voltage class the card is powered at, -1 if not

hostVars == <<pc, reader, volt, apdus, tolerated, ccid_seq, cmd, retries, reply, sent>>
tokenVars == <<pending, executed, cardVolt>>
vars == <<hostVars, tokenVars, ccid, xfer, inPipe>>

TypeOK ==
    /\ pc \in {"create", "select", "reset", "apdu", "stopped"}
    /\ ccid \in Descriptor
    /\ reader \in [auto_voltage : BOOLEAN, supported_voltages : SUBSET (1..3)]
    /\ volt \in 0..4
    /\ apdus \in 0..MaxApdus
    /\ tolerated \in 0..1
    /\ xfer \in {"idle", "wait", "ok", "null", "crashed"}
    /\ ccid_seq \in 0..SeqMod
    /\ cmd \in Command
    /\ retries \in 0..MaxRetries
    /\ reply \in Packet
    /\ sent \in Nat
    /\ pending \in Seq(Command)
    /\ inPipe \in Seq(Packet)
    /\ executed \subseteq Nat \ {0}
    /\ cardVolt \in -1..3

NoCommand == [id |-> 1, kind |-> "GETSLOTSTAT", volt |-> 0, seq |-> 0]
NoReply == [id |-> 0, type |-> "SLOTSTAT", slot |-> Slot, seq |-> 0,
            ctl |-> "error", form |-> "whole"]

Init ==
    /\ pc = "create"
    /\ ccid \in Descriptors
    /\ reader = [auto_voltage |-> FALSE, supported_voltages |-> {}]
    /\ volt = 0 /\ apdus = 0 /\ tolerated = 0
    /\ xfer = "idle" /\ ccid_seq = 0 /\ cmd = NoCommand /\ retries = 0
    /\ reply = NoReply /\ sent = 0
    /\ \E l \in Leftovers : pending = l.pending /\ inPipe = l.inPipe
    /\ executed = {} /\ cardVolt = -1

-------------------------------------------------------------------------------
(* ccid_reader_create() and ccid_reader_set_features() *)

SpeaksKnownProtocol == ccid.protocols # {}

(* APDU level exchange, automatic ATR, and 0x40, the only flag that sets   *)
(* both no_pts and no_setparam; 0x80 sets no_pts alone.                    *)
FeaturesSuffice == {"APDU", "AUTO_ATR", "AUTO_PARAM"} \subseteq ccid.features

AutoVoltage == ccid.features \cap {"AUTO_ACTIVATE", "AUTO_VOLTAGE"} # {}

CcidReaderCreate ==
    /\ pc = "create"
    /\ \/ /\ SpeaksKnownProtocol /\ FeaturesSuffice
          /\ reader' = [auto_voltage |-> AutoVoltage,
                        supported_voltages |-> ccid.voltages]
          /\ pc' = "select"
       \/ /\ ~(SpeaksKnownProtocol /\ FeaturesSuffice)
          /\ pc' = "stopped"
          /\ UNCHANGED reader
    /\ UNCHANGED <<volt, apdus, tolerated, ccid_seq, cmd, retries, reply, sent,
                   tokenVars, ccid, xfer, inPipe>>

-------------------------------------------------------------------------------
(* ccid_xfer() *)

ExpectedType(kind) == IF kind = "GETSLOTSTAT" THEN "SLOTSTAT" ELSE "DATA"

BuildCommand_NoTruncation(kind, v) ==
    [id |-> sent + 1, kind |-> kind, volt |-> v, seq |-> ccid_seq]

BuildCommand_NoControlBytes(kind, v) ==
    [id |-> sent + 1, kind |-> kind, volt |-> 0, seq |-> ccid_seq % SeqMod]

(* ccid_build_command(): `uint8_t seq = reader->ccid_seq', which may have  *)
(* reached SeqMod.                                                         *)
BuildCommand(kind, v) ==
    [id |-> sent + 1, kind |-> kind, volt |-> v, seq |-> ccid_seq % SeqMod]

NextSeq_NotAdvanced(c) == c.seq

(* `reader->ccid_seq = cmd->seq + 1', computed as an int. *)
NextSeq(c) == c.seq + 1

(* The first half of ccid_xfer().  The sequence number advances only once  *)
(* uusb_send() has succeeded; a packet the transport refuses never reaches *)
(* the token.                                                              *)
CcidXferSend(kind, v) ==
    /\ xfer = "idle"
    /\ \/ LET c == BuildCommand(kind, v)
          IN  /\ cmd' = c
              /\ pending' = Append(pending, c)
              /\ ccid_seq' = NextSeq(c)
              /\ sent' = sent + 1
              /\ retries' = MaxRetries
              /\ xfer' = "wait"
       \/ xfer' = "null" /\ UNCHANGED <<cmd, pending, ccid_seq, sent, retries>>
    /\ UNCHANGED <<reader, reply, executed, cardVolt, ccid, inPipe>>

(* ccid_response_create() returns NULL for this packet.  USBDEVFS_BULK     *)
(* does not store in bulk.len how much it received, so uusb_recv() takes   *)
(* its own 0xAA filler for data, and of all that may be missing only a     *)
(* length made of filler, which is too long for the buffer, is noticed.    *)
Unparsable(p) == p.form = "runt"

(* In a clipped header the filler stands for the slot, which then is not   *)
(* ours, or for ctl[0] at least, and there it asks for more time (the type *)
(* of an answer that is cut short is the expected one): either way it is   *)
(* one retry less.                                                         *)
Mine(p) == p.form # "clipped" /\ p.slot = Slot /\ p.seq = cmd.seq

Succeeds_TimeExtension(p) == p.ctl # "error"

Succeeds_Errors(p) == p.ctl # "more"

Succeeds(p) == p.ctl \in {"ok", "absent"}

(* What the loop of ccid_xfer() makes of the packet it has read.  A NULL   *)
(* response falls through to ccid_response_free(resp), which dereferences  *)
(* it; an error or a response of another type ends the call; a packet of   *)
(* another slot or number, or a request for more time, is one retry less.  *)
Judge(p) ==
    CASE Unparsable(p) -> "crashed"
      [] ~Unparsable(p) /\ ~Mine(p) -> "wait"
      [] ~Unparsable(p) /\ Mine(p) /\ p.type # ExpectedType(cmd.kind) -> "null"
      [] ~Unparsable(p) /\ Mine(p) /\ p.type = ExpectedType(cmd.kind) ->
           IF Succeeds(p) THEN "ok" ELSE IF p.ctl = "more" THEN "wait" ELSE "null"

RetriesLeft_NotCounted == retries

RetriesLeft == retries - 1

CcidXferReceive ==
    /\ xfer = "wait" /\ retries > 0 /\ inPipe # <<>>
    /\ inPipe' = Tail(inPipe)
    /\ retries' = RetriesLeft
    /\ xfer' = Judge(Head(inPipe))
    /\ reply' = IF xfer' = "ok" THEN Head(inPipe) ELSE reply
    /\ UNCHANGED <<pc, reader, volt, apdus, tolerated, ccid_seq, cmd, sent,
                   tokenVars, ccid>>

(* uusb_recv() returns NULL: nothing came within ten seconds, or the       *)
(* transfer failed (and the packet is lost with it or not).                *)
CcidXferReceiveFails ==
    /\ xfer = "wait" /\ retries > 0
    /\ \/ UNCHANGED inPipe
       \/ inPipe # <<>> /\ inPipe' = Tail(inPipe)
    /\ retries' = RetriesLeft
    /\ xfer' = "null"
    /\ UNCHANGED <<pc, reader, volt, apdus, tolerated, ccid_seq, cmd, reply, sent,
                   tokenVars, ccid>>

CcidXferTooManyRetries ==
    /\ xfer = "wait" /\ retries = 0
    /\ xfer' = "null"
    /\ UNCHANGED <<hostVars, tokenVars, ccid, inPipe>>

-------------------------------------------------------------------------------
(* The callers of ccid_xfer() *)

(* The caller frees what it has to and goes on in function `to'. *)
Return(to) ==
    /\ pc' = to
    /\ xfer' = "idle"
    /\ UNCHANGED <<reader, volt, apdus, ccid_seq, cmd, retries, reply, sent,
                   tokenVars, ccid, inPipe>>

SelectSlot ==
    /\ pc = "select"
    /\ CcidXferSend("GETSLOTSTAT", 0)
    /\ UNCHANGED <<pc, volt, apdus, tolerated>>

SelectSlotReturn ==
    /\ pc = "select" /\ xfer \in {"ok", "null"}
    /\ IF xfer = "ok" /\ reply.ctl # "absent" THEN Return("reset") ELSE Return("stopped")
    /\ UNCHANGED tolerated

(* ccid_reset_card(): voltage 0 stands for automatic selection and comes   *)
(* first, then the supported voltages in ascending order.                  *)
Untried ==
    {v \in 0..3 : /\ v >= volt
                  /\ IF v = 0 THEN reader.auto_voltage
                              ELSE v \in reader.supported_voltages}

PowerOn(v) ==
    /\ pc = "reset"
    /\ v \in Untried /\ \A w \in Untried : v <= w
    /\ CcidXferSend("ICCPOWERON", v)
    /\ volt' = v + 1
    /\ UNCHANGED <<pc, apdus, tolerated>>

(* On success ifd_create_card() looks the ATR up among the registered      *)
(* drivers, and may not find it; on failure the next voltage is tried.     *)
PowerOnReturn ==
    /\ pc = "reset" /\ xfer \in {"ok", "null"}
    /\ \/ xfer = "ok" /\ \E to \in {"apdu", "stopped"} : Return(to)
       \/ xfer = "null" /\ Return("reset")
    /\ UNCHANGED tolerated

PowerOnExhausted ==
    /\ pc = "reset" /\ xfer = "idle" /\ Untried = {}
    /\ Return("stopped")
    /\ UNCHANGED tolerated

(* ccid_reader_apdu_xfer() *)
ApduXfer ==
    /\ pc = "apdu" /\ apdus < MaxApdus
    /\ CcidXferSend("XFRBLOCK", 0)
    /\ apdus' = apdus + 1
    /\ UNCHANGED <<pc, volt, tolerated>>

(* The caller goes on after a failure only where yubikey_connect() tries   *)
(* the empty VERIFY: once in a run.                                        *)
ApduXferReturn ==
    /\ pc = "apdu" /\ xfer \in {"ok", "null"}
    /\ \/ Return("stopped") /\ UNCHANGED tolerated
       \/ xfer = "ok" /\ apdus < MaxApdus /\ Return("apdu") /\ UNCHANGED tolerated
       \/ /\ xfer = "null" /\ apdus < MaxApdus /\ tolerated = 0
          /\ Return("apdu") /\ tolerated' = 1

-------------------------------------------------------------------------------
(* The token (external) *)

Answer(c, type, ctl, form) ==
    [id |-> c.id, type |-> type, slot |-> Slot, seq |-> c.seq, ctl |-> ctl, form |-> form]

TokenUnchanged == UNCHANGED <<hostVars, ccid, xfer>>

TokenAsksForTime ==
    /\ pending # <<>> /\ Len(inPipe) < MaxPipe
    /\ LET c == Head(pending)
       IN  inPipe' = Append(inPipe, Answer(c, ExpectedType(c.kind), "more", "whole"))
    /\ TokenUnchanged /\ UNCHANGED tokenVars

TokenExecutes ==
    LET c == Head(pending)
    IN  /\ pending' = Tail(pending)
        /\ executed' = executed \cup ({c.id} \ {0})
        /\ cardVolt' = IF c.kind = "ICCPOWERON" THEN c.volt ELSE cardVolt

(* The command is carried out and answered, whole or cut short. *)
TokenAnswers(form) ==
    /\ pending # <<>> /\ Len(inPipe) < MaxPipe
    /\ TokenExecutes
    /\ LET c == Head(pending)
       IN  \E ctl \in {"ok"} \cup (IF c.kind = "GETSLOTSTAT" THEN {"absent"} ELSE {}) :
               inPipe' = Append(inPipe, Answer(c, ExpectedType(c.kind), ctl, form))
    /\ TokenUnchanged

(* The command is turned down; some tokens do that with a slot status. *)
TokenRefuses(type) ==
    /\ pending # <<>> /\ Len(inPipe) < MaxPipe
    /\ LET c == Head(pending)
       IN  /\ type \in {"SLOTSTAT", ExpectedType(c.kind)}
           /\ inPipe' = Append(inPipe, Answer(c, type, "error", "whole"))
    /\ pending' = Tail(pending)
    /\ TokenUnchanged /\ UNCHANGED <<executed, cardVolt>>

(* The command, or its answer, is lost in the token. *)
TokenStaysSilent ==
    /\ pending # <<>>
    /\ \/ TokenExecutes
       \/ pending' = Tail(pending) /\ UNCHANGED <<executed, cardVolt>>
    /\ TokenUnchanged /\ UNCHANGED inPipe

-------------------------------------------------------------------------------
XferStep == CcidXferReceive \/ CcidXferReceiveFails \/ CcidXferTooManyRetries

Caller ==
    \/ CcidReaderCreate
    \/ SelectSlot \/ SelectSlotReturn
    \/ \E v \in 0..3 : PowerOn(v)
    \/ PowerOnReturn \/ PowerOnExhausted
    \/ ApduXfer \/ ApduXferReturn

Host == XferStep \/ Caller

Token ==
    \/ TokenAsksForTime
    \/ \E form \in Forms : TokenAnswers(form)
    \/ \E type \in {"SLOTSTAT", "DATA"} : TokenRefuses(type)
    \/ TokenStaysSilent

(* The process has exited, or died. *)
Finished == pc = "stopped" \/ xfer = "crashed"

Terminated == Finished /\ UNCHANGED vars

Next == Host \/ Token \/ Terminated

Spec == Init /\ [][Next]_vars

-------------------------------------------------------------------------------
(* Properties *)

(* A response that ccid_xfer() returns answers the very command the call   *)
(* sent: no late answer of a command given up on (a voltage that timed     *)
(* out, the tolerated VERIFY), and no packet of an earlier user, is ever   *)
(* taken for it, although the sequence number is all there is to tell.     *)
FreshAnswer == xfer = "ok" => reply.id = sent

(* When ccid_xfer() returns a response, nothing is left under way: no      *)
(* command waits in the token and no packet waits in the pipe that a later *)
(* call might stumble over.                                                *)
CleanPipe == xfer = "ok" => pending = <<>> /\ inPipe = <<>>

(* While APDUs are exchanged the card runs at the voltage of the attempt   *)
(* whose ATR the host accepted, even if attempts given up on were carried  *)
(* out late: ccid_reset_card() never powers the card off in between.       *)
PoweredAsBelieved == pc = "apdu" => cardVolt = volt - 1

(* ccid_xfer() keeps the promise of CcidExchange: commands are carried out *)
(* at most once, in order, and a response means the command was.           *)
Exchange == INSTANCE CcidExchange WITH issued <- sent

Implements == Exchange!Spec

(* The comment `truncated packet' of ccid_xfer(), and the one that calls   *)
(* what follows `wrong packet, or timeout extension': an unparsable packet *)
(* is freed and costs one retry, the call goes on.                         *)
TruncatedPacketIsSkipped == xfer # "crashed"

(* ccid_dump_response() distinguishes `data truncated', and                *)
(* ccid_response_create() has its `short ccid response packet': a response *)
(* that ccid_xfer() returns holds its header and all the payload the       *)
(* header announces.                                                       *)
DeliveredWhole == xfer = "ok" => reply.form = "whole"

(* How many calls of ccid_xfer() the run may still begin, each return from *)
(* a function that makes them counted as one more                          *)
CallsLeft ==
    CASE pc = "create" -> MaxApdus + 8
      [] pc = "select" -> MaxApdus + (IF xfer = "idle" THEN 7 ELSE 6)
      [] pc = "reset" -> MaxApdus + 5 - volt
      [] pc = "apdu" -> MaxApdus - apdus
      [] OTHER -> 0

(* How many turns the call under way may still take, its return included   *)
TurnsLeft ==
    CASE xfer = "wait" -> retries + 2
      [] xfer \in {"ok", "null"} -> 1
      [] OTHER -> 0

UsesUp ==
    /\ CallsLeft' \in Nat /\ TurnsLeft' \in Nat
    /\ \/ CallsLeft' < CallsLeft
       \/ CallsLeft' = CallsLeft /\ TurnsLeft' < TurnsLeft

(* Whatever it reads, the host comes nearer to its end with every step: a  *)
(* packet of another command, a request for more time and a failed call    *)
(* all use up something that is not renewed, no voltage is tried twice,    *)
(* and nothing the token does gives any of it back.                        *)
EveryStepCounts == [][IF Host THEN UsesUp ELSE UNCHANGED <<CallsLeft, TurnsLeft>>]_vars

-------------------------------------------------------------------------------
(* The inductive invariant *)

(* The sequence number of our n-th command. *)
SeqOf(n) == (n - 1) % SeqMod

(* Packet p may precede whatever concerns command n: only requests for     *)
(* more time, and packets of an earlier user, repeat a number.             *)
Before(p, n) == p.id < n \/ (p.id = n /\ (p.ctl = "more" \/ p.id = 0))

Numbered ==
    /\ ccid_seq % SeqMod = sent % SeqMod
    /\ xfer \in {"wait", "ok"} => sent > 0 /\ cmd.id = sent /\ cmd.seq = SeqOf(sent)
    /\ \A i \in 1..Len(pending) :
           \/ StrangeCommand(pending[i])
           \/ pending[i].id \in 1..sent /\ pending[i].seq = SeqOf(pending[i].id)
    /\ \A i \in 1..Len(inPipe) :
           \/ StrangePacket(inPipe[i])
           \/ inPipe[i].id \in 1..sent /\ inPipe[i].seq = SeqOf(inPipe[i].id)

Ordered ==
    /\ \A i, j \in 1..Len(pending) :
           i < j => pending[i].id < pending[j].id \/ pending[i].id = 0
    /\ \A i, j \in 1..Len(inPipe) : i < j => Before(inPipe[i], inPipe[j].id)
    /\ \A i \in 1..Len(inPipe), j \in 1..Len(pending) :
           Before(inPipe[i], pending[j].id)

(* Everything older than the last response is gone. *)
Drained ==
    reply.id # 0 => /\ \A i \in 1..Len(pending) : reply.id < pending[i].id
                    /\ \A i \in 1..Len(inPipe) : reply.id < inPipe[i].id

(* How many commands can be under way, by the function at work. *)
Window ==
    /\ reply.id <= sent
    /\ pc = "create" => xfer = "idle" /\ sent = 0 /\ reply.id = 0
    /\ pc = "select" => /\ xfer = "ok" \/ reply.id = 0
                        /\ sent <= 1 /\ (xfer = "idle" => sent = 0)
    /\ pc = "reset" => reply.id > 0 /\ sent - reply.id <= volt
    /\ pc = "apdu" => /\ reply.id > 0
                      /\ sent - reply.id <= tolerated + (IF xfer = "idle" THEN 0 ELSE 1)
    /\ pc = "stopped" => xfer = "idle"

Powered ==
    /\ pc = "reset" /\ xfer \in {"wait", "ok"} => cmd.kind = "ICCPOWERON" /\ cmd.volt = volt - 1
    /\ xfer = "wait" => \A i \in 1..Len(pending) : pending[i].id = sent => pending[i] = cmd
    /\ pc = "reset" /\ xfer = "wait" =>
           \A i \in 1..Len(inPipe) :
               inPipe[i].id = sent /\ Succeeds(inPipe[i]) => cardVolt = volt - 1
    /\ pc = "reset" /\ xfer = "ok" => cardVolt = volt - 1
    /\ pc = "apdu" => /\ cardVolt = volt - 1
                      /\ \A i \in 1..Len(pending) : pending[i].kind # "ICCPOWERON"

CarriedOut ==
    /\ executed \subseteq 1..sent
    /\ \A m \in executed, i \in 1..Len(pending) : m < pending[i].id
    /\ \A i \in 1..Len(inPipe) :
           inPipe[i].id # 0 /\ Succeeds(inPipe[i]) => inPipe[i].id \in executed

(* Commands and answers stay in order from one end of the exchange to the  *)
(* other, and so few are under way that a sequence number tells them       *)
(* apart: this is why ccid_xfer() may go by the number alone.              *)
IInv ==
    /\ Numbered /\ Ordered /\ Drained /\ Window /\ Powered /\ CarriedOut
    /\ FreshAnswer /\ CleanPipe

===============================================================================

------------------------------ MODULE PivSession ------------------------------
(***************************************************************************)
(* main.c doit(), scard.c and yubikey.c: one or more runs of the program   *)
(* against one card, from the selection of the PIV application to the      *)
(* cleartext.  APDUs travel by CcidExchange, which is what CcidReader is   *)
(* shown to implement: a call may be answered, may fail although the card  *)
(* has carried the APDU out or will yet do so, or may kill the process.    *)
(* The card is external: its PIN counter survives the runs, the rest of    *)
(* its state is cleared when a run powers it on.                           *)
(*                                                                         *)
(* Data are spans of a longer string: [from, len] stands for the bytes     *)
(* from, ..., from + len - 1 of the encoded arguments or of the response.  *)
(***************************************************************************)
EXTENDS Integers, Sequences, FiniteSets, PivSizes

CONSTANTS
    CommandLines, \* what the program may be called with, see CommandLine
    Capacity,     \* room for response data in the packet uusb_recv() allocates
    Pieces,       \* sizes the card may choose for the first piece of a response
    MaxTries,     \* PIN attempts of a fresh card
    MaxRuns       \* bound: runs of the program

(* `pin' is what follows -p; `key' the key-slot option, "9e" by default;   *)
(* `size' the bytes read as ciphertext; `ours' whether they were encrypted *)
(* for that key.                                                           *)
CommandLine == [pin : {"none", "right", "wrong", "long"}, key : {"9a", "9e", "bad"},
                size : Nat, ours : BOOLEAN]

ASSUME CommandLinesAssumption == CommandLines \subseteq CommandLine
ASSUME SizesAssumption ==
    /\ Capacity \in Nat
    /\ Pieces \subseteq 1..256
    /\ MaxTries \in 1..15
    /\ MaxRuns \in Nat

VARIABLES
    run,          \* how many runs were begun
    args,         \* the command line of this run
    pc,           \* "off", "select", "probe", "verify", "decipher", or the
                  \* outcome: "ok", "failed", "died"
    call,         \* the ifd_card_xfer() under way: its state, rapdu and how
                  \* many bytes that holds, *sw_ret, and the length the next
                  \* GET RESPONSE must return
    data_rpos,    \* yubikey_decipher(): how much of `data' was sent
    retries_left, \* of doit(); Uninitialized until yubikey_verify() sets it
    reported,     \* the number in "Wrong PIN, %u attempts left", if printed
    cleartext,    \* the response yubikey_decipher() took its result from
    issued, xfer, executed,    \* of CcidExchange
    apdus,        \* the APDUs issued in this run
    answer,       \* the card's answer to the last APDU it carried out
    rx,           \* the answer as the host received it
    card,         \* the card: PIN tries left, PIN verified, fragments of a
                  \* chained command, response data still to be fetched
    spent,        \* PIN attempts the card has counted in this run
    served        \* what the card ran the private key operation on, and when

hostVars == <<run, args, pc, call, data_rpos, retries_left, reported, cleartext>>
exchangeVars == <<issued, xfer, executed, apdus, answer, rx>>
cardVars == <<card, spent, served>>
vars == <<hostVars, exchangeVars, cardVars>>

Exchange == INSTANCE CcidExchange

Uninitialized == -1
NotReported == -2

Filler == -1       \* `from' of the 0xAA bytes uusb_recv() starts from
Spans == [from : Nat \cup {Filler}, len : Nat]
Span(from, len) == [from |-> from, len |-> len]
NoData == Span(0, 0)

(* Status words, high byte and low byte *)
SUCCESS == <<144, 0>>
SECURITY_STATUS == <<105, 130>>
AUTH_BLOCKED == <<105, 131>>
INCORRECT_PARAM == <<106, 128>>
FILE_NOT_FOUND == <<106, 130>>
TriesSW(n) == <<99, 192 + n>>
MoreSW(n) == <<97, IF n >= 256 THEN 0 ELSE n>>

Idle == [state |-> "idle", rapdu |-> <<>>, size |-> 0, sw |-> <<0, 0>>, want |-> 0]
FreshCard(tries, endless) ==
    [tries |-> tries, endless |-> endless, pinOk |-> FALSE, chain |-> <<>>, next |-> 0, left |-> 0]
Silence == [data |-> NoData, sw |-> <<0, 0>>]

Finished == pc \in {"off", "ok", "failed", "died"}

EndOf(span) == span.from + span.len

(* The spans are the bytes 0 .. n - 1, each once and in order. *)
Covers(spans, n) ==
    IF spans = <<>> THEN n = 0
    ELSE /\ spans[1].from = 0
         /\ \A i \in 1..(Len(spans) - 1) : spans[i + 1].from = EndOf(spans[i])
         /\ EndOf(spans[Len(spans)]) = n

-------------------------------------------------------------------------------
(* yubikey_decipher(): the sizes it knows, and the most one APDU carries *)

RsaSizes == {128, 256}

FragMax == 255

-------------------------------------------------------------------------------
(* Runs: main() up to ifd_card_connect() *)

Init ==
    /\ run = 0 /\ args \in CommandLines /\ pc = "off" /\ call = Idle
    /\ data_rpos = 0 /\ retries_left = Uninitialized /\ reported = NotReported /\ cleartext = <<>>
    /\ Exchange!Init
    /\ apdus = <<>> /\ answer = Silence /\ rx = Silence
    /\ \E tries \in 0..MaxTries, endless \in BOOLEAN : card = FreshCard(tries, endless)
    /\ spent = 0 /\ served = {}

(* A run powers the card on, after whatever was under way in the last one, *)
(* and gives up on a card option it cannot parse.                          *)
StartRun(a) ==
    /\ Finished /\ run < MaxRuns
    /\ run' = run + 1
    /\ args' = a
    /\ pc' = IF a.key = "bad" THEN "failed" ELSE "select"
    /\ call' = Idle /\ data_rpos' = 0
    /\ retries_left' = Uninitialized /\ reported' = NotReported /\ cleartext' = <<>>
    /\ issued' = 0 /\ xfer' = "idle" /\ executed' = {}
    /\ apdus' = <<>> /\ answer' = Silence /\ rx' = Silence
    /\ card' = FreshCard(card.tries, card.endless)
    /\ spent' = 0 /\ served' = {}

-------------------------------------------------------------------------------
(* ifd_card_apdu(), ifd_card_xfer() *)

Apdu(ins, pin, chained, span) ==
    [ins |-> ins, pin |-> pin, chained |-> chained, span |-> span]

(* The APDU is sent; or the transport turns it down, and the call fails.   *)
Transmit(apdu) ==
    \/ Exchange!Issue /\ apdus' = Append(apdus, apdu)
    \/ Exchange!Refuse /\ UNCHANGED apdus

IfdCardXfer(apdu) ==
    /\ call.state = "idle"
    /\ Transmit(apdu)
    /\ call' = [Idle EXCEPT !.state = "first"]
    /\ UNCHANGED <<run, args, pc, data_rpos, retries_left, reported, cleartext, answer, rx, cardVars>>

GetResponse ==
    /\ call.state = "more" /\ xfer = "idle"
    /\ Transmit(Apdu("GET_RESPONSE", "none", FALSE, Span(0, call.want)))
    /\ call' = [call EXCEPT !.state = "next"]
    /\ UNCHANGED <<run, args, pc, data_rpos, retries_left, reported, cleartext, answer, rx, cardVars>>

(* How an answer may reach ifd_card_apdu().  A truncated packet, which     *)
(* goes unnoticed, has 0xAA for the bytes that did not arrive: both bytes  *)
(* of the status word and some data, or its low byte alone.                *)
Arrivals(a) ==
    {a, [data |-> IF a.data.len = 0 THEN NoData ELSE Span(Filler, a.data.len),
         sw |-> <<170, 170>>],
        [a EXCEPT !.sw = <<@[1], 170>>]}

CallAnswered ==
    /\ Exchange!Respond
    /\ rx' \in Arrivals(answer)
    /\ UNCHANGED <<hostVars, cardVars, apdus, answer>>

CallFails ==
    /\ Exchange!GiveUp
    /\ pc' = IF xfer' = "crashed" THEN "died" ELSE pc
    /\ UNCHANGED <<run, args, call, data_rpos, retries_left, reported, cleartext, cardVars, apdus, answer, rx>>

Fits(size) == size <= Capacity

Failure_Retried ==
    IF call.state = "next" THEN [call EXCEPT !.state = "more"] ELSE [Idle EXCEPT !.state = "null"]

Failure == [Idle EXCEPT !.state = "null"]

Expected(a) == call.state = "first" \/ a.data.len = call.want

(* ifd_card_apdu() strips the status word; while it says 61xx the loop of  *)
(* ifd_card_xfer() fetches xx (or 256) bytes more, exactly as many, and    *)
(* appends them as long as there is room.                                  *)
IfdCardXferReceive ==
    LET spans == IF rx.data.len = 0 THEN call.rapdu ELSE Append(call.rapdu, rx.data)
        size == call.size + rx.data.len
    IN  /\ call.state \in {"first", "next"}
        /\ Exchange!Return
        /\ call' =
             IF xfer = "ok" /\ Expected(rx) /\ (call.state = "first" \/ Fits(size))
             THEN [state |-> IF rx.sw[1] = 97 THEN "more" ELSE "done",
                   rapdu |-> spans,
                   size |-> size,
                   sw |-> rx.sw,
                   want |-> IF rx.sw[2] = 0 THEN 256 ELSE rx.sw[2]]
             ELSE Failure
        /\ UNCHANGED <<run, args, pc, data_rpos, retries_left, reported, cleartext, apdus, answer, rx, cardVars>>

(* The caller has looked at the result and freed the buffers. *)
CallReturns ==
    /\ call.state \in {"done", "null"}
    /\ call' = Idle
    /\ UNCHANGED <<run, args, exchangeVars, cardVars>>

CallOk == call.state = "done" /\ call.sw = SUCCESS

-------------------------------------------------------------------------------
(* yubikey_connect(): select the application, then try an empty PIN *)

SelectApplication == pc = "select" /\ IfdCardXfer(Apdu("SELECT", "none", FALSE, NoData))

SelectApplicationReturn ==
    /\ pc = "select" /\ CallReturns
    /\ pc' = IF CallOk THEN "probe" ELSE "failed"
    /\ UNCHANGED <<data_rpos, retries_left, reported, cleartext>>

EmptyVerify_AsPin == Apdu("VERIFY", "wrong", FALSE, NoData)

EmptyVerify == Apdu("VERIFY", "none", FALSE, NoData)

ProbePin == pc = "probe" /\ IfdCardXfer(EmptyVerify)

(* Whatever comes of it, the run goes on: only pin_required, which nobody  *)
(* reads, depends on it.                                                   *)
ProbePinReturn ==
    /\ pc = "probe" /\ CallReturns
    /\ pc' = IF args.pin = "none" THEN "decipher" ELSE "verify"
    /\ UNCHANGED <<data_rpos, retries_left, reported, cleartext>>

-------------------------------------------------------------------------------
(* yubikey_verify() with the PIN of the command line, and doit() *)

VerifyPin ==
    /\ pc = "verify" /\ args.pin # "long"
    /\ IfdCardXfer(Apdu("VERIFY", args.pin, FALSE, NoData))

NLeft_NotMasked(sw) == sw[2]

NLeft(sw) == sw[2] % 16

VerifyAccepts_Anything == call.state = "done"

VerifyAccepts == CallOk

(* The run ends with "Wrong PIN, %u attempts left". *)
WrongPin(n) ==
    /\ retries_left' = n
    /\ reported' = n
    /\ pc' = "failed"
    /\ UNCHANGED <<data_rpos, cleartext>>

VerifyPinReturn ==
    /\ pc = "verify" /\ CallReturns
    /\ \/ VerifyAccepts /\ pc' = "decipher"
          /\ UNCHANGED <<data_rpos, retries_left, reported, cleartext>>
       \/ /\ ~VerifyAccepts
          /\ WrongPin(IF call.state = "done" /\ call.sw[1] = 99 THEN NLeft(call.sw)
                                                                ELSE retries_left)

(* "PIN too long": nothing is sent. *)
VerifyPinTooLong ==
    /\ pc = "verify" /\ args.pin = "long"
    /\ WrongPin(retries_left)
    /\ UNCHANGED <<run, args, call, exchangeVars, cardVars>>

-------------------------------------------------------------------------------
(* yubikey_decipher() *)

DataLeft == EncodedSize(args.size) - data_rpos

Fragment_NotSkipped == Span(0, IF DataLeft > FragMax THEN FragMax ELSE DataLeft)

FragmentLen == IF DataLeft > FragMax THEN FragMax ELSE DataLeft

(* buffer_read_pointer(data), after a buffer_skip() for each fragment taken *)
Fragment == Span(data_rpos, FragmentLen)

DecipherWrongSize ==
    /\ pc = "decipher" /\ args.size \notin RsaSizes
    /\ pc' = "failed"
    /\ UNCHANGED <<run, args, call, data_rpos, retries_left, reported, cleartext, exchangeVars, cardVars>>

DecipherFragment ==
    /\ pc = "decipher" /\ args.size \in RsaSizes
    /\ IfdCardXfer(Apdu("AUTHENTICATE", "none", DataLeft > FragMax, Fragment))

FragmentTaken_Sent == TRUE

FragmentTaken == CallOk

(* yubikey_decode_decipher_resp() checks the two tags and skips the        *)
(* lengths; pkcs1_type2_padding_remove() rejects what was not meant for    *)
(* this key.                                                               *)
Decoded == call.rapdu # <<>> /\ call.rapdu[1].from = 0 /\ args.ours

DecipherReturn ==
    /\ pc = "decipher" /\ CallReturns
    /\ \/ /\ ~FragmentTaken
          /\ pc' = "failed"
          /\ UNCHANGED <<data_rpos, cleartext>>
       \/ /\ FragmentTaken
          /\ data_rpos' = data_rpos + FragmentLen
          /\ \/ data_rpos' < EncodedSize(args.size) /\ UNCHANGED <<pc, cleartext>>
             \/ /\ data_rpos' = EncodedSize(args.size)
                /\ pc' = IF Decoded THEN "ok" ELSE "failed"
                /\ cleartext' = IF Decoded THEN call.rapdu ELSE <<>>
    /\ UNCHANGED <<retries_left, reported>>

-------------------------------------------------------------------------------
(* The card (external) *)

Says(data, sw) == answer' = [data |-> data, sw |-> sw]

CardSelects ==
    /\ \E sw \in {SUCCESS, FILE_NOT_FOUND} : Says(NoData, sw)
    /\ card' = FreshCard(card.tries, card.endless)
    /\ UNCHANGED <<spent, served>>

(* The empty VERIFY asks and costs nothing. *)
CardVerifies(pin) ==
    /\ card' = [card EXCEPT
                 !.chain = <<>>, !.left = 0,
                 !.tries = CASE pin = "none" \/ @ = 0 -> @
                             [] pin = "right" /\ @ > 0 -> MaxTries
                             [] pin = "wrong" /\ @ > 0 -> @ - 1,
                 !.pinOk = @ \/ (pin = "right" /\ card.tries > 0)]
    /\ spent' = IF pin # "none" /\ card.tries > 0 THEN spent + 1 ELSE spent
    /\ Says(NoData, IF card'.pinOk THEN SUCCESS
                    ELSE IF card.tries = 0 THEN AUTH_BLOCKED ELSE TriesSW(card'.tries))
    /\ UNCHANGED served

(* The next piece of a response of which `left' bytes are left.  A broken  *)
(* card always has more.                                                   *)
Gives(left, piece) ==
    LET rest == IF card.endless THEN left ELSE left - piece
        from == IF card.left = 0 THEN 0 ELSE card.next
    IN  /\ Says(Span(from, piece), IF rest = 0 THEN SUCCESS ELSE MoreSW(rest))
        /\ card' = [card EXCEPT !.chain = <<>>, !.left = rest, !.next = from + piece]

(* A chained fragment is kept; the last one starts the private key         *)
(* operation, if the arguments make sense and the key's policy is met.     *)
CardAuthenticates(apdu) ==
    LET whole == Append(card.chain, apdu.span)
        allowed == args.key = "9e" \/ card.pinOk
    IN  \/ /\ apdu.chained
           /\ card' = [card EXCEPT !.chain = whole, !.left = 0]
           /\ Says(NoData, SUCCESS)
           /\ UNCHANGED <<spent, served>>
        \/ /\ ~apdu.chained /\ ~allowed
           /\ card' = [card EXCEPT !.chain = <<>>, !.left = 0]
           /\ Says(NoData, SECURITY_STATUS)
           /\ UNCHANGED <<spent, served>>
        \/ /\ ~apdu.chained /\ allowed
           /\ served' = served \cup {[spans |-> whole, pinOk |-> card.pinOk]}
           /\ UNCHANGED spent
           /\ \E piece \in Pieces :
                 /\ piece <= ResponseSize(args.size)
                 /\ Gives(ResponseSize(args.size), piece)

CardGetsResponse(le) ==
    /\ UNCHANGED <<spent, served>>
    /\ \/ /\ card.left = 0
          /\ Says(NoData, INCORRECT_PARAM)
          /\ UNCHANGED card
       \/ /\ card.left > 0
          /\ Gives(card.left, IF le < card.left THEN le ELSE card.left)

Card == \E n \in 1..issued :
    /\ Exchange!Execute(n)
    /\ \/ apdus[n].ins = "SELECT" /\ CardSelects
       \/ apdus[n].ins = "VERIFY" /\ CardVerifies(apdus[n].pin)
       \/ apdus[n].ins = "AUTHENTICATE" /\ CardAuthenticates(apdus[n])
       \/ apdus[n].ins = "GET_RESPONSE" /\ CardGetsResponse(apdus[n].span.len)
    /\ UNCHANGED <<hostVars, apdus, rx>>

-------------------------------------------------------------------------------
Host ==
    \/ GetResponse \/ CallAnswered \/ CallFails \/ IfdCardXferReceive
    \/ SelectApplication \/ SelectApplicationReturn
    \/ ProbePin \/ ProbePinReturn
    \/ VerifyPin \/ VerifyPinReturn \/ VerifyPinTooLong
    \/ DecipherWrongSize \/ DecipherFragment \/ DecipherReturn

(* The user has stopped calling the program. *)
Done == Finished /\ run = MaxRuns /\ UNCHANGED vars

Next == (\E a \in CommandLines : StartRun(a)) \/ Host \/ Card \/ Done

Spec == Init /\ [][Next]_vars

(* The host is one thread, and every call of ccid_xfer() returns or dies   *)
(* (CcidRestart!Terminates), whatever the card does.                       *)
FairSpec == Spec /\ WF_vars(Host)

-------------------------------------------------------------------------------
(* Properties *)

Apdus == [ins : {"SELECT", "VERIFY", "AUTHENTICATE", "GET_RESPONSE"},
          pin : {"none", "right", "wrong"}, chained : BOOLEAN, span : Spans]

StatusWord == (0..255) \X (0..255)

Calls == [state : {"idle", "first", "more", "next", "done", "null"},
          rapdu : Seq(Spans), size : Nat, sw : StatusWord, want : 0..256]

Answer == [data : Spans, sw : StatusWord]

TypeOK ==
    /\ run \in 0..MaxRuns
    /\ args \in CommandLine
    /\ pc \in {"off", "select", "probe", "verify", "decipher", "ok", "failed", "died"}
    /\ call \in Calls
    /\ data_rpos \in Nat
    /\ retries_left \in {Uninitialized} \cup 0..15
    /\ reported \in {NotReported, Uninitialized} \cup 0..15
    /\ cleartext \in Seq(Spans)
    /\ Exchange!TypeOK
    /\ apdus \in Seq(Apdus) /\ Len(apdus) = issued
    /\ answer \in Answer /\ rx \in Answer
    /\ card \in [tries : 0..MaxTries, endless : BOOLEAN, pinOk : BOOLEAN,
                 chain : Seq(Spans), next : Nat, left : Nat]
    /\ spent \in Nat
    /\ served \subseteq [spans : Seq(Spans), pinOk : BOOLEAN]

(* yubikey_decipher() cuts the arguments into chained APDUs: the card never *)
(* runs the private key operation on anything but all of them, in order,   *)
(* no matter which calls failed before.                                    *)
ServesWholeArguments ==
    \A s \in served : Covers(s.spans, EncodedSize(args.size))

(* What the program writes comes from a complete response: ifd_card_xfer() *)
(* put the pieces together without a gap, and an answer truncated on its   *)
(* way was turned down for its status word, although uusb_recv() did not   *)
(* notice it.                                                              *)
CleartextIsWhole ==
    pc = "ok" => Covers(cleartext, ResponseSize(args.size))

(* One run of the program costs at most one PIN attempt, and none without  *)
(* -p: yubikey_connect() asks for the PIN state without spending one, and  *)
(* no PIN is ever sent twice.                                              *)
PinBudget == spent <= IF args.pin \in {"right", "wrong"} THEN 1 ELSE 0

(* With -p, the private key is used only after the card has accepted the   *)
(* PIN: doit() does not go on from a rejected, unanswered or late VERIFY.  *)
PinBeforeKey == args.pin # "none" => \A s \in served : s.pinOk

(* What doit() promises main(): at most one attempt and one use of the     *)
(* key, in this order, a cleartext after them only, all of it also when    *)
(* the card carries an APDU out after the program has given up.            *)
Run == INSTANCE Decryption WITH
           outcome <- IF Finished THEN pc ELSE "running",
           pin <- args.pin # "none",
           good <- args.ours,
           attempts <- spent,
           used <- served # {}

ImplementsDecryption == Run!Spec

(* Each run ends: the 61xx loop of ifd_card_xfer() stops because its       *)
(* buffer is finite, even if the card always has more.                     *)
EveryRunEnds == (pc = "select") ~> Finished

(* The calls of ifd_card_xfer() the run may still make: SELECT, the two    *)
(* VERIFYs, and a fragment at least with each byte of the arguments.       *)
CallsLeft ==
    CASE pc = "select" -> EncodedSize(args.size) + 3
      [] pc = "probe" -> EncodedSize(args.size) + 2
      [] pc = "verify" -> EncodedSize(args.size) + 1
      [] pc = "decipher" -> DataLeft
      [] OTHER -> 0

(* The rounds of its 61xx loop that `room' bytes are enough for, each with *)
(* three steps: to send, to receive and to append, the last of which may   *)
(* find the buffer full                                                    *)
StepsFor(room) == 3 * (room + 1)

RoomLeft == IF Fits(call.size) THEN Capacity - call.size ELSE 0

(* The steps that the call under way may still take                        *)
TurnsLeft ==
    LET receives == IF xfer = "wait" THEN 1 ELSE 0
    IN  CASE call.state = "idle" -> StepsFor(Capacity) + 3
          [] call.state = "first" -> StepsFor(Capacity) + 1 + receives
          [] call.state = "more" -> StepsFor(RoomLeft)
          [] call.state = "next" -> StepsFor(RoomLeft) - 2 + receives
          [] OTHER -> 0

UsesUp ==
    /\ CallsLeft' \in Nat /\ TurnsLeft' \in Nat
    /\ \/ CallsLeft' < CallsLeft
       \/ CallsLeft' = CallsLeft /\ TurnsLeft' < TurnsLeft

(* Whatever the card answers, each step of a run brings it nearer to its   *)
(* end: a round of the 61xx loop fills the buffer by a byte at least or is *)
(* the last, a fragment is sent once, no call is repeated that failed, and *)
(* nothing the card does gives any of it back.                             *)
EveryStepCounts ==
    [][run' = run => IF Host THEN UsesUp ELSE UNCHANGED <<CallsLeft, TurnsLeft>>]_vars

(* The message of doit() `Wrong PIN, %u attempts left': the number printed *)
(* is the number of attempts the card has left.                            *)
ReportsAttemptsLeft == reported # NotReported => reported = card.tries

===============================================================================

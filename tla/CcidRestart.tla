----------------------------- MODULE CcidRestart ------------------------------
(***************************************************************************)
(* One run of the program after another against the same token.  A run may *)
(* be killed, or die, at any point; the next opens the device again and    *)
(* starts with a fresh ccid_reader_t, whose ccid_seq is 0, while the token *)
(* still works on the commands of the run before and its IN pipe still     *)
(* holds their answers: nothing in usb.c or reader.c resets it.  CcidReader*)
(* assumes of these leftovers that none carries sequence number 0; here    *)
(* they are what earlier runs really leave.                                *)
(***************************************************************************)
EXTENDS CcidReader

CONSTANT MaxRuns     \* bound: runs of the program

ASSUME MaxRunsAssumption == MaxRuns \in Nat

VARIABLES
    runs,       \* runs begun so far
    settled,    \* the last command of this run the token answered for good
    suspect     \* did an earlier run end while a command that carries
                \* sequence number 0 was unanswered?

restartVars == <<vars, runs, settled, suspect>>

RestartInit ==
    /\ Init
    /\ runs = 1 /\ settled = 0 /\ suspect = FALSE

(* The answer to the command under way, as far as ccid_xfer() can tell. *)
AnswerArrives ==
    /\ CcidXferReceive
    /\ LET p == Head(inPipe)
       IN  ~Unparsable(p) /\ Mine(p) /\ p.ctl # "more"

Settle ==
    /\ settled' = IF AnswerArrives THEN sent ELSE settled
    /\ UNCHANGED <<runs, suspect>>

WithinRun == Next /\ Settle

(* What was under way is of an earlier user from now on. *)
Forgotten(s) == [i \in DOMAIN s |-> [s[i] EXCEPT !.id = 0]]

(* The process is gone, wherever it was; uusb_open() and                   *)
(* ccid_reader_create() are called by the next one.                        *)
Restart ==
    /\ runs < MaxRuns
    /\ runs' = runs + 1
    /\ suspect' = (suspect \/ \E n \in (settled + 1)..sent : SeqOf(n) = 0)
    /\ settled' = 0
    /\ pc' = "create" /\ xfer' = "idle"
    /\ reader' = [auto_voltage |-> FALSE, supported_voltages |-> {}]
    /\ volt' = 0 /\ apdus' = 0 /\ tolerated' = 0
    /\ ccid_seq' = 0 /\ cmd' = NoCommand /\ retries' = 0 /\ reply' = NoReply
    /\ sent' = 0 /\ executed' = {}
    /\ pending' = Forgotten(pending) /\ inPipe' = Forgotten(inPipe)
    /\ UNCHANGED <<ccid, cardVolt>>

RestartNext == WithinRun \/ Restart

RestartSpec == RestartInit /\ [][RestartNext]_restartVars

(* The host is one thread that never blocks for good: the receive ioctl    *)
(* carries a timeout of ten seconds.  Nothing is assumed of the token, and *)
(* nobody needs to call the program again.                                 *)
FairSpec == RestartSpec /\ WF_restartVars(Host /\ Settle)

-------------------------------------------------------------------------------
(* Properties *)

(* However many runs were killed before, and wherever: as long as none of  *)
(* them left a command with sequence number 0 unanswered (the first one,   *)
(* and those after each wrap-around), no answer still on its way to them   *)
(* is taken for an answer of this run, and none is left for later calls to *)
(* stumble over.  The new run reads its way through them while it waits    *)
(* for its own first answer.                                               *)
FreshAfterRestart == ~suspect => FreshAnswer /\ CleanPipe

(* Every run ends, however the token behaves and whatever earlier runs     *)
(* left in the pipe: each call gives up after MaxRetries packets, even if  *)
(* the token asks for more time forever.                                   *)
Terminates == (pc = "create") ~> Finished

===============================================================================

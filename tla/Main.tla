--------------------------------- MODULE Main ---------------------------------
(***************************************************************************)
(* main.c main() and bufparser.c: one run of the program from its command  *)
(* line to its exit status, with what it does to files.  doit() is the     *)
(* abstract run of Decryption, which PivSession implements; opening the    *)
(* device is a result (UsbOpen is about it).                               *)
(*                                                                         *)
(* External are the files: the input may change while it is read, calls    *)
(* may fail, a write may be short, and the process may be killed.          *)
(***************************************************************************)
EXTENDS Integers, Sequences

CONSTANTS
    CommandLines,   \* the arguments
    Inputs,         \* what the input may be
    MaxCardOpts,    \* MAX_CARDOPTS, 16
    ClearSizes      \* sizes of the cleartexts

Unset == "unset"

(* The options in their order, each a letter and what matters of its       *)
(* argument, then the number of other arguments.                           *)
Option == [letter : {"h", "d", "C", "D", "?"}, arg : {"none"}]
          \cup [letter : {"T", "p"}, arg : {"good", "bad"}]
          \cup [letter : {"o"}, arg : {"file", "-"}]

CommandLine == [opts : Seq(Option), names : 0..2, good : BOOLEAN]

(* `held' is how much there is to read, `st_size' what fstat() says of it: *)
(* 0, if the input is a pipe.                                              *)
Input == [kind : {"regular", "pipe", "unreadable"}, held : Nat]

ASSUME CommandLinesAssumption == CommandLines \subseteq CommandLine
ASSUME InputsAssumption == Inputs \subseteq Input
ASSUME SizesAssumption == MaxCardOpts \in Nat /\ ClearSizes \subseteq Nat

VARIABLES
    args,       \* the command line
    pc,         \* the next step of main(), or "exit"
    status,     \* the exit status; Killed for a process that was killed
    optind,     \* options parsed
    ncardopts,
    opt,        \* opt_type, opt_pin, opt_output: whether, or what, they were set to
    input,      \* the input (external)
    st_size,    \* buffer_read_file(): the local stb.st_size
    secret,     \* how many bytes of the input the buffer holds, -1 before
    dev,        \* "garbage" and "null" are what it may be before it is set
    outcome, pin, good, attempts, used,     \* of Decryption
    size,       \* of the cleartext
    rpos,       \* how much of it was written
    output      \* the output file: Unset as it was before, or bytes in it

doitVars == <<outcome, pin, good, attempts, used>>
fileVars == <<input, st_size, secret, size, rpos, output>>
vars == <<args, pc, status, optind, ncardopts, opt, dev, doitVars, fileVars>>

Doit == INSTANCE Decryption

Running == -1
Killed == -2
Untouched == -1

Init ==
    /\ args \in CommandLines /\ input \in Inputs
    /\ pc = "getopt" /\ status = Running
    /\ optind = 0 /\ ncardopts = 0
    /\ opt = [type |-> Unset, pin |-> Unset, output |-> Unset]
    /\ st_size = 0 /\ secret = -1
    /\ dev \in {"garbage", "null"}
    /\ outcome = "off" /\ pin = FALSE /\ good = FALSE /\ attempts = 0 /\ used = FALSE
    /\ size \in ClearSizes /\ rpos = 0 /\ output = Untouched

Exit(code) == pc' = "exit" /\ status' = code

Goto(step) == pc' = step /\ UNCHANGED status

-------------------------------------------------------------------------------
(* The command line *)

TooManyCardOpts_Late == ncardopts > MaxCardOpts

TooManyCardOpts == ncardopts >= MaxCardOpts

(* What one turn of the getopt_long() loop stores. *)
Store(o) ==
    opt' = CASE o.letter = "T" -> [opt EXCEPT !.type = o.arg]
             [] o.letter = "p" -> [opt EXCEPT !.pin = o.arg]
             [] o.letter = "o" -> [opt EXCEPT !.output = o.arg]
             [] OTHER -> opt

GetOption ==
    /\ pc = "getopt" /\ optind < Len(args.opts)
    /\ LET o == args.opts[optind + 1]
       IN  \/ o.letter = "h" /\ Exit(0) /\ UNCHANGED <<ncardopts, opt>>
           \/ o.letter = "?" /\ Exit(1) /\ UNCHANGED <<ncardopts, opt>>
           \/ /\ o.letter = "C" /\ TooManyCardOpts
              /\ Exit(1) /\ UNCHANGED <<ncardopts, opt>>
           \/ /\ o.letter = "C" /\ ~TooManyCardOpts
              /\ Goto("getopt")
              /\ ncardopts' = ncardopts + 1
              /\ UNCHANGED opt
           \/ /\ o.letter \in {"d", "D", "T", "p", "o"}
              /\ Goto("getopt")
              /\ Store(o)
              /\ UNCHANGED ncardopts
    /\ optind' = optind + 1
    /\ UNCHANGED <<args, dev, doitVars, fileVars>>

(* No name, or "-", is standard input; more than one is an error. *)
GetInputName ==
    /\ pc = "getopt" /\ optind = Len(args.opts)
    /\ IF args.names > 1 THEN Exit(1) ELSE Goto("stat")
    /\ UNCHANGED <<args, optind, ncardopts, opt, dev, doitVars, fileVars>>

-------------------------------------------------------------------------------
(* buffer_read_file() *)

StatSize == IF input.kind = "regular" THEN input.held ELSE 0

StatInput ==
    /\ pc = "stat"
    /\ st_size' = StatSize
    /\ \/ input.kind # "unreadable" /\ Goto("read")
       \/ Exit(2)
    /\ UNCHANGED <<args, optind, ncardopts, opt, dev, doitVars, input, secret, size, rpos, output>>

ShortRead(count) == count # st_size

(* One read() of st_size bytes, or of what there is. *)
ReadInput ==
    /\ pc = "read"
    /\ \/ Exit(2) /\ UNCHANGED secret
       \/ \E count \in 0..st_size :
             /\ count <= input.held
             /\ secret' = count
             /\ IF ShortRead(count) THEN Exit(2) ELSE Goto("open")
    /\ UNCHANGED <<args, optind, ncardopts, opt, dev, doitVars, input, st_size, size, rpos, output>>

-------------------------------------------------------------------------------
(* The device *)

(* Only with -T is `dev' set at all. *)
OpenDevice ==
    /\ pc = "open"
    /\ \/ /\ opt.type = Unset
          /\ UNCHANGED dev /\ Goto("device")
       \/ /\ opt.type = "bad"
          /\ UNCHANGED dev /\ Exit(1)
       \/ /\ opt.type = "good"
          /\ dev' \in {"open", "null"} /\ Goto("device")
    /\ UNCHANGED <<args, optind, ncardopts, opt, doitVars, fileVars>>

NoDevice ==
    /\ pc = "device" /\ dev = "null"
    /\ Exit(1)
    /\ UNCHANGED <<args, optind, ncardopts, opt, dev, doitVars, fileVars>>

-------------------------------------------------------------------------------
(* doit() *)

CallDoit ==
    /\ pc = "device" /\ dev # "null"
    /\ Doit!Start(opt.pin # Unset, args.good /\ secret = input.held)
    /\ Goto("doit")
    /\ UNCHANGED <<args, optind, ncardopts, opt, dev, fileVars>>

(* A wild pointer makes the call fail in one way or another. *)
DoitRuns ==
    /\ pc = "doit" /\ dev = "open"
    /\ Doit!Succeed \/ Doit!Fail
    /\ UNCHANGED <<args, pc, status, optind, ncardopts, opt, dev, fileVars>>

DoitGoesWild ==
    /\ pc = "doit" /\ dev = "garbage"
    /\ Doit!Fail
    /\ UNCHANGED <<args, pc, status, optind, ncardopts, opt, dev, fileVars>>

DoitFailed_Ignored == FALSE

DoitFailed == outcome = "failed"

DoitReturns ==
    /\ pc = "doit"
    /\ \/ outcome = "died" /\ Exit(Killed)
       \/ outcome \in {"ok", "failed"} /\ (IF DoitFailed THEN Exit(1) ELSE Goto("create"))
    /\ UNCHANGED <<args, optind, ncardopts, opt, dev, doitVars, fileVars>>

-------------------------------------------------------------------------------
(* buffer_write_file() *)

ToFile == opt.output \notin {Unset, "-"}

(* O_TRUNC empties the file that is there. *)
CreateOutput ==
    /\ pc = "create"
    /\ \/ /\ output' = IF ToFile THEN 0 ELSE output
          /\ Goto("write")
       \/ ToFile /\ Exit(2) /\ UNCHANGED output
    /\ UNCHANGED <<args, optind, ncardopts, opt, dev, doitVars, input, st_size, secret, size, rpos>>

Available_Once == IF rpos > 0 THEN 0 ELSE size

(* buffer_available() *)
Available == size - rpos

WriteOutput ==
    /\ pc = "write" /\ Available # 0
    /\ \/ \E n \in 1..Available :
             /\ rpos' = rpos + n
             /\ output' = IF ToFile THEN output + n ELSE output
             /\ Goto("write")
       \/ Exit(2) /\ UNCHANGED <<rpos, output>>
    /\ UNCHANGED <<args, optind, ncardopts, opt, dev, doitVars, input, st_size, secret, size>>

WriteReturns ==
    /\ pc = "write" /\ Available = 0
    /\ Exit(0)
    /\ UNCHANGED <<args, optind, ncardopts, opt, dev, doitVars, fileVars>>

-------------------------------------------------------------------------------
(* External *)

(* The card carries out what doit() has sent, at once or late. *)
CardActs ==
    /\ dev = "open"
    /\ Doit!Attempt \/ Doit!UseKey
    /\ UNCHANGED <<args, pc, status, optind, ncardopts, opt, dev, fileVars>>

(* A regular file grows or shrinks until it is read. *)
InputChanges ==
    /\ input.kind = "regular" /\ pc \in {"getopt", "stat", "read"}
    /\ \E i \in Inputs : i.kind = "regular" /\ input' = i
    /\ UNCHANGED <<args, pc, status, optind, ncardopts, opt, dev, doitVars, st_size, secret, size,
                   rpos, output>>

Kill ==
    /\ pc # "exit"
    /\ Exit(Killed)
    /\ outcome' = IF outcome = "running" THEN "died" ELSE outcome
    /\ UNCHANGED <<args, optind, ncardopts, opt, dev, pin, good, attempts, used, fileVars>>

-------------------------------------------------------------------------------
Process ==
    \/ GetOption \/ GetInputName \/ StatInput \/ ReadInput
    \/ OpenDevice \/ NoDevice
    \/ CallDoit \/ DoitRuns \/ DoitGoesWild \/ DoitReturns
    \/ CreateOutput \/ WriteOutput \/ WriteReturns

Finished == pc = "exit" /\ UNCHANGED vars

Next == Process \/ CardActs \/ InputChanges \/ Kill \/ Finished

Spec == Init /\ [][Next]_vars

-------------------------------------------------------------------------------
(* Properties *)

TypeOK ==
    /\ args \in CommandLine /\ input \in Input
    /\ pc \in {"getopt", "stat", "read", "open", "device", "doit", "create", "write", "exit"}
    /\ status \in {Killed, Running} \cup 0..2
    /\ (pc = "exit") = (status # Running)
    /\ optind \in 0..Len(args.opts) /\ ncardopts \in 0..MaxCardOpts
    /\ opt \in [type : {Unset, "good", "bad"}, pin : {Unset, "good", "bad"},
                output : {Unset, "file", "-"}]
    /\ st_size \in Nat /\ secret \in -1..st_size
    /\ dev \in {"garbage", "null", "open"}
    /\ outcome \in {"off", "running", "ok", "failed", "died"}
    /\ pin \in BOOLEAN /\ good \in BOOLEAN /\ attempts \in 0..1 /\ used \in BOOLEAN
    /\ size \in ClearSizes /\ rpos \in 0..size
    /\ output \in Untouched..size

(* Exit status 0 (not of -h) says that the secret was decrypted and that   *)
(* all of it is where -o sends it, although writes may be short and fail.  *)
SuccessIsWhole ==
    status = 0 =>
        \/ optind > 0 /\ args.opts[optind].letter = "h"
        \/ /\ outcome = "ok" /\ rpos = size
           /\ ToFile => output = size

(* What the output file held is gone only when there is a cleartext to put *)
(* in its place: a run that fails before, also for a wrong PIN or a killed *)
(* process, leaves it as it was.                                           *)
OutputIsKept == output # Untouched => outcome = "ok"

===============================================================================

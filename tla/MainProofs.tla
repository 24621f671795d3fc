------------------------------- MODULE MainProofs -------------------------------
(***************************************************************************)
(* Proofs about Main: for every command line, input and cleartext, exit    *)
(* status 0 stands for a whole cleartext in its place, and the old output  *)
(* is gone only when there is one.                                         *)
(***************************************************************************)
EXTENDS Main, TLAPS

Before == {"getopt", "stat", "read", "open", "device"}

Options == [type : {Unset, "good", "bad"}, pin : {Unset, "good", "bad"},
            output : {Unset, "file", "-"}]

(* What was read is whole once main() has gone on.                         *)
Read ==
    /\ pc \in {"getopt", "stat", "read"} => secret = -1
    /\ pc \in {"open", "device", "doit", "create", "write"} => secret = st_size

(* There is no outcome before doit() has run, and a cleartext after it.    *)
Decided ==
    /\ pc \in Before => outcome = "off"
    /\ pc = "doit" => outcome # "off"
    /\ pc \in {"create", "write"} => outcome = "ok"

(* What the file holds is what was written to it.                          *)
Written ==
    /\ pc \in Before \cup {"doit", "create"} => rpos = 0 /\ output = Untouched
    /\ pc = "write" => output = IF ToFile THEN rpos ELSE Untouched
    /\ OutputIsKept

MainInv == TypeOK /\ Read /\ Decided /\ Written /\ SuccessIsWhole

-------------------------------------------------------------------------------
LEMMA InvInit == Init => MainInv
<1> SUFFICES ASSUME Init PROVE MainInv  OBVIOUS
<1>1. args \in CommandLine /\ input \in Input /\ size \in ClearSizes /\ size \in Nat
  BY CommandLinesAssumption, InputsAssumption, SizesAssumption DEF Init
<1>2. Len(args.opts) \in Nat /\ 0 \in 0..Len(args.opts)
  <2>1. args.opts \in Seq(Option)  BY <1>1 DEF CommandLine
  <2> QED  BY <2>1
<1>3. TypeOK
  <2>1. pc = "getopt" /\ status = Running /\ (pc = "exit") = (status # Running)  BY DEF Init
  <2>2. opt \in Options  BY DEF Init, Options
  <2>3. 0 \in 0..size /\ Untouched \in Untouched..size /\ 0 \in 0..MaxCardOpts /\ -1 \in -1..0
    BY <1>1, SizesAssumption DEF Untouched
  <2>4. dev \in {"garbage", "null", "open"} /\ attempts \in 0..1  BY DEF Init
  <2> QED
    BY <1>1, <1>2, <2>1, <2>2, <2>3, <2>4 DEF Init, TypeOK, Options, Running
<1>4. Read /\ Decided /\ Written
  BY DEF Init, Read, Decided, Written, Before, OutputIsKept, Untouched
<1>5. SuccessIsWhole  BY DEF Init, SuccessIsWhole, Running
<1> QED  BY <1>3, <1>4, <1>5 DEF MainInv

-------------------------------------------------------------------------------
(* The command line and the input *)

LEMMA StoreKeeps ==
    ASSUME opt \in Options, NEW o \in Option, Store(o)
    PROVE  opt' \in Options
<1>1. CASE o.letter = "T"
  <2>1. o.arg \in {"good", "bad"}  BY <1>1 DEF Option
  <2>2. opt' = [opt EXCEPT !.type = o.arg]  BY <1>1 DEF Store
  <2> QED  BY <2>1, <2>2 DEF Options
<1>2. CASE o.letter = "p"
  <2>1. o.arg \in {"good", "bad"}  BY <1>2 DEF Option
  <2>2. opt' = [opt EXCEPT !.pin = o.arg]  BY <1>2 DEF Store
  <2> QED  BY <2>1, <2>2 DEF Options
<1>3. CASE o.letter = "o"
  <2>1. o.arg \in {"file", "-"}  BY <1>3 DEF Option
  <2>2. opt' = [opt EXCEPT !.output = o.arg]  BY <1>3 DEF Store
  <2> QED  BY <2>1, <2>2 DEF Options
<1>4. CASE o.letter \notin {"T", "p", "o"}
  BY <1>4 DEF Store
<1> QED  BY <1>1, <1>2, <1>3, <1>4

LEMMA GetOptionKeeps == MainInv /\ GetOption => MainInv'
<1> SUFFICES ASSUME MainInv, GetOption PROVE MainInv'  OBVIOUS
<1> USE DEF MainInv
<1> DEFINE o == args.opts[optind + 1]
<1>1. /\ pc = "getopt" /\ optind < Len(args.opts) /\ optind' = optind + 1
      /\ UNCHANGED <<args, dev, outcome, pin, good, attempts, used,
                     input, st_size, secret, size, rpos, output>>
  BY DEF GetOption, doitVars, fileVars
<1>2. /\ args.opts \in Seq(Option) /\ Len(args.opts) \in Nat /\ optind \in Nat
      /\ optind' \in 1..Len(args.opts) /\ o \in Option
  <2>1. args.opts \in Seq(Option)  BY DEF TypeOK, CommandLine
  <2>2. Len(args.opts) \in Nat /\ optind \in Nat  BY <2>1 DEF TypeOK
  <2>3. optind' \in 1..Len(args.opts)  BY <1>1, <2>2
  <2> QED  BY <1>1, <2>1, <2>2, <2>3
<1>3. opt \in Options /\ ncardopts \in 0..MaxCardOpts  BY DEF TypeOK, Options
<1>4. \/ /\ o.letter = "h" /\ pc' = "exit" /\ status' = 0
         /\ UNCHANGED <<ncardopts, opt>>
      \/ pc' = "exit" /\ status' = 1 /\ UNCHANGED <<ncardopts, opt>>
      \/ /\ pc' = "getopt" /\ status' = status /\ ncardopts < MaxCardOpts
         /\ ncardopts' = ncardopts + 1 /\ opt' = opt
      \/ /\ pc' = "getopt" /\ status' = status /\ ncardopts' = ncardopts /\ Store(o)
  <2>1. ~TooManyCardOpts => ncardopts < MaxCardOpts
    BY <1>3, SizesAssumption DEF TooManyCardOpts
  <2> QED  BY <1>1, <2>1 DEF GetOption, Exit, Goto
<1>5. /\ opt' \in Options /\ ncardopts' \in 0..MaxCardOpts
      /\ pc' \in {"getopt", "exit"} /\ status' \in {0, 1, status}
      /\ (pc' = "exit") = (status' # Running)
  <2>1. opt' \in Options  BY <1>2, <1>3, <1>4, StoreKeeps
  <2>2. ncardopts' \in 0..MaxCardOpts  BY <1>3, <1>4, SizesAssumption
  <2>3. status = Running  BY <1>1 DEF TypeOK
  <2> QED  BY <1>4, <2>1, <2>2, <2>3 DEF Running
<1>6. TypeOK'  BY <1>1, <1>2, <1>5 DEF TypeOK, Options
<1>7. Read' /\ Decided' /\ Written'
  BY <1>1, <1>5 DEF Read, Decided, Written, Before, OutputIsKept
<1>8. SuccessIsWhole'
  <2>1. status' = 0 => o.letter = "h"
    <3>1. status = Running  BY <1>1 DEF TypeOK
    <3> QED  BY <1>4, <3>1 DEF Running
  <2> QED  BY <1>1, <1>2, <2>1 DEF SuccessIsWhole
<1> QED  BY <1>6, <1>7, <1>8

LEMMA InputKeeps ==
    ASSUME MainInv, GetInputName \/ StatInput \/ ReadInput \/ InputChanges
    PROVE  MainInv'
<1> USE DEF MainInv
<1>1. /\ UNCHANGED <<args, optind, ncardopts, opt, dev, outcome, pin, good, attempts, used,
                     size, rpos, output>>
      /\ pc \in {"getopt", "stat", "read"}
  BY DEF GetInputName, StatInput, ReadInput, InputChanges, doitVars, fileVars
<1>2. secret = -1 /\ outcome = "off" /\ status = Running /\ rpos = 0 /\ output = Untouched
  BY <1>1 DEF Read, Decided, Written, Before, TypeOK
<1>3. input' \in Input
  BY InputsAssumption DEF GetInputName, StatInput, ReadInput, InputChanges, fileVars, TypeOK
<1>4. st_size' \in Nat /\ secret' \in -1..st_size'
  <2>1. StatSize \in Nat  BY DEF StatSize, TypeOK, Input
  <2>2. CASE StatInput  BY <1>2, <2>1, <2>2 DEF StatInput
  <2>3. CASE ReadInput  BY <2>3 DEF ReadInput, TypeOK
  <2>4. CASE GetInputName \/ InputChanges
    BY <2>4 DEF GetInputName, InputChanges, fileVars, TypeOK
  <2> QED  BY <2>2, <2>3, <2>4
<1>5. \/ /\ pc' \in {"getopt", "stat", "read", "open"} /\ status' = status
         /\ IF pc' = "open" THEN secret' = st_size' ELSE secret' = secret
      \/ pc' = "exit" /\ status' \in {1, 2}
  <2>1. CASE GetInputName  BY <2>1 DEF GetInputName, Exit, Goto, fileVars
  <2>2. CASE StatInput  BY <2>2 DEF StatInput, Exit, Goto
  <2>3. CASE ReadInput  BY <2>3 DEF ReadInput, Exit, Goto, ShortRead
  <2>4. CASE InputChanges  BY <1>1, <2>4 DEF InputChanges
  <2> QED  BY <2>1, <2>2, <2>3, <2>4
<1>6. TypeOK'  BY <1>1, <1>2, <1>3, <1>4, <1>5 DEF TypeOK, Running
<1>7. Read'  BY <1>1, <1>2, <1>5 DEF Read
<1>8. Decided' /\ Written'  BY <1>1, <1>2, <1>5 DEF Decided, Written, Before, OutputIsKept
<1>9. SuccessIsWhole'  BY <1>2, <1>5 DEF SuccessIsWhole, Running
<1> QED  BY <1>6, <1>7, <1>8, <1>9

-------------------------------------------------------------------------------
(* The device and doit() *)

LEMMA DeviceKeeps ==
    ASSUME MainInv, OpenDevice \/ NoDevice \/ CallDoit
    PROVE  MainInv'
<1> USE DEF MainInv
<1>1. /\ UNCHANGED <<args, optind, ncardopts, opt, input, st_size, secret, size, rpos, output>>
      /\ pc \in {"open", "device"}
  BY DEF OpenDevice, NoDevice, CallDoit, fileVars
<1>2. secret = st_size /\ outcome = "off" /\ status = Running /\ rpos = 0 /\ output = Untouched
  BY <1>1 DEF Read, Decided, Written, Before, TypeOK
<1>3. dev' \in {"garbage", "null", "open"}
  BY DEF OpenDevice, NoDevice, CallDoit, TypeOK
<1>4. /\ outcome' \in {"off", "running", "failed"} /\ (pc' = "doit" <=> outcome' # "off")
      /\ pin' \in BOOLEAN /\ good' \in BOOLEAN /\ attempts' \in 0..1 /\ used' \in BOOLEAN
      /\ \/ pc' \in {"device", "doit"} /\ status' = status
         \/ pc' = "exit" /\ status' = 1
  <2>1. CASE OpenDevice
    BY <1>2, <2>1 DEF OpenDevice, Exit, Goto, doitVars, TypeOK
  <2>2. CASE NoDevice
    BY <1>2, <2>2 DEF NoDevice, Exit, doitVars, TypeOK
  <2>3. CASE CallDoit
    <3>1. args.good \in BOOLEAN  BY DEF TypeOK, CommandLine
    <3>2. /\ outcome' \in {"running", "failed"} /\ attempts' = 0 /\ used' = FALSE
          /\ pc' = "doit" /\ status' = status
      BY <2>3 DEF CallDoit, Goto, Doit!Start
    <3>3. pin' = (opt.pin # Unset) /\ good' = (args.good /\ secret = input.held)
      BY <2>3, Zenon DEF CallDoit, Doit!Start
    <3>4. pin' \in BOOLEAN /\ good' \in BOOLEAN  BY <3>1, <3>3
    <3>5. attempts' \in 0..1  BY <3>2, SMT
    <3>6. used' \in BOOLEAN  BY <3>2, Zenon
    <3>7. outcome' \in {"off", "running", "failed"} /\ outcome' # "off"  BY <3>2
    <3> HIDE DEF MainInv
    <3> QED  BY <3>2, <3>4, <3>5, <3>6, <3>7, Zenon
  <2> QED  BY <2>1, <2>2, <2>3
<1>5. TypeOK'  BY <1>1, <1>2, <1>3, <1>4 DEF TypeOK, Running
<1>6. Read'  BY <1>1, <1>2, <1>4 DEF Read
<1>7. Decided' /\ Written'  BY <1>1, <1>2, <1>4 DEF Decided, Written, Before, OutputIsKept
<1>8. SuccessIsWhole'  BY <1>2, <1>4 DEF SuccessIsWhole, Running
<1> QED  BY <1>5, <1>6, <1>7, <1>8

(* What doit() and the card do to its own state.                           *)
LEMMA DoitKeeps ==
    ASSUME MainInv, DoitRuns \/ DoitGoesWild \/ CardActs
    PROVE  MainInv'
<1> USE DEF MainInv
<1>1. UNCHANGED <<args, pc, status, optind, ncardopts, opt, dev,
                  input, st_size, secret, size, rpos, output>>
  BY DEF DoitRuns, DoitGoesWild, CardActs, fileVars
<1>2. /\ pin' = pin /\ good' = good /\ attempts' \in 0..1 /\ used' \in BOOLEAN
      /\ \/ outcome' = outcome
         \/ pc = "doit" /\ outcome = "running" /\ outcome' \in {"ok", "failed", "died"}
  <2>1. CASE DoitRuns \/ DoitGoesWild
    BY <2>1 DEF DoitRuns, DoitGoesWild, Doit!Succeed, Doit!Fail, TypeOK
  <2>2. CASE CardActs
    <3>1. /\ UNCHANGED <<pin, good, outcome>>
          /\ \/ attempts' = 1 /\ used' = used
             \/ attempts' = attempts /\ used' = TRUE
      BY <2>2, Zenon DEF CardActs, Doit!Attempt, Doit!UseKey
    <3>2. attempts \in 0..1 /\ used \in BOOLEAN  BY DEF TypeOK
    <3>3. attempts' \in 0..1  BY <3>1, <3>2
    <3>4. used' \in BOOLEAN  BY <3>1, <3>2
    <3> HIDE DEF MainInv
    <3> QED  BY <3>1, <3>3, <3>4, Zenon
  <2> QED  BY <2>1, <2>2
<1>3. ToFile' = ToFile  BY <1>1 DEF ToFile
<1>4. TypeOK'  BY <1>1, <1>2 DEF TypeOK
<1>5. Read' /\ Decided'  BY <1>1, <1>2 DEF Read, Decided, Before
<1>6. Written'  BY <1>1, <1>2, <1>3 DEF Written, Before, OutputIsKept
<1>7. SuccessIsWhole'
  <2>1. status = 0 => pc = "exit"  BY DEF TypeOK, Running
  <2> QED  BY <1>1, <1>2, <1>3, <2>1 DEF SuccessIsWhole
<1> QED  BY <1>4, <1>5, <1>6, <1>7

LEMMA DoitReturnKeeps == MainInv /\ DoitReturns => MainInv'
<1> SUFFICES ASSUME MainInv, DoitReturns PROVE MainInv'  OBVIOUS
<1> USE DEF MainInv
<1>1. /\ pc = "doit" /\ UNCHANGED <<args, optind, ncardopts, opt, dev, outcome, pin, good, attempts,
                                    used, input, st_size, secret, size, rpos, output>>
      /\ \/ pc' = "exit" /\ status' \in {1, Killed}
         \/ pc' = "create" /\ status' = status /\ outcome = "ok"
  BY DEF DoitReturns, Exit, Goto, DoitFailed, doitVars, fileVars
<1>2. secret = st_size /\ status = Running /\ rpos = 0 /\ output = Untouched /\ outcome # "off"
  BY <1>1 DEF Read, Decided, Written, TypeOK
<1>3. TypeOK'  BY <1>1, <1>2 DEF TypeOK, Running, Killed
<1>4. Read' /\ Decided' /\ Written'
  BY <1>1, <1>2 DEF Read, Decided, Written, Before, OutputIsKept
<1>5. SuccessIsWhole'  BY <1>1, <1>2 DEF SuccessIsWhole, Running, Killed
<1> QED  BY <1>3, <1>4, <1>5

-------------------------------------------------------------------------------
(* The output *)

LEMMA OutputKeeps ==
    ASSUME MainInv, CreateOutput \/ WriteOutput \/ WriteReturns
    PROVE  MainInv'
<1> USE DEF MainInv
<1>1. /\ UNCHANGED <<args, optind, ncardopts, opt, dev, outcome, pin, good, attempts, used,
                     input, st_size, secret, size>>
      /\ pc \in {"create", "write"} /\ outcome = "ok" /\ secret = st_size /\ status = Running
  BY DEF CreateOutput, WriteOutput, WriteReturns, doitVars, fileVars, Read, Decided, TypeOK
<1>2. size \in Nat /\ size \in ClearSizes /\ rpos \in 0..size /\ output \in Untouched..size
  BY SizesAssumption DEF TypeOK
<1>3. ToFile' = ToFile  BY <1>1 DEF ToFile
<1>4. CASE CreateOutput
  <2>1. /\ rpos = 0 /\ rpos' = 0 /\ output = Untouched
        /\ \/ pc' = "write" /\ status' = status /\ output' = IF ToFile THEN 0 ELSE Untouched
           \/ pc' = "exit" /\ status' = 2 /\ output' = Untouched
    BY <1>4 DEF CreateOutput, Written, Exit, Goto
  <2>2. TypeOK'  BY <1>1, <1>2, <2>1 DEF TypeOK, Running, Untouched
  <2>3. Read' /\ Decided' /\ Written'
    BY <1>1, <1>3, <2>1 DEF Read, Decided, Written, Before, OutputIsKept
  <2>4. SuccessIsWhole'  BY <1>1, <2>1 DEF SuccessIsWhole, Running
  <2> QED  BY <2>2, <2>3, <2>4
<1>5. CASE WriteOutput
  <2>1. output = IF ToFile THEN rpos ELSE Untouched  BY <1>5 DEF WriteOutput, Written
  <2>2. \/ /\ pc' = "write" /\ status' = status /\ rpos' \in 0..size
           /\ output' = IF ToFile THEN rpos' ELSE Untouched
        \/ pc' = "exit" /\ status' = 2 /\ UNCHANGED <<rpos, output>>
    <3>1. ASSUME NEW n \in 1..Available
          PROVE  rpos + n \in 0..size
      BY <1>2 DEF Available
    <3> QED  BY <1>5, <2>1, <3>1 DEF WriteOutput, Exit, Goto
  <2>3. TypeOK'
    <3>1. output' \in Untouched..size /\ rpos' \in 0..size  BY <1>2, <2>1, <2>2 DEF Untouched
    <3> QED  BY <1>1, <1>2, <2>2, <3>1 DEF TypeOK, Running
  <2>4. Read' /\ Decided' /\ Written'
    BY <1>1, <1>3, <1>5, <2>2
    DEF WriteOutput, Read, Decided, Written, Before, OutputIsKept
  <2>5. SuccessIsWhole'  BY <1>1, <2>2 DEF SuccessIsWhole, Running
  <2> QED  BY <2>3, <2>4, <2>5
<1>6. CASE WriteReturns
  <2>1. /\ rpos = size /\ output = (IF ToFile THEN rpos ELSE Untouched)
        /\ pc' = "exit" /\ status' = 0 /\ UNCHANGED <<rpos, output>>
    BY <1>2, <1>6 DEF WriteReturns, Available, Exit, fileVars, Written
  <2>2. TypeOK'  BY <1>1, <2>1 DEF TypeOK, Running
  <2>3. Read' /\ Decided' /\ Written'
    BY <1>1, <2>1 DEF Read, Decided, Written, Before, OutputIsKept
  <2>4. SuccessIsWhole'  BY <1>1, <1>3, <2>1 DEF SuccessIsWhole
  <2> QED  BY <2>2, <2>3, <2>4
<1> QED  BY <1>4, <1>5, <1>6

LEMMA KillKeeps == MainInv /\ Kill => MainInv'
<1> SUFFICES ASSUME MainInv, Kill PROVE MainInv'  OBVIOUS
<1>1. /\ pc # "exit" /\ pc' = "exit" /\ status' = Killed
      /\ outcome' = IF outcome = "running" THEN "died" ELSE outcome
      /\ UNCHANGED <<args, optind, ncardopts, opt, dev, pin, good, attempts, used,
                     input, st_size, secret, size, rpos, output>>
  BY DEF Kill, Exit, fileVars
<1> USE DEF MainInv
<1>2. TypeOK'  BY <1>1 DEF TypeOK, Running, Killed
<1>3. Read' /\ Decided'  BY <1>1 DEF Read, Decided, Before
<1>4. Written' /\ SuccessIsWhole'
  BY <1>1 DEF Written, Before, OutputIsKept, SuccessIsWhole, Killed
<1> QED  BY <1>2, <1>3, <1>4

LEMMA NothingKeeps == MainInv /\ UNCHANGED vars => MainInv'
BY DEF MainInv, vars, doitVars, fileVars, TypeOK, Read, Decided, Written, Before, ToFile,
       SuccessIsWhole, OutputIsKept

LEMMA InvNext == MainInv /\ [Next]_vars => MainInv'
BY GetOptionKeeps, InputKeeps, DeviceKeeps, DoitKeeps, DoitReturnKeeps, OutputKeeps, KillKeeps,
   NothingKeeps
   DEF Next, Process, Finished

LEMMA Invariance == Spec => []MainInv
BY InvInit, InvNext, PTL DEF Spec

-------------------------------------------------------------------------------
(* Theorems *)

(* Every variable of main() keeps its type: no more card options are kept  *)
(* than there is room for, no more is read or written than there is, and   *)
(* the process has a status when it has gone, and not before.              *)
THEOREM TypeCorrect == Spec => []TypeOK
BY Invariance, PTL DEF MainInv

(* Exit status 0 of main() stands for a cleartext that is in its place as  *)
(* a whole, however short the writes of buffer_write_file() were.          *)
THEOREM SuccessMeansWhole == Spec => []SuccessIsWhole
BY Invariance, PTL DEF MainInv

(* main() does not touch the output file before doit() has a cleartext.    *)
THEOREM OldOutputIsKept == Spec => []OutputIsKept
<1>1. MainInv => OutputIsKept  BY DEF MainInv, Written
<1> QED  BY <1>1, Invariance, PTL

===============================================================================

----------------------------- MODULE CcidExchange -----------------------------
(***************************************************************************)
(* What ccid_xfer() of reader.c promises its callers, with no packets, no  *)
(* sequence numbers and no retries: commands are numbered in the order     *)
(* they are issued, the token carries each of them out at most once and    *)
(* in that order, and a call that returns a response returns the one of a  *)
(* command that has been carried out.  A call that returns NULL promises   *)
(* nothing: the command may have been carried out, may never be, or may    *)
(* still be carried out later.                                             *)
(***************************************************************************)
EXTENDS Naturals

VARIABLES
    issued,     \* how many commands the token has taken
    xfer,       \* "idle", "wait", "ok" (response), "null" or "crashed"
    executed    \* the numbers of the commands the token has carried out

vars == <<issued, xfer, executed>>

TypeOK ==
    /\ issued \in Nat
    /\ xfer \in {"idle", "wait", "ok", "null", "crashed"}
    /\ executed \subseteq 1..issued

Init ==
    /\ issued = 0
    /\ xfer = "idle"
    /\ executed = {}

(* A command is handed to the token. *)
Issue ==
    /\ xfer = "idle"
    /\ issued' = issued + 1
    /\ xfer' = "wait"
    /\ UNCHANGED executed

(* The token does not take the command: the call fails at once. *)
Refuse ==
    /\ xfer = "idle"
    /\ xfer' = "null"
    /\ UNCHANGED <<issued, executed>>

(* The token carries out a command, possibly one already given up on, but  *)
(* never one that precedes a command it has carried out.                   *)
Execute(n) ==
    /\ n \in 1..issued
    /\ \A m \in executed : m < n
    /\ executed' = executed \cup {n}
    /\ UNCHANGED <<issued, xfer>>

(* The call returns the response to its own command. *)
Respond ==
    /\ xfer = "wait"
    /\ issued \in executed
    /\ xfer' = "ok"
    /\ UNCHANGED <<issued, executed>>

GiveUp ==
    /\ xfer = "wait"
    /\ xfer' \in {"null", "crashed"}
    /\ UNCHANGED <<issued, executed>>

(* The caller has taken the result and goes on. *)
Return ==
    /\ xfer \in {"ok", "null"}
    /\ xfer' = "idle"
    /\ UNCHANGED <<issued, executed>>

Next ==
    \/ Issue
    \/ Refuse
    \/ \E n \in 1..issued : Execute(n)
    \/ Respond
    \/ GiveUp
    \/ Return

Spec == Init /\ [][Next]_vars
===============================================================================

------------------------------ MODULE Decryption ------------------------------
(***************************************************************************)
(* What doit() promises main(), and the user: one run costs at most one    *)
(* PIN attempt; the private key is used at most once, and if a PIN was     *)
(* given only after it was tried; there is a cleartext only if the key was *)
(* used on a ciphertext made for it.  What a run that failed has sent may  *)
(* still be carried out by the card after the program has gone.            *)
(* PivSession is shown to implement this, Main is built on it.             *)
(***************************************************************************)
EXTENDS Naturals

VARIABLES
    outcome,    \* "off" before the first run, "running", and how a run ended
    pin,        \* was a PIN given?
    good,       \* was the ciphertext made for the key?
    attempts,   \* PIN attempts the card has counted in this run
    used        \* has the card used the private key in this run?

vars == <<outcome, pin, good, attempts, used>>

Init == outcome = "off" /\ pin \in BOOLEAN /\ good \in BOOLEAN /\ attempts = 0 /\ used = FALSE

(* A run that is begun may fail before it reaches the card. *)
Start(p, g) ==
    /\ outcome # "running"
    /\ outcome' \in {"running", "failed"}
    /\ pin' = p /\ good' = g
    /\ attempts' = 0 /\ used' = FALSE

UnderWay == outcome \in {"running", "failed", "died"}

Attempt ==
    /\ UnderWay /\ pin /\ attempts = 0 /\ ~used
    /\ attempts' = 1
    /\ UNCHANGED <<outcome, pin, good, used>>

UseKey ==
    /\ UnderWay /\ ~used /\ (pin => attempts = 1)
    /\ used' = TRUE
    /\ UNCHANGED <<outcome, pin, good, attempts>>

Succeed ==
    /\ outcome = "running" /\ used /\ good
    /\ outcome' = "ok"
    /\ UNCHANGED <<pin, good, attempts, used>>

Fail ==
    /\ outcome = "running"
    /\ outcome' \in {"failed", "died"}
    /\ UNCHANGED <<pin, good, attempts, used>>

Next ==
    \/ \E p, g \in BOOLEAN : Start(p, g)
    \/ Attempt \/ UseKey \/ Succeed \/ Fail

Spec == Init /\ [][Next]_vars

===============================================================================

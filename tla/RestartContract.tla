--------------------------- MODULE RestartContract ---------------------------
(***************************************************************************)
(* What RestartXray promises to those who call it, without a word about    *)
(* locks or processes: once a call has returned without an error, the      *)
(* Xray process in place was started from a configuration that includes    *)
(* every commit made before the call; and the process in place never goes  *)
(* back to an older configuration, whoever installs it.                    *)
(***************************************************************************)
EXTENDS Naturals

CONSTANT Callers

VARIABLES
  written,    \* commits to the database so far
  installed,  \* the commit the process in place stands for (0: none yet)
  phase,      \* Callers -> "out" of RestartXray, "in" it, "done" without error
  asked       \* Callers -> written when the call was made

vars == <<written, installed, phase, asked>>

Init ==
  /\ written \in Nat /\ installed = 0
  /\ phase \in [Callers -> {"out", "in"}]
  /\ asked = [c \in Callers |-> IF phase[c] = "in" THEN written ELSE 0]

Commit ==
  /\ written' = written + 1
  /\ UNCHANGED <<installed, phase, asked>>

Install ==
  /\ installed' \in Nat /\ installed <= installed' /\ installed' <= written
  /\ UNCHANGED <<written, phase, asked>>

Call(c) ==
  /\ phase[c] = "out"
  /\ phase' = [phase EXCEPT ![c] = "in"]
  /\ asked' = [asked EXCEPT ![c] = written]
  /\ UNCHANGED <<written, installed>>

(* A return without an error: the promise. *)
Return(c) ==
  /\ phase[c] = "in"
  /\ installed' \in Nat /\ installed <= installed' /\ installed' <= written
  /\ asked[c] <= installed'
  /\ phase' = [phase EXCEPT ![c] = "done"]
  /\ UNCHANGED <<written, asked>>

(* A return with an error promises nothing; it may have committed (what     *)
(* AddTraffic disabled) or installed a process that does not run.           *)
Fail(c) ==
  /\ phase[c] = "in"
  /\ written' \in {written, written + 1}
  /\ installed' \in Nat /\ installed <= installed' /\ installed' <= written
  /\ phase' = [phase EXCEPT ![c] = "out"]
  /\ asked' = [asked EXCEPT ![c] = 0]

Leave(c) ==
  /\ phase[c] = "done"
  /\ phase' = [phase EXCEPT ![c] = "out"]
  /\ asked' = [asked EXCEPT ![c] = 0]
  /\ UNCHANGED <<written, installed>>

Next ==
  \/ Commit \/ Install
  \/ \E c \in Callers : Call(c) \/ Return(c) \/ Fail(c) \/ Leave(c)

Spec == Init /\ [][Next]_vars
=============================================================================

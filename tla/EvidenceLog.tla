---------------------------- MODULE EvidenceLog ----------------------------
(***************************************************************************)
(* What continuous capture promises, without its files: observations join  *)
(* a log, and evidence is the part of the log committed so far.  Nothing   *)
(* leaves the log, nothing leaves or reorders the evidence, and a commit   *)
(* may take up any number of waiting observations but never passes one     *)
(* over.                                                                   *)
(***************************************************************************)
EXTENDS Naturals, Sequences

VARIABLES
  log,       \* the observations made durable, in order
  evidence   \* the observations committed as evidence, in order

Prefix(s, t) == Len(s) <= Len(t) /\ \A n \in 1..Len(s) : s[n] = t[n]

Init == log = <<>> /\ evidence = <<>>

Observe ==
  /\ Len(log') = Len(log) + 1
  /\ Prefix(log, log')
  /\ UNCHANGED evidence

Commit ==
  /\ Len(evidence') > Len(evidence)
  /\ Prefix(evidence, evidence')
  /\ Prefix(evidence', log)
  /\ UNCHANGED log

Next == Observe \/ Commit

Spec == Init /\ [][Next]_<<log, evidence>>
=============================================================================

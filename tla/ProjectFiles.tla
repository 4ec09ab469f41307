---------------------------- MODULE ProjectFiles ----------------------------
(***************************************************************************)
(* The files of one project directory, and the processes of the atb        *)
(* command line that work on them.                                         *)
(*                                                                         *)
(* A process runs one command, one step of the code between two accesses   *)
(* to a shared file at a time; commands of different processes interleave, *)
(* and a process may be killed between two steps.  A bundle is the         *)
(* sequence of its records, beginning with its manifest; <<>> is a file    *)
(* that does not exist.  A digest of a bundle, and the hash of its head    *)
(* (each record's hash covers the ones before it), is the bundle itself.   *)
(* The atomic replacement and the advisory lock used here are modelled     *)
(* step by step in BundleStore and BundleLock.                             *)
(***************************************************************************)
EXTENDS Naturals, Sequences, FiniteSets

CONSTANTS Proc,        \* processes
          Past,        \* the commands that ran before them
          Command,       \* the commands they may run
          MaxDay,        \* bound: days the clock advances
          MaxFaults      \* bound: steps that fail, and processes killed

VARIABLES file,      \* run.atb/bundle.atb
          lock,      \* the process holding its lock, or Nobody
          saved,     \* the day file was last written: its modification time
          token,     \* run.atb/bundle.atb.tsr
          policy,    \* the retention policy in .atb/config.json
          ops,       \* .atb/operations.atb, its records after the manifest
          archive,   \* [day -> what lies in that day's directory of archive.atb]
          ledger,    \* archive.atb/index.ndjson
          objects,   \* the objects of the bucket
          queue,     \* envelopes the queue endpoint has accepted
          day,       \* today
          faults,    \* steps that have failed and processes killed
          proc       \* [Proc -> the state of its process]

files == <<file, saved>>
custody == <<archive, ledger>>
remote == <<objects, queue>>
projectVars == <<file, lock, saved, token, policy, ops, archive, ledger,
                 objects, queue, day, faults, proc>>

Nobody == "nobody"
Absent == <<>>
NoPolicy == "none"

\* A record: its kind, the process that appended it, and what it names.
Rec(k, p, of) == [k |-> k, by |-> p, of |-> of]

\* bundle.New: a manifest with a fresh identifier.
Fresh(p) == <<Rec("manifest", p, Absent)>>

\* A day's archive directory without the bundle; by, b and m are who placed the
\* bundle, the bundle and its modification time.
Empty == [by |-> Nobody, b |-> Absent, m |-> 0]

\* A token of the timestamp authority: for whom, and over which digest.
Token(p, h) == [by |-> p, of |-> h]
NoToken == Token(Nobody, Absent)

\* An entry of the ledger, the first one.
FirstEntry == [seq |-> 1, prev |-> Nobody, by |-> Past, dest |-> 0,
               sha |-> Fresh(Past), head |-> Fresh(Past)]

\* How a command ends; "unaudited" is a system error whose message says that a
\* retention policy is saved without an audit event.
Exits == {"none", "ok", "user", "system", "locked", "unaudited"}

\* The options of a command line that change what a command does.  How long it
\* waits for a lock does not: a step of a process may come late anyway.
Plain == [dry |-> FALSE, fallback |-> FALSE, before |-> FALSE,
          target |-> FALSE, lock |-> FALSE, queue |-> FALSE]

\* The options of command c that may be given; push wants a bucket or a queue.
Flags(c) == CASE c \in {"init", "append", "corroborate", "snapshot"} -> {"dry"}
              [] c = "sign"    -> {"fallback"}
              [] c = "archive" -> {"dry", "before"}
              [] c = "push"    -> {"dry", "target", "lock", "queue"}
              [] OTHER         -> {}

Options == [c \in Command |->
              {[f \in DOMAIN Plain |-> f \in on] :
                 on \in {s \in SUBSET Flags(c) :
                           c = "push" => s \cap {"target", "queue"} # {}}}]

\* Where each command begins, its arguments accepted.
FirstStep == [init |-> "stat", append |-> "load", corroborate |-> "fetch",
              snapshot |-> "load", sign |-> "load", anchor |-> "load",
              push |-> "load", archive |-> "begin", retention |-> "read policy"]

\* The state of a process: what it has read of the bundle, of the ledger, of the
\* operations bundle and of the policy, the day it began, whether no other
\* process wrote since it began, and how it ended.
Idle == [cmd |-> "none", pc |-> "idle", opt |-> Plain,
         b |-> Absent, h |-> Absent, l |-> <<>>, a |-> <<>>,
         old |-> NoPolicy, raw |-> NoPolicy, d |-> 0,
         alone |-> TRUE, exit |-> "none"]

\* The project is new, or an earlier command has left its bundle, a policy, an
\* anchored bundle or an archived one.
ProjectInit ==
    /\ saved = 0 /\ lock = Nobody /\ objects = {} /\ queue = {}
    /\ day = 0 /\ faults = 0
    /\ proc = [p \in Proc |-> Idle]
    /\ \E past \in {"new", "append", "retention", "anchor", "archive"} :
         /\ file = CASE past \in {"new", "retention"} -> Absent
                     [] past = "anchor" -> Append(Fresh(Past), Rec("anchor", Past, Fresh(Past)))
                     [] past = "append" -> Append(Fresh(Past), Rec("append", Past, Absent))
                     [] OTHER -> Fresh(Past)
         /\ token = IF past = "anchor" THEN Token(Past, Fresh(Past)) ELSE NoToken
         /\ policy = IF past = "retention" THEN Past ELSE NoPolicy
         /\ ops = CASE past = "retention" -> <<Rec("policy", Past, <<>>)>>
                    [] past = "archive" -> <<Rec("archive", Past, <<Past>>)>>
                    [] OTHER -> <<>>
         /\ archive = [d \in 0 .. MaxDay |-> IF d = 0 /\ past = "archive"
                         THEN [by |-> Past, b |-> Fresh(Past), m |-> 0] ELSE Empty]
         /\ ledger = IF past = "archive" THEN <<FirstEntry>> ELSE <<>>

-----------------------------------------------------------------------------
(* Steps of a process.                                                     *)

At(p, c, pc) == proc[p].cmd = c /\ proc[p].pc = pc

\* The state of p after a step that changes only p.
Goto(p, pc) == [proc EXCEPT ![p].pc = pc]
Exit(p, code) == [proc EXCEPT ![p].pc = "done", ![p].exit = code]

\* A step that writes a file the commands share: every other process that has
\* begun is no longer alone.
Touched(pr, p) == [q \in Proc |->
                     IF q # p /\ pr[q].pc \notin {"idle", "done"}
                     THEN [pr[q] EXCEPT !.alone = FALSE] ELSE pr[q]]

\* A step that fails uses up one of the faults.
Fails == faults < MaxFaults /\ faults' = faults + 1
Holds == faults' = faults

\* main: the command and its arguments are read.
Start(p, c, o) ==
    /\ proc[p].pc = "idle"
    /\ proc' = [proc EXCEPT ![p].cmd = c, ![p].pc = FirstStep[c], ![p].opt = o,
                            ![p].d = day]
    /\ UNCHANGED <<files, lock, token, policy, ops, custody, remote, day, faults>>

\* The arguments are refused: the command ends before it touches a file.
Refuse(p) ==
    /\ proc[p].pc = "idle"
    /\ proc' = Exit(p, "user")
    /\ UNCHANGED <<files, lock, token, policy, ops, custody, remote, day, faults>>

\* The process is killed; the kernel drops its flock.
Kill(p) ==
    /\ proc[p].pc \notin {"idle", "done", "dead"}
    /\ Fails
    /\ proc' = Goto(p, "dead")
    /\ lock' = IF lock = p THEN Nobody ELSE lock
    /\ UNCHANGED <<files, token, policy, ops, custody, remote, day>>

Tomorrow ==
    /\ day < MaxDay
    /\ day' = day + 1
    /\ UNCHANGED <<files, lock, token, policy, ops, custody, remote, faults, proc>>

\* The file is replaced by b.
Replaced(b) == file' = b /\ saved' = day

\* Save and SaveWithRetry of b, which replaces the file under its lock; then
\* the process is at pc, or has exited when pc is an exit code.
SaveBundle(p, b, pc) ==
    \/ /\ lock = Nobody
       /\ Replaced(b)
       /\ proc' = Touched(IF pc \in Exits THEN Exit(p, pc) ELSE Goto(p, pc), p)
       /\ Holds
    \/ /\ lock # Nobody                      \* ErrBundleLocked, at once or after the wait
       /\ proc' = Exit(p, "locked")
       /\ Holds /\ UNCHANGED files
    \/ /\ lock = Nobody /\ Fails   \* the replacement fails, or the sync after it
       /\ UNCHANGED files \/ Replaced(b)
       /\ proc' = Touched(Exit(p, "system"), p)

-----------------------------------------------------------------------------
(* retentionaudit.Append: one event for the operations bundle.             *)

LoadAudit(p, pc) ==
    /\ proc' = [proc EXCEPT ![p].a = ops, ![p].pc = pc]
    /\ Holds

\* What a save of the event makes of the operations bundle.
Audited(p, e) == Append(proc[p].a, e)

\* The directory may fail to sync after the rename: the event is there, and
\* the caller is told that it is not.
SaveAudit(p, e, good, bad) ==
    \/ /\ ops' = Audited(p, e)
       /\ proc' = Touched(IF good \in Exits THEN Exit(p, good) ELSE Goto(p, good), p)
       /\ Holds
    \/ /\ Fails
       /\ ops' \in {ops, Audited(p, e)}
       /\ proc' = Touched(IF bad \in Exits THEN Exit(p, bad) ELSE Goto(p, bad), p)
=============================================================================

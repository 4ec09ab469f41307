--------------------------- MODULE CustodyCommands ---------------------------
(***************************************************************************)
(* The commands that keep the custody of bundles: atb config retention,    *)
(* atb archive and atb push.  Each acts first and then appends an event to *)
(* the operations bundle that says so.                                     *)
(***************************************************************************)
EXTENDS ProjectFiles

Torn == "torn"       \* a file a failed write has left unreadable

-----------------------------------------------------------------------------
(* atb config retention.                                                   *)

\* loadATBConfig, for the previous policy; a file it cannot parse ends the
\* command.
ReadPolicy(p) ==
    /\ At(p, "retention", "read policy")
    /\ proc' = IF policy = Torn THEN Exit(p, "system")
               ELSE [Goto(p, "keep policy") EXCEPT ![p].old = policy]
    /\ UNCHANGED <<files, lock, token, policy, ops, custody, remote, day, faults>>

\* The second read, of the bytes a rollback would put back.
KeepPolicy(p) ==
    /\ At(p, "retention", "keep policy")
    /\ proc' = [Goto(p, "save policy") EXCEPT ![p].raw = policy]
    /\ UNCHANGED <<files, lock, token, policy, ops, custody, remote, day, faults>>

\* saveATBConfig; a policy is named by the process that set it.
SavePolicy(p) ==
    /\ At(p, "retention", "save policy")
    /\ \/ Holds /\ policy' = p /\ proc' = Touched(Goto(p, "audit"), p)
       \/ Fails /\ policy' \in {policy, Torn} /\ proc' = Touched(Exit(p, "system"), p)
    /\ UNCHANGED <<files, lock, token, ops, custody, remote, day>>

PolicyEvent(p) == Rec("policy", p, IF proc[p].old = NoPolicy THEN <<>>
                                   ELSE <<proc[p].old>>)

\* A plausible bug: a failed audit only reports the error.
AuditPolicyKept(p) ==
    /\ \/ At(p, "retention", "audit") /\ LoadAudit(p, "audit save") /\ UNCHANGED ops
       \/ At(p, "retention", "audit save") /\ SaveAudit(p, PolicyEvent(p), "ok", "system")
    /\ UNCHANGED <<files, lock, token, policy, custody, remote, day>>

AuditPolicy(p) ==
    /\ \/ At(p, "retention", "audit") /\ LoadAudit(p, "audit save") /\ UNCHANGED ops
       \/ At(p, "retention", "audit save") /\ SaveAudit(p, PolicyEvent(p), "ok", "rollback")
    /\ UNCHANGED <<files, lock, token, policy, custody, remote, day>>

RollbackConfig(p) ==
    /\ At(p, "retention", "rollback")
    /\ \/ Holds /\ policy' = proc[p].raw /\ proc' = Touched(Exit(p, "system"), p)
       \/ Fails /\ policy' \in {policy, Torn} /\ proc' = Touched(Exit(p, "unaudited"), p)
    /\ UNCHANGED <<files, lock, token, ops, custody, remote, day>>

-----------------------------------------------------------------------------
(* The ledger of archived bundles, and atb archive.                        *)

\* Verify: every entry has its number and names the entry before it.
Verifies(l) == \A i \in DOMAIN l :
                 /\ l[i].seq = i
                 /\ l[i].prev = IF i = 1 THEN Nobody ELSE l[i - 1].by

\* A plausible bug: the number of the last entry is used again.
NextEntryStale(l, p, sha, head) ==
    [seq |-> Len(l), prev |-> IF l = <<>> THEN Nobody ELSE l[Len(l)].by, by |-> p,
     dest |-> proc[p].d, sha |-> sha, head |-> head]

\* NextEntry: the hash of an entry stands for the process that appended it.
NextEntry(l, p, sha, head) ==
    [seq |-> Len(l) + 1, prev |-> IF l = <<>> THEN Nobody ELSE l[Len(l)].by, by |-> p,
     dest |-> proc[p].d, sha |-> sha, head |-> head]

\* A line a failed Append has left unfinished.
TornEntry == [seq |-> 0, prev |-> Nobody, by |-> Nobody, dest |-> 0,
              sha |-> Absent, head |-> Absent]

\* After a bundle that is skipped: the audit, or the end of a preview.
Skip(p) == IF proc[p].opt.dry THEN Exit(p, "ok") ELSE Goto(p, "audit")

\* The policy, the candidates and the ledger are read.
ArchiveBegin(p) ==
    /\ At(p, "archive", "begin")
    /\ proc' = IF \/ policy = Torn
                  \/ policy = NoPolicy /\ ~proc[p].opt.before
                  \/ ~Verifies(ledger)
               THEN Exit(p, "system")
               ELSE [(IF file = Absent THEN Skip(p) ELSE Goto(p, "check"))
                       EXCEPT ![p].l = ledger]
    /\ UNCHANGED <<files, lock, token, policy, ops, custody, remote, day, faults>>

\* Bundles last written before the cutoff are due: a date given with --before,
\* which may lie ahead, or the days of the policy before the day it began.
Due(p) == saved < proc[p].d + (IF proc[p].opt.before THEN 1 ELSE 0)

ArchiveCheck(p) ==
    /\ At(p, "archive", "check")
    /\ proc' = IF file = Absent \/ ~Due(p) THEN Skip(p)
               ELSE [Goto(p, "hash") EXCEPT ![p].b = file]
    /\ UNCHANGED <<files, lock, token, policy, ops, custody, remote, day, faults>>

\* computeFileSHA256 reads the file again; a preview ends here.
ArchiveHash(p) ==
    /\ At(p, "archive", "hash")
    /\ proc' = IF file = Absent \/ proc[p].opt.dry THEN Skip(p)
               ELSE [Goto(p, "move") EXCEPT ![p].h = file]
    /\ UNCHANGED <<files, lock, token, policy, ops, custody, remote, day, faults>>

\* What lies at the destination once p's file is there.
Placed(p, b) == [archive EXCEPT ![proc[p].d] = [by |-> p, b |-> b, m |-> saved]]

\* moveFile: a rename; or a copy, which may stop short, and a removal, which may
\* fail and leave both.
ArchiveMove(p) ==
    /\ At(p, "archive", "move")
    /\ \/ /\ file = Absent
          /\ proc' = Skip(p) /\ Holds /\ UNCHANGED <<file, archive>>
       \/ /\ file # Absent /\ Holds
          /\ archive' = Placed(p, file) /\ file' = Absent
          /\ proc' = Touched(Goto(p, "record"), p)
       \/ /\ file # Absent /\ Fails
          /\ archive' \in {archive, Placed(p, file), Placed(p, Absent)}
          /\ proc' = Touched(Skip(p), p) /\ UNCHANGED file
    /\ UNCHANGED <<saved, lock, token, policy, ops, ledger, remote, day>>

ArchiveRecord(p) ==
    /\ At(p, "archive", "record")
    /\ LET entry == NextEntry(proc[p].l, p, proc[p].h, proc[p].b) IN
       \/ /\ Holds
          /\ ledger' = Append(ledger, entry)
          /\ proc' = Touched([Goto(p, "recreate") EXCEPT ![p].l = Append(@, entry)], p)
       \/ /\ Fails
          /\ ledger' \in {ledger, Append(ledger, TornEntry)}
          /\ proc' = Touched(Goto(p, "restore"), p)
    /\ UNCHANGED <<files, lock, token, policy, ops, archive, remote, day>>

\* The move back, over whatever has been created in its place.
ArchiveRestore(p) ==
    /\ At(p, "archive", "restore")
    /\ \/ /\ Holds /\ archive[proc[p].d].b # Absent
          /\ file' = archive[proc[p].d].b /\ saved' = archive[proc[p].d].m
          /\ archive' = [archive EXCEPT ![proc[p].d] = Empty]
       \/ /\ (Fails \/ (archive[proc[p].d].b = Absent /\ Holds))
          /\ UNCHANGED <<files, archive>>
    /\ proc' = Touched(Goto(p, "audit"), p)
    /\ UNCHANGED <<lock, token, policy, ops, ledger, remote, day>>

\* The default bundle is created anew.
ArchiveRecreate(p) ==
    /\ At(p, "archive", "recreate")
    /\ SaveBundle(p, Fresh(p), "audit")
    /\ UNCHANGED <<lock, token, policy, ops, custody, remote, day>>

\* The event names the ledger's head as the command knows it.
EnforcedEvent(p) == Rec("archive", p, IF proc[p].l = <<>> THEN <<>>
                                      ELSE <<proc[p].l[Len(proc[p].l)].by>>)

AuditArchive(p) ==
    /\ \/ At(p, "archive", "audit") /\ LoadAudit(p, "audit save") /\ UNCHANGED ops
       \/ At(p, "archive", "audit save") /\ SaveAudit(p, EnforcedEvent(p), "ok", "system")
    /\ UNCHANGED <<files, lock, token, policy, custody, remote, day>>

-----------------------------------------------------------------------------
(* atb push.                                                               *)

\* The bundle is loaded for its head, which names the object.
PushLoad(p) ==
    /\ At(p, "push", "load")
    /\ proc' = IF file = Absent THEN Exit(p, "user")
               ELSE [Goto(p, "read") EXCEPT ![p].b = file]
    /\ UNCHANGED <<files, lock, token, policy, ops, custody, remote, day, faults>>

\* The bytes to push are read again; a preview ends here.
PushRead(p) ==
    /\ At(p, "push", "read")
    /\ proc' = IF file = Absent THEN Exit(p, "system")
               ELSE IF proc[p].opt.dry THEN Exit(p, "ok")
               ELSE [Goto(p, IF proc[p].opt.target THEN "put" ELSE "queue")
                       EXCEPT ![p].h = file]
    /\ UNCHANGED <<files, lock, token, policy, ops, custody, remote, day, faults>>

\* ObjectKey, and the request's body.
Object(p) == [by |-> p, key |-> proc[p].b, body |-> proc[p].h]

AfterPut(p) == IF proc[p].opt.lock THEN Goto(p, "audit")
               ELSE IF proc[p].opt.queue THEN Goto(p, "queue") ELSE Exit(p, "ok")

\* PutObject; a request that fails may have reached the bucket.
PushPut(p) ==
    /\ At(p, "push", "put")
    /\ LET put == {o \in objects : o.key # proc[p].b} \cup {Object(p)} IN
       \/ Holds /\ objects' = put /\ proc' = AfterPut(p)
       \/ Fails /\ objects' \in {objects, put} /\ proc' = Exit(p, "system")
    /\ UNCHANGED <<files, lock, token, policy, ops, custody, queue, day>>

LockEvent(p) == Rec("lock", p, proc[p].b)

AuditLock(p) ==
    /\ \/ At(p, "push", "audit") /\ LoadAudit(p, "audit save") /\ UNCHANGED ops
       \/ /\ At(p, "push", "audit save")
          /\ SaveAudit(p, LockEvent(p), IF proc[p].opt.queue THEN "queue" ELSE "ok", "system")
    /\ UNCHANGED <<files, lock, token, policy, custody, remote, day>>

\* QueuePusher.Push: the head and the digest of the bytes.
PushQueue(p) ==
    /\ At(p, "push", "queue")
    /\ \/ Holds /\ queue' = queue \cup {Object(p)} /\ proc' = Exit(p, "ok")
       \/ Fails /\ queue' \in {queue, queue \cup {Object(p)}} /\ proc' = Exit(p, "system")
    /\ UNCHANGED <<files, lock, token, policy, ops, custody, objects, day>>

CustodyStep(p) ==
    \/ ReadPolicy(p) \/ KeepPolicy(p) \/ SavePolicy(p) \/ AuditPolicy(p) \/ RollbackConfig(p)
    \/ ArchiveBegin(p) \/ ArchiveCheck(p) \/ ArchiveHash(p) \/ ArchiveMove(p)
    \/ ArchiveRecord(p) \/ ArchiveRestore(p) \/ ArchiveRecreate(p) \/ AuditArchive(p)
    \/ PushLoad(p) \/ PushRead(p) \/ PushPut(p) \/ AuditLock(p) \/ PushQueue(p)
=============================================================================

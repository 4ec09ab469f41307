------------------------------ MODULE Project ------------------------------
(***************************************************************************)
(* The commands of the atb command line running against one project, in    *)
(* processes of their own, and what they promise of the files they leave.  *)
(* A process is alone while no other has written since it began: several   *)
(* commands read a file twice and are right only then.                     *)
(***************************************************************************)
EXTENDS BundleCommands, CustodyCommands

ProjectNext ==
    \/ \E p \in Proc, c \in Command : \E o \in Options[c] : Start(p, c, o)
    \/ \E p \in Proc : Refuse(p) \/ Kill(p) \/ BundleStep(p) \/ CustodyStep(p)
    \/ Tomorrow

ProjectSpec == ProjectInit /\ [][ProjectNext]_projectVars

-----------------------------------------------------------------------------
Bundles == {file} \cup {archive[d].b : d \in 0 .. MaxDay} \cup {o.body : o \in objects}

Alone(p) == p \in Proc => proc[p].alone
AllAlone == \A p \in Proc : Alone(p)

\* Record i of b names the records before it.
NamesPrefix(b, i) == b[i].of = SubSeq(b, 1, i - 1)

\* Snapshots name their prefix: in every bundle on disk or in the bucket a
\* snapshot's hash is that of the records before it, whatever other commands
\* did between its load and its save.
SnapshotNamesItsPrefix ==
    \A b \in Bundles : \A i \in DOMAIN b : b[i].k = "snapshot" => NamesPrefix(b, i)

\* Signatures name their prefix: a signature is over the records before it,
\* also when the bundle changed between sign's check and its lock, and when the
\* first signer failed.
SignatureNamesItsPrefix ==
    \A b \in Bundles : \A i \in DOMAIN b : b[i].k = "sign" => NamesPrefix(b, i)

\* The lock is held by a sign command between its read and its write, whatever
\* failed and whoever was killed: no command finds the bundle locked for ever.
LockIsHeldBySigner ==
    lock # Nobody => proc[lock].cmd = "sign" /\ proc[lock].pc \in {"read", "sign", "write"}

\* An anchor made by a command that ran alone verifies as long as its token is
\* the one beside the bundle: a later command that succeeds or fails, and a
\* kill, leave it so.
AnchorVerifies ==
    AllAlone /\ (token.by \in Proc => proc[token.by].exit = "ok")
        => VerifyAnchor(file, token)

\* An object pushed by a command that ran alone has its body's head as its key,
\* and so has its envelope.
KeyNamesBody == \A o \in objects \cup queue : Alone(o.by) => o.key = o.body

\* What the contract of atb push says without the condition.
AlwaysKeyNamesBody == \A o \in objects : o.key = o.body

\* The bucket comes first: an audit event that says a lock was accepted, and an
\* envelope of a push that has a target, follow an object under that key.
UploadComesFirst ==
    /\ \A i \in DOMAIN ops : ops[i].k = "lock" => \E o \in objects : o.key = ops[i].of
    /\ \A e \in queue : proc[e.by].opt.target => \E o \in objects : o.key = e.key

\* The ledger verifies, but for lines a failed write left, unless archives
\* overlapped another command's writes.
LedgerVerifies ==
    (\A p \in Proc : proc[p].cmd = "archive" => Alone(p))
        => Verifies(SelectSeq(ledger, LAMBDA e : e # TornEntry))

\* The bundle an entry of the ledger points at has the digest and the head the
\* entry gives, unless a later archive of that day has taken its place.
ArchivedMatchesLedger ==
    \A i \in DOMAIN ledger : LET e == ledger[i] IN
        (e # TornEntry /\ Alone(e.by) /\ archive[e.dest].by = e.by)
            => archive[e.dest].b = e.sha /\ e.head = e.sha

\* A policy in force has its audit event, unless commands overlapped, one was
\* killed, or the rollback failed too and said so.
RetentionAudited ==
    (/\ policy \in Proc /\ proc[policy].pc = "done" /\ proc[policy].exit # "unaudited"
     /\ AllAlone /\ \A q \in Proc : proc[q].pc # "dead")
        => \E i \in DOMAIN ops : ops[i].k = "policy" /\ ops[i].by = policy

\* The comment on rollbackConfig without those conditions, once every command
\* has ended.
PolicyNeverUnaudited ==
    (policy \in Proc /\ \A q \in Proc : proc[q].pc \in {"done", "dead"})
        => \E i \in DOMAIN ops : ops[i].k = "policy" /\ ops[i].by = policy

\* The step of process p.
Steps(p) == proc'[p].pc # proc[p].pc
Kept(old, new) == Len(old) <= Len(new) /\ SubSeq(new, 1, Len(old)) = old
BundleCommand == {"init", "append", "corroborate", "snapshot", "sign", "anchor"}

\* A command that appends and runs alone keeps every record of the bundle.
AppendKeepsRecords ==
    [][\A p \in Proc : Steps(p) /\ proc[p].cmd \in BundleCommand /\ proc[p].alone
         => Kept(file, file')]_projectVars

\* Sign loses no record to a command that appends: the lock is held from the read
\* to the write.  Archives are left out, they move the file without the lock.
SignLosesNothing ==
    [][\A p \in Proc : /\ Steps(p) /\ At(p, "sign", "write")
                       /\ \A q \in Proc : proc[q].cmd # "archive"
         => Kept(file, file')]_projectVars

\* An archive that runs alone loses no bundle but one its destination held: at
\* every step, failures included, the project's bundle is in place or archived.
ArchiveLosesNothing ==
    [][\A p \in Proc : Steps(p) /\ proc[p].cmd = "archive" /\ proc[p].alone
         => file \in {Absent, file'} \cup {archive'[d].b : d \in 0 .. MaxDay}]_projectVars

\* A preview writes nothing.
PreviewWritesNothing ==
    [][\A p \in Proc : Steps(p) /\ proc[p].opt.dry
         => UNCHANGED <<files, token, policy, ops, custody, remote>>]_projectVars

\* What snapshots and signatures name is the prefix they follow, the lock that
\* makes it so for signatures is always given back, and an anchor verifies.
SigningIsSound ==
    SnapshotNamesItsPrefix /\ SignatureNamesItsPrefix /\ LockIsHeldBySigner /\ AnchorVerifies

\* What leaves the project is what the records of it say: objects in the bucket
\* and their envelopes, archived bundles and the ledger's entries.
CustodyIsTrue == KeyNamesBody /\ UploadComesFirst /\ LedgerVerifies /\ ArchivedMatchesLedger

\* No command loses records it found: neither one that appends, nor sign beside
\* others, nor an archive, nor a preview.
CommandsKeepRecords ==
    AppendKeepsRecords /\ SignLosesNothing /\ ArchiveLosesNothing /\ PreviewWritesNothing
=============================================================================

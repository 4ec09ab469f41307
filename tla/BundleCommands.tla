--------------------------- MODULE BundleCommands ---------------------------
(***************************************************************************)
(* The commands that append to the bundle of a project: atb init, append,  *)
(* corroborate, snapshot, anchor and sign.  All but sign load the bundle,  *)
(* append to their copy and save the copy; sign reads and replaces the     *)
(* file under its lock.                                                    *)
(***************************************************************************)
EXTENDS ProjectFiles

others == <<token, policy, ops, custody, remote, day>>

-----------------------------------------------------------------------------
(* atb init.                                                               *)

InitStat(p) ==
    /\ At(p, "init", "stat")
    /\ proc' = IF file # Absent \/ proc[p].opt.dry THEN Exit(p, "ok")
                                                   ELSE Goto(p, "save")
    /\ UNCHANGED <<files, lock, others, faults>>

InitSave(p) ==
    /\ At(p, "init", "save")
    /\ SaveBundle(p, Fresh(p), "ok")
    /\ UNCHANGED <<lock, others>>

-----------------------------------------------------------------------------
(* atb append, corroborate and snapshot: load, append to the copy, save.   *)

\* The receipt of an external system, fetched before the bundle is loaded.
Fetch(p) ==
    /\ At(p, "corroborate", "fetch")
    /\ \/ proc' = Goto(p, "load") /\ Holds
       \/ proc' = Exit(p, "system") /\ Fails
    /\ UNCHANGED <<files, lock, others>>

\* A missing bundle is created; only when the copy is saved does it exist.
Loaded(p) == IF file = Absent THEN Fresh(p) ELSE file

LoadBundle(p) ==
    /\ At(p, "append", "load") \/ At(p, "corroborate", "load")
    /\ proc' = [Goto(p, "save") EXCEPT ![p].b = Loaded(p)]
    /\ UNCHANGED <<files, lock, others, faults>>

SaveAppended(p) ==
    /\ At(p, "append", "save") \/ At(p, "corroborate", "save")
    /\ \/ proc[p].opt.dry /\ proc' = Exit(p, "ok") /\ UNCHANGED <<files, faults>>
       \/ /\ ~proc[p].opt.dry
          /\ SaveBundle(p, Append(proc[p].b, Rec(proc[p].cmd, p, Absent)), "ok")
    /\ UNCHANGED <<lock, others>>

\* loadSnapshotBundle, with RequireExisting: a missing bundle is refused.
SnapshotLoad(p) ==
    /\ At(p, "snapshot", "load")
    /\ proc' = IF file = Absent THEN Exit(p, "user")
               ELSE [Goto(p, "save") EXCEPT ![p].b = file]
    /\ UNCHANGED <<files, lock, others, faults>>

\* The snapshot names the records of the copy it is appended to.
SnapshotRecord(p) == Rec("snapshot", p, proc[p].b)

SnapshotSave(p) ==
    /\ At(p, "snapshot", "save")
    /\ \/ proc[p].opt.dry /\ proc' = Exit(p, "ok") /\ UNCHANGED <<files, faults>>
       \/ ~proc[p].opt.dry /\ SaveBundle(p, Append(proc[p].b, SnapshotRecord(p)), "ok")
    /\ UNCHANGED <<lock, others>>

-----------------------------------------------------------------------------
(* atb anchor: the file is read twice, the token is written before the     *)
(* record that names it.                                                   *)

AnchorLoad(p) ==
    /\ At(p, "anchor", "load")
    /\ proc' = IF file = Absent THEN Exit(p, "user")
               ELSE [Goto(p, "hash") EXCEPT ![p].b = file]
    /\ UNCHANGED <<files, lock, others, faults>>

\* A plausible bug: the digest is taken of the bundle with the new record.
AnchorHashLate(p) ==
    /\ At(p, "anchor", "hash")
    /\ proc' = [Goto(p, "request") EXCEPT ![p].h = Append(file, Rec("anchor", p, Absent))]
    /\ UNCHANGED <<files, lock, others, faults>>

\* HashBundle reads the file again.
AnchorHash(p) ==
    /\ At(p, "anchor", "hash")
    /\ proc' = IF file = Absent THEN Exit(p, "user")
               ELSE [Goto(p, "request") EXCEPT ![p].h = file]
    /\ UNCHANGED <<files, lock, others, faults>>

\* Request: the timestamp authority answers, or does not; the answer is kept
\* beside the bundle even when ParseGenTime then refuses it.
AnchorRequest(p) ==
    /\ At(p, "anchor", "request")
    /\ LET answer == Token(p, proc[p].h) IN
       \/ token' = answer /\ proc' = Touched(Goto(p, "save"), p) /\ Holds
       \/ token' \in {token, answer} /\ proc' = Touched(Exit(p, "system"), p) /\ Fails
    /\ UNCHANGED <<files, lock, policy, ops, custody, remote, day>>

AnchorSave(p) ==
    /\ At(p, "anchor", "save")
    /\ SaveBundle(p, Append(proc[p].b, Rec("anchor", p, proc[p].h)), "ok")
    /\ UNCHANGED <<lock, others>>

\* The latest anchor of a bundle, 0 without one.
LatestAnchor(b) ==
    LET anchors == {i \in DOMAIN b : b[i].k = "anchor"}
    IN  IF anchors = {} THEN 0 ELSE CHOOSE i \in anchors : \A j \in anchors : j <= i

\* hashBundleSnapshotBeforeAnchor: the digest of the records before anchor i.
BeforeAnchor(b, i) == SubSeq(b, 1, i - 1)

\* verifyBundleAnchor: the token beside the bundle is the one the latest anchor
\* names, and its digest is of the records before that; without an anchor or a
\* token there is nothing to verify.
VerifyAnchor(b, tok) ==
    LET i == LatestAnchor(b) IN
    i # 0 /\ tok # NoToken => /\ tok = Token(b[i].by, b[i].of)
                             /\ b[i].of = BeforeAnchor(b, i)

-----------------------------------------------------------------------------
(* atb sign.                                                               *)

\* signBundle loads and verifies the bundle before it takes the lock.
SignLoad(p) ==
    /\ At(p, "sign", "load")
    /\ proc' = IF file = Absent THEN Exit(p, "user") ELSE Goto(p, "lock")
    /\ UNCHANGED <<files, lock, others, faults>>

\* A plausible bug: the bundle is read before its lock is taken.
SignLockLate(p) ==
    /\ At(p, "sign", "lock")
    /\ \/ lock = Nobody /\ proc' = [Goto(p, "sign") EXCEPT ![p].h = file]
       \/ lock # Nobody /\ proc' = Exit(p, "locked")
    /\ UNCHANGED <<files, lock, others, faults>>

SignLock(p) ==
    /\ At(p, "sign", "lock")
    /\ \/ lock = Nobody /\ lock' = p /\ proc' = Goto(p, "read")
       \/ lock # Nobody /\ proc' = Exit(p, "locked") /\ UNCHANGED lock
    /\ UNCHANGED <<files, others, faults>>

\* SignToWithSignerRetry fails: the lock is released; with --fallback-local the
\* local key tries once more from the start.
SignFailed(p) == IF proc[p].opt.fallback
                 THEN [Goto(p, "lock") EXCEPT ![p].opt.fallback = FALSE]
                 ELSE Exit(p, "system")
Released(p) == IF lock = p THEN Nobody ELSE lock

\* The one read all of the signature is derived from.
SignRead(p) ==
    /\ At(p, "sign", "read")
    /\ \/ file = Absent /\ proc' = SignFailed(p) /\ lock' = Released(p)
       \/ file # Absent /\ proc' = [Goto(p, "sign") EXCEPT ![p].h = file] /\ UNCHANGED lock
    /\ UNCHANGED <<files, others, faults>>

\* The signer signs the digest, or fails.
SignDigest(p) ==
    /\ At(p, "sign", "sign")
    /\ \/ Holds /\ proc' = Goto(p, "write") /\ UNCHANGED lock
       \/ Fails /\ proc' = SignFailed(p) /\ lock' = Released(p)
    /\ UNCHANGED <<files, others>>

\* A plausible bug: the record is appended to the file as it is now.
SignWriteInPlace(p) ==
    /\ At(p, "sign", "write")
    /\ Holds /\ Replaced(Append(file, Rec("sign", p, proc[p].h)))
    /\ proc' = Touched(Exit(p, "ok"), p)
    /\ lock' = Released(p)
    /\ UNCHANGED others

\* appendSignedRecord: the bytes that were read, and the record after them.
SignWrite(p) ==
    /\ At(p, "sign", "write")
    /\ LET signed == Append(proc[p].h, Rec("sign", p, proc[p].h)) IN
       \/ /\ Holds /\ Replaced(signed)
          /\ proc' = Touched(Exit(p, "ok"), p)
       \/ /\ Fails /\ proc' = Touched(SignFailed(p), p)
          /\ UNCHANGED files \/ Replaced(signed)
    /\ lock' = Released(p)
    /\ UNCHANGED others

BundleStep(p) ==
    \/ InitStat(p) \/ InitSave(p)
    \/ Fetch(p) \/ LoadBundle(p) \/ SaveAppended(p) \/ SnapshotLoad(p) \/ SnapshotSave(p)
    \/ AnchorLoad(p) \/ AnchorHash(p) \/ AnchorRequest(p) \/ AnchorSave(p)
    \/ SignLoad(p) \/ SignLock(p) \/ SignRead(p) \/ SignDigest(p) \/ SignWrite(p)
=============================================================================

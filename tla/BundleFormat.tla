---------------------------- MODULE BundleFormat ----------------------------
(***************************************************************************)
(* One bundle file, line by line: how atb reads, extends, rewrites, signs  *)
(* and verifies it, and what becomes of its hash chain and its signatures  *)
(* when the file was written by an older version, edited by hand or        *)
(* damaged in between.                                                     *)
(*                                                                         *)
(* A line is a record or blank, with the bytes that end it.  The hash of a *)
(* record is what is hashed, so that equal hashes are equal inputs; the    *)
(* digest of a file is its lines.                                          *)
(***************************************************************************)
EXTENDS Naturals, Sequences, FiniteSets

CONSTANTS RecordLimit,     \* MaxBundleRecords
          MaxLines,       \* bound: lines of the file
          MaxEdits        \* bound: edits by hand

VARIABLES text,       \* the lines of the file
          edits,      \* the kinds of edits made, as a set
          changes     \* edits made

formatVars == <<text, edits, changes>>

Genesis == <<>>
Blank == [k |-> "blank", seq |-> 0, prev |-> <<>>, acq |-> FALSE, of |-> <<>>,
          man |-> [form |-> "none", shape |-> "none", v |-> 0], hash |-> <<>>]
NoManifest == Blank.man
Line(r) == [rec |-> r, cr |-> FALSE, lf |-> TRUE]

-----------------------------------------------------------------------------
(* The manifest record.                                                    *)

\* manifestVersionToInt; 99 stands for an error.
Bad == 99
VersionInt(m) == CASE m.shape = "none" -> 1
                   [] m.shape \in {"number", "text"} -> m.v
                   [] OTHER -> Bad

\* parseManifestDataV1, whose Version is a string, and parseManifestDataV2.
ParseV1(m) == IF m.shape = "number" THEN Bad ELSE VersionInt(m)
ParseV2(m) == IF m.shape \in {"number", "text"} /\ m.v \in {2, 3} THEN m.v ELSE Bad

\* parseManifestData: the version a manifest declares, or Bad.
ParseManifest(m) ==
    CASE VersionInt(m) > 3  -> Bad
      [] m.form = "string"  -> IF VersionInt(m) <= 1 THEN ParseV1(m) ELSE Bad
      [] m.form = "object"  -> ParseV2(m)
      [] OTHER              -> Bad

Manifests == [form : {"string", "object", "other"},
              shape : {"none", "number", "text", "other"}, v : 1 .. 4]

\* What NewWithOptions writes for a version.
NewManifest(v) == IF v = 1 THEN [form |-> "string", shape |-> "text", v |-> 1]
                  ELSE [form |-> "object", shape |-> "number", v |-> v]

-----------------------------------------------------------------------------
(* The hash chain.                                                         *)

HasManifest(rs) == rs # <<>> /\ rs[1].k = "manifest"

\* Compute: the hash covers the previous hash and the event.
Compute(prev, seq, r) == <<prev, seq, r.k, r.acq, r.of, r.man>>

\* Chain: the event that follows rs, with its number and its hash.
Seal(rs, r, seq) ==
    LET prev == IF rs = <<>> THEN Genesis ELSE rs[Len(rs)].hash
    IN  [r EXCEPT !.seq = seq, !.prev = prev, !.hash = Compute(prev, seq, r)]

\* AppendWithOptions refuses a second manifest, and an event with acquisition
\* unless the manifest declares version 3.
Appendable(rs, r) ==
    /\ r.k = "manifest" => rs = <<>>
    /\ r.acq /\ r.k # "manifest" => HasManifest(rs) /\ ParseManifest(rs[1].man) = 3

\* The first event has number 1 in a bundle without a manifest, as bundles
\* before version 1.0 were.
NextSeq(rs, r) == IF r.k = "manifest" THEN 0
                  ELSE IF HasManifest(rs) THEN Len(rs) ELSE Len(rs) + 1

AppendWithOptions(rs, r) == Append(rs, Seal(rs, r, NextSeq(rs, r)))

\* A plausible bug: the previous hash of each record is taken from the file.
VerifyFromStored(rs, first) ==
    \A i \in DOMAIN rs :
        /\ rs[i].seq = i - 1 + first
        /\ rs[i].hash = Compute(rs[i].prev, rs[i].seq, rs[i])

\* verifyManifestBundle and hash.Verify walk the chain with the hash computed
\* for the record before; they differ in the first number.
VerifyChain(rs, first) ==
    \A i \in DOMAIN rs :
        LET prev == IF i = 1 THEN Genesis ELSE rs[i - 1].hash IN
        /\ rs[i].seq = i - 1 + first
        /\ rs[i].prev = prev
        /\ rs[i].hash = Compute(prev, i - 1 + first, rs[i])

Verify(rs) == VerifyChain(rs, IF HasManifest(rs) THEN 0 ELSE 1)

-----------------------------------------------------------------------------
(* Reading and writing the file.                                           *)

\* The records of the lines, blank lines skipped.
RecordsOf(t) == LET rs == SelectSeq(t, LAMBDA l : l.rec # Blank)
                IN  [i \in DOMAIN rs |-> rs[i].rec]

\* LoadReaderWithLimits.
Loads(t) == LET rs == RecordsOf(t) IN
            /\ Len(rs) <= RecordLimit
            /\ HasManifest(rs) => ParseManifest(rs[1].man) # Bad

\* LoadVerified.
LoadsVerified(t) == Loads(t) /\ HasManifest(RecordsOf(t)) /\ Verify(RecordsOf(t))

\* saveUnlocked: one line for each record.
Encode(rs) == [i \in DOMAIN rs |-> Line(rs[i])]

\* The lines before line i, as they were read, and the same without the last
\* line feed, which a signature may have been made without.
PrefixWithLF(t, i) == SubSeq(t, 1, i - 1)
HasWithoutLF(t, i) == i > 1 /\ t[i - 1].lf /\ (t[i - 1].rec # Blank \/ t[i - 1].cr)
PrefixWithoutLF(t, i) == [SubSeq(t, 1, i - 1) EXCEPT ![i - 1].lf = FALSE]

\* A plausible bug: only the digest with the line feed is tried.
SignatureValidStrict(t, i) == t[i].rec.of = PrefixWithLF(t, i)

\* hashBundleSnapshotBeforeRecord and VerifyBundleSignature.
SignatureValid(t, i) ==
    \/ HasWithoutLF(t, i) /\ t[i].rec.of = PrefixWithoutLF(t, i)
    \/ t[i].rec.of = PrefixWithLF(t, i)

\* appendSignedRecord: the bytes as they are, ended if need be, and the record.
Terminated(t) == IF t = <<>> \/ t[Len(t)].lf THEN t ELSE [t EXCEPT ![Len(t)].lf = TRUE]

-----------------------------------------------------------------------------
Event(k, acq) == [Blank EXCEPT !.k = k, !.acq = acq]
ManifestRecord(m) == [Blank EXCEPT !.k = "manifest", !.man = m]

\* The file is new, of any version, or was written before there were manifests,
\* or has a manifest some other program wrote.
FormatInit ==
    /\ text \in {Encode(AppendWithOptions(<<>>, r)) :
                   r \in {ManifestRecord(m) : m \in Manifests} \cup {Event("event", FALSE)}}
    /\ edits = {} /\ changes = 0

\* A command loads the file, appends to its copy and saves it.  The whole file
\* is written anew.
AppendCommand(k, acq) ==
    /\ Len(text) < MaxLines
    /\ Loads(text)
    /\ Appendable(RecordsOf(text), Event(k, acq))
    /\ text' = Encode(AppendWithOptions(RecordsOf(text), Event(k, acq)))
    /\ UNCHANGED <<edits, changes>>

\* signToWithSignerLimited: the digest is of the bytes that were read.
SignCommand ==
    /\ Len(text) < MaxLines
    /\ Loads(text) /\ Verify(RecordsOf(text))
    /\ LET r == [Event("signature", FALSE) EXCEPT !.of = text]
           sealed == AppendWithOptions(RecordsOf(text), r)
       IN  text' = Append(Terminated(text), Line(sealed[Len(sealed)]))
    /\ UNCHANGED <<edits, changes>>

\* The file is edited by hand: its layout, or its records.
Edit(kind, t) ==
    /\ changes < MaxEdits /\ t # text
    /\ text' = t /\ edits' = edits \cup {kind} /\ changes' = changes + 1

EditLayout ==
    \/ Edit("unterminated", [text EXCEPT ![Len(text)].lf = FALSE])
    \/ \E i \in DOMAIN text : Edit("layout", [text EXCEPT ![i].cr = TRUE])
    \/ /\ Len(text) < MaxLines
       /\ Edit("layout", Append(Terminated(text), Line(Blank)))

\* A record is changed, removed from before another one, or exchanged with the
\* next.
EditRecords ==
    /\ "record" \notin edits
    /\ \/ \E i \in DOMAIN text, k \in {"event", "manifest"} :
            text[i].rec # Blank /\ Edit("record", [text EXCEPT ![i].rec.k = k])
       \/ \E i \in 1 .. Len(text) - 1 : /\ text[i].rec # Blank /\ text[i + 1].rec # Blank
            /\ \/ Edit("record", SubSeq(text, 1, i - 1) \o SubSeq(text, i + 1, Len(text)))
               \/ Edit("record", [text EXCEPT ![i] = text[i + 1], ![i + 1] = text[i]])

FormatNext ==
    \/ \E k \in {"event", "manifest"}, acq \in BOOLEAN : AppendCommand(k, acq)
    \/ SignCommand \/ EditLayout \/ EditRecords

FormatSpec == FormatInit /\ [][FormatNext]_formatVars

-----------------------------------------------------------------------------
Records == RecordsOf(text)
Intact == "record" \notin edits

\* The chain holds: whatever commands ran, and whatever was done to the layout,
\* the bundle verifies, in the numbering of its version.
ChainHolds == Intact => Verify(Records)

\* Damage stays visible: a record changed, removed or exchanged by hand is found
\* by every later verification, however many commands have rewritten the file
\* since; no command repairs the chain.
DamageIsFound == Intact \/ ~Verify(Records)

\* A signature stays valid through appends, which write the file anew, also one
\* made while the file lacked its final line feed.
SignatureStaysValid ==
    edits \subseteq {"unterminated"} =>
        \A i \in DOMAIN text : text[i].rec.k = "signature" => SignatureValid(text, i)

\* Events with acquisition are only in bundles that declare it: a reader from
\* before it refuses the bundle instead of computing other hashes.
AcquisitionIsDeclared ==
    Intact => \A i \in DOMAIN Records :
                Records[i].acq => HasManifest(Records) /\ ParseManifest(Records[1].man) = 3

\* A manifest that is accepted declares the version its form stands for: 2 and 3
\* are structured, and no version is read in two ways.
ManifestReadOneWay ==
    HasManifest(Records) /\ Loads(text) =>
        LET m == Records[1].man IN
        /\ ParseManifest(m) = VersionInt(m)
        /\ (m.form = "object") = (ParseManifest(m) \in {2, 3})

\* What a command saved loads again, unless it was the one that passed the limit
\* on records: the limit is checked by readers only.
SavedLoads ==
    (edits = {} /\ Len(Records) > 1 /\ HasManifest(Records)) =>
        LoadsVerified(text) \/ Len(Records) = RecordLimit + 1

\* The file says what happened to it: its chain verifies exactly if no record was
\* changed by hand, its version is read in one way and covers its events, and
\* what a command saved loads again.
FileIsSound ==
    ChainHolds /\ DamageIsFound /\ AcquisitionIsDeclared /\ ManifestReadOneWay /\ SavedLoads
=============================================================================

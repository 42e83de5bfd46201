----------------------- MODULE AzureBlobPollingProofs -----------------------
(* The proofs for AzureBlobPolling.  The inductive invariant IInv says     *)
(* what every entry of the checkpoint, in memory, stored or taken out for  *)
(* finalization, and every goroutine knows about its blob: an entry whose  *)
(* fingerprint begins with the first unit of the blob in the container has *)
(* an offset under which everything was delivered from that very blob, and *)
(* what a goroutine holds between its reads is from one generation of the  *)
(* blob, which is the entry's or a later one.  Both survive a write at any *)
(* moment because a write either lengthens the generation there is or      *)
(* starts another; only a blob past its writing period is ever finalized.  *)
(* OnceInv, further down, is the converse, while no checkpoint is lost:    *)
(* nothing past an offset was delivered.  LossInv says that the next       *)
(* window reaches back to every blob that holds a record no one has and    *)
(* that has no entry.                                                      *)
EXTENDS AzureBlobPolling, FiniteSetTheorems, SequenceTheorems, TLAPS

Ends == {"none", "open", "cut"}

Units == [gen : Nat, pos : Nat, end : Ends]

Progress ==
    [off : 0 .. MaxLen + 1, fp : Seq(Units), lm : Nat, quarantined : BOOLEAN,
     sealed : BOOLEAN, err : BOOLEAN, fails : Nat]

Checkpoints ==
    [lp : Nat, progress : [Blobs -> Progress \cup {None}], ts : Nat,
     parsed : SUBSET Blobs]

BlobStates ==
    [gen : 0 .. MaxGen, len : 0 .. MaxLen, tail : Ends, mtime : Nat, there : BOOLEAN]

JobStates ==
    [pc : {"none", "start", "head", "tail", "consume", "whole", "read"}, lm : Nat,
     off : 0 .. MaxLen + 1, fp : Seq(Units), head : Seq(Units), data : Seq(Units)]

\* The types of the variables but for the blobs, entries and jobs, and the
\* order of the times: the window of an incremental poll reaches at least the
\* revisit window back.
Scalars ==
    /\ cfg \in Scenarios /\ now \in 1 .. Horizon
    /\ gone \subseteq Blobs /\ warned \subseteq Blobs /\ twice \subseteq delivered
    /\ since \in Int /\ forgot \in BOOLEAN
    /\ poll \in [pc : {"idle", "listing", "finalize"}, start : Int, end : Nat]
    /\ todo \subseteq Blobs /\ lastBlob \in Blobs \cup {None}
    /\ phase \in {"running", "stopping", "down"} /\ failures \in 0 .. cfg.faults
    /\ cp.lp <= now /\ saved.lp <= now /\ poll.end <= now
    /\ poll.pc # "idle" /\ isIncrementalFormat => poll.start <= poll.end - RevisitWindow

Shapes ==
    /\ blob \in [Blobs -> BlobStates] /\ job \in [Blobs -> JobStates]
    /\ cp \in Checkpoints /\ saved \in Checkpoints
    /\ aged \in [Blobs -> Progress \cup {None}]

\* Only the last unit is incomplete.
Tidy(s) == \A i \in 1 .. Len(s) - 1 : s[i].end = "none"

\* Nothing is written to the blob any more.
Closed(b) == now > PathTime(b) + Period

\* The first n units of the blob there is were delivered.
Has(b, n) == \A i \in 1 .. n : <<b, blob[b].gen, i>> \in delivered

\* They are complete, or they end with the last one of a blob that is sealed.
Within(b, n) ==
    n <= blob[b].len \/ (Closed(b) /\ n = blob[b].len + 1 /\ TailIsRecord(blob[b].tail))

\* What an offset and a fingerprint say of the blob.  A fingerprint is of the
\* blob there is or of one it replaced; an offset without one is from a flush.
Covers(b, off, fp) ==
    /\ fp # <<>> => fp[1].gen <= blob[b].gen
    /\ fp = <<>> /\ off > 0 => Closed(b)
    /\ fp = <<>> \/ fp[1].gen = blob[b].gen => Has(b, off) /\ Within(b, off)

\* All records of the blob were delivered.
Read(b) == RecordsOf(b, Content(b)) \subseteq delivered

\* What an entry says of its blob.  The offset of a gzip blob only says that it
\* was read, which another write would belie.
Sound(b, p) ==
    p # None =>
        /\ isIncrementalFormat /\ blob[b].gen > 0
        /\ p.lm \in PathTime(b) .. now /\ Len(p.fp) <= FpSize
        /\ ~Gzip(b) => Covers(b, p.off, p.fp)
        /\ Gzip(b) /\ ~GzipRewritten => p.quarantined \/ (p.err /\ p.off = 0) \/ Read(b)

\* The tail a goroutine has read is from one generation d of the blob: the one
\* of the head it checked, or one that replaced it since.
DataSound(b, j) ==
    \E d \in 1 .. blob[b].gen :
        /\ \A i \in 1 .. Len(j.data) : j.data[i].gen = d /\ j.data[i].pos = j.off + i
        /\ j.off > 0 => IF j.fp = <<>> THEN d = blob[b].gen ELSE j.fp[1].gen <= d
        /\ d = blob[b].gen =>
            \A i \in 1 .. Len(j.data) : j.data[i].end = "none" => j.off + i <= blob[b].len

\* What a goroutine knows between its reads.
JobSound(b, j) ==
    /\ Len(j.fp) <= FpSize /\ Len(j.head) <= FpSize
    /\ Tidy(j.data) /\ j.off + Len(j.data) <= MaxLen + 1
    /\ j.pc # "none" => j.lm \in PathTime(b) .. now /\ blob[b].gen > 0
    /\ j.pc = "start" => j.off = 0 /\ j.fp = <<>> /\ j.head = <<>> /\ j.data = <<>>
    /\ j.pc \in {"head", "tail", "consume"} => useIncremental(b) /\ Covers(b, j.off, j.fp)
    /\ j.pc = "head" => j.fp # <<>> /\ j.data = <<>>
    /\ j.pc \in {"tail", "consume"} /\ j.off > 0 =>
        IF j.fp = <<>> THEN j.head = <<>> ELSE j.head # <<>> /\ j.head[1] = j.fp[1]
    /\ j.pc = "consume" => DataSound(b, j)
    /\ j.pc = "whole" => ~useIncremental(b)
    /\ j.pc = "read" => ~isIncrementalFormat /\ Read(b)

\* The times of a blob, and that it was read before it was deleted.
BlobSound(b) ==
    /\ blob[b].mtime <= now /\ (blob[b].there => blob[b].gen > 0)
    /\ blob[b].gen > 0 => PathTime(b) <= blob[b].mtime
    /\ b \in gone /\ ~(Gzip(b) /\ GzipRewritten) =>
        /\ Read(b)
        /\ useIncremental(b) /\ cfg.format # "text" => blob[b].tail # "cut"

Entries(b) == {cp.progress[b], saved.progress[b], aged[b]}

IInv ==
    /\ Scalars /\ Shapes
    /\ \A b \in Blobs :
        /\ BlobSound(b)
        /\ \A p \in Entries(b) : Sound(b, p)
        /\ aged[b] # None => Closed(b) /\ ~aged[b].quarantined
        /\ \A j \in {job[b]} : JobSound(b, j)

-----------------------------------------------------------------------------
(* Content, fingerprints and deltas.                                       *)

LEMMA Settings ==
    ASSUME cfg \in Scenarios
    PROVE  /\ cfg.format \in {"otlp", "json", "text", "records-json"}
           /\ cfg.delete \in BOOLEAN /\ cfg.written \subseteq Blobs /\ cfg.faults \in Nat
  BY PollingAssumption

\* The units of a blob are numbered, and only the last may be incomplete.
LEMMA ContentFacts ==
    ASSUME NEW b \in Blobs, blob[b] \in BlobStates
    PROVE  /\ Content(b) \in Seq(Units)
           /\ Len(Content(b)) = blob[b].len + (IF blob[b].tail = "none" THEN 0 ELSE 1)
           /\ \A i \in 1 .. Len(Content(b)) :
                Content(b)[i] = Unit(blob[b].gen, i,
                                     IF i <= blob[b].len THEN "none" ELSE blob[b].tail)
  <1> DEFINE x == blob[b]
             s == [i \in 1 .. x.len |-> Unit(x.gen, i, "none")]
             t == IF x.tail = "none" THEN <<>> ELSE <<Unit(x.gen, x.len + 1, x.tail)>>
  <1>1. /\ x.len \in Nat /\ x.gen \in Nat /\ x.tail \in Ends
        /\ MaxLen \in Nat /\ MaxGen \in Nat
    BY PollingAssumption DEF BlobStates
  <1> HIDE DEF x
  <1>2. \A i \in Nat, k \in Ends : Unit(x.gen, i, k) \in Units
    BY <1>1 DEF Unit, Units
  <1>3. s \in Seq(Units) /\ Len(s) = x.len /\ \A i \in 1 .. x.len : s[i] = Unit(x.gen, i, "none")
    <2>1. \A i \in 1 .. x.len : Unit(x.gen, i, "none") \in Units
      BY <1>1, <1>2 DEF Ends
    <2> QED
      BY <1>1, <2>1
  <1>4. t \in Seq(Units) /\ Len(t) = (IF x.tail = "none" THEN 0 ELSE 1)
        /\ (x.tail # "none" => t[1] = Unit(x.gen, x.len + 1, x.tail))
    <2>1. Unit(x.gen, x.len + 1, x.tail) \in Units
      BY <1>1, <1>2
    <2> QED
      BY <2>1
  <1>5. Content(b) = s \o t
    BY DEF Content, x
  <1> HIDE DEF s, t
  <1>6. /\ s \o t \in Seq(Units) /\ Len(s \o t) = Len(s) + Len(t)
        /\ \A i \in 1 .. Len(s) + Len(t) :
                (s \o t)[i] = IF i <= Len(s) THEN s[i] ELSE t[i - Len(s)]
    BY <1>3, <1>4, ConcatProperties
  <1>7. ASSUME NEW i \in 1 .. Len(s) + Len(t)
        PROVE  (s \o t)[i] = Unit(x.gen, i, IF i <= x.len THEN "none" ELSE x.tail)
    <2>1. CASE i <= x.len
      BY <1>1, <1>3, <1>6, <2>1
    <2>2. CASE i > x.len
      <3>1. x.tail # "none" /\ i = x.len + 1 /\ i - Len(s) = 1
        BY <1>1, <1>3, <1>4, <2>2
      <3> QED
        BY <1>1, <1>3, <1>4, <1>6, <2>2, <3>1
    <2> QED
      BY <1>1, <2>1, <2>2
  <1> QED
    BY <1>1, <1>3, <1>4, <1>5, <1>6, <1>7 DEF x

LEMMA PrefixFacts ==
    ASSUME NEW s \in Seq(Units), NEW n \in Nat
    PROVE  /\ Prefix(s, n) \in Seq(Units)
           /\ Len(Prefix(s, n)) = (IF n < Len(s) THEN n ELSE Len(s))
           /\ \A i \in 1 .. Len(Prefix(s, n)) : Prefix(s, n)[i] = s[i]
  <1> DEFINE m == IF n < Len(s) THEN n ELSE Len(s)
  <1>1. m \in Nat /\ m <= Len(s) /\ Len(s) \in Nat
    BY LenProperties
  <1>2. \A i \in 1 .. m : s[i] \in Units
    BY <1>1, ElementOfSeq
  <1> HIDE DEF m
  <1>3. /\ SubSeq(s, 1, m) \in Seq(Units)
        /\ Len(SubSeq(s, 1, m)) = m
        /\ \A i \in 1 .. m : SubSeq(s, 1, m)[i] = s[i]
    BY <1>1, <1>2, SubSeqProperties, 1 \in Int
  <1> QED
    BY <1>3 DEF m, Prefix

\* A fingerprint begins with the first unit.
LEMMA FingerprintFacts ==
    ASSUME NEW s \in Seq(Units)
    PROVE  /\ Fingerprint(s) \in Seq(Units) /\ Len(Fingerprint(s)) <= FpSize
           /\ s = <<>> => Fingerprint(s) = <<>>
           /\ s # <<>> => Fingerprint(s) # <<>> /\ Fingerprint(s)[1] = s[1]
  <1>1. FpSize \in Nat /\ FpSize > 0
    BY PollingAssumption
  <1>2. Len(s) \in Nat /\ (s # <<>> => Len(s) > 0) /\ (s = <<>> => Len(s) = 0)
    BY LenProperties, EmptySeq
  <1>3. Prefix(s, FpSize) # <<>> <=> Len(Prefix(s, FpSize)) > 0
    BY <1>1, PrefixFacts, EmptySeq
  <1> QED
    BY <1>1, <1>2, <1>3, PrefixFacts DEF Fingerprint

\* A blob that passes the identity check begins with the unit the fingerprint
\* begins with, and is as long as the offset.
LEMMA NoReset ==
    ASSUME NEW off \in Nat, NEW fp \in Seq(Units), NEW c \in Seq(Units),
           ~needsReset(off, fp, c)
    PROVE  fp # <<>> /\ c # <<>> /\ fp[1] = c[1] /\ off <= Len(c)
  <1> DEFINE f == Fingerprint(c)
  <1>1. fp # <<>> /\ Len(fp) <= Len(f) /\ Prefix(f, Len(fp)) = fp /\ off <= Len(c)
    BY LenProperties DEF needsReset, SameBlob
  <1>2. f \in Seq(Units) /\ Len(fp) \in Nat /\ Len(fp) > 0 /\ Len(f) \in Nat
    BY <1>1, FingerprintFacts, LenProperties, EmptySeq
  <1>3. f # <<>> /\ fp[1] = f[1]
    <2>1. Prefix(f, Len(fp))[1] = f[1]
      BY <1>1, <1>2, PrefixFacts
    <2> QED
      BY <1>1, <1>2, <2>1
  <1> QED
    BY <1>1, <1>3, FingerprintFacts

\* The complete units of a read: all but possibly the last.
LEMMA CompleteFacts ==
    ASSUME NEW s \in Seq(Units), Tidy(s)
    PROVE  /\ Complete(s) = (IF EndOf(s) = "none" THEN Len(s) ELSE Len(s) - 1)
           /\ Complete(s) \in 0 .. Len(s)
           /\ \A i \in 1 .. Complete(s) : s[i].end = "none"
           /\ EndOf(s) \in Ends
           /\ EndOf(s) # "none" => Len(s) > 0 /\ s[Len(s)].end = EndOf(s)
  <1>1. Len(s) \in Nat /\ DOMAIN s = 1 .. Len(s)
    BY LenProperties
  <1>2. ASSUME NEW i \in 1 .. Len(s) PROVE s[i].end \in Ends
    <2>1. s[i] \in Units
      BY ElementOfSeq
    <2> QED
      BY <2>1 DEF Units
  <1>3. CASE s = <<>>
    <2>1. {i \in DOMAIN s : s[i].end = "none"} = {} /\ Len(s) = 0 /\ EndOf(s) = "none"
      BY <1>3 DEF EndOf
    <2> QED
      BY <2>1, FS_EmptySet DEF Complete, Ends
  <1>4. CASE s # <<>>
    <2>1. Len(s) > 0 /\ EndOf(s) = s[Len(s)].end
      BY <1>1, <1>4, EmptySeq DEF EndOf
    <2>2. CASE EndOf(s) = "none"
      <3>1. {i \in DOMAIN s : s[i].end = "none"} = 1 .. Len(s)
        <4>1. ASSUME NEW i \in 1 .. Len(s) PROVE s[i].end = "none"
          <5>1. CASE i = Len(s)
            BY <2>1, <2>2, <5>1
          <5>2. CASE i # Len(s)
            <6>1. Len(s) \in Nat
              BY <1>1
            <6>2. i \in 1 .. Len(s) - 1
              BY <5>2, <6>1
            <6> QED
              BY <6>2 DEF Tidy
          <5> QED
            BY <5>1, <5>2
        <4> QED
          BY <1>1, <4>1
      <3>2. Cardinality(1 .. Len(s)) = Len(s)
        BY <1>1, <2>1, FS_Interval, 1 \in Int
      <3> QED
        <4>1. Complete(s) = Len(s)
          BY <3>1, <3>2 DEF Complete
        <4>2. \A i \in 1 .. Len(s) : s[i].end = "none"
          BY <1>1, <3>1
        <4> QED
          BY <1>1, <2>2, <4>1, <4>2 DEF Ends
    <2>3. CASE EndOf(s) # "none"
      <3>1. {i \in DOMAIN s : s[i].end = "none"} = 1 .. Len(s) - 1
        BY <1>1, <2>1, <2>3 DEF Tidy
      <3>2. Cardinality(1 .. Len(s) - 1) = Len(s) - 1
        BY <1>1, <2>1, FS_Interval, 1 \in Int, Len(s) - 1 \in Int
      <3> QED
        <4>1. Complete(s) = Len(s) - 1
          BY <3>1, <3>2 DEF Complete
        <4>2. Len(s) \in 1 .. Len(s)
          BY <1>1, <2>1
        <4>3. EndOf(s) \in Ends
          BY <1>2, <2>1, <4>2
        <4> QED
          BY <1>1, <2>1, <2>3, <4>1, <4>3 DEF Tidy
    <2> QED
      BY <2>2, <2>3
  <1> QED
    BY <1>3, <1>4

\* What a flush emits: units that hold records, the complete ones first.
LEMMA EmittedFacts ==
    ASSUME NEW s \in Seq(Units), Tidy(s)
    PROVE  /\ Emitted(s) \in Complete(s) .. Len(s)
           /\ \A i \in 1 .. Emitted(s) : s[i].end = "none" \/ TailIsRecord(s[i].end)
           /\ EndOf(s) # "none" /\ ~TailIsRecord(EndOf(s)) => Emitted(s) = Len(s) - 1
  <1>1. Len(s) \in Nat
    BY LenProperties
  <1>2. CASE EndOf(s) # "none" /\ TailIsRecord(EndOf(s))
    <2>1. Emitted(s) = Len(s) /\ Complete(s) = Len(s) - 1 /\ Len(s) > 0
      BY <1>1, <1>2, CompleteFacts DEF Emitted
    <2> QED
      BY <1>1, <1>2, <2>1, CompleteFacts
  <1>3. CASE ~(EndOf(s) # "none" /\ TailIsRecord(EndOf(s)))
    <2>1. Emitted(s) = Complete(s)
      BY <1>3 DEF Emitted
    <2> QED
      BY <1>1, <1>3, <2>1, CompleteFacts
  <1> QED
    BY <1>2, <1>3

\* What is read of a blob from an offset on.
Delta(b, off) == SubSeq(Content(b), off + 1, Len(Content(b)))

LEMMA DeltaFacts ==
    ASSUME NEW b \in Blobs, blob[b] \in BlobStates, NEW off \in 0 .. MaxLen + 1
    PROVE  /\ Delta(b, off) \in Seq(Units) /\ Tidy(Delta(b, off))
           /\ off + Len(Delta(b, off)) <= MaxLen + 1
           /\ \A i \in 1 .. Len(Delta(b, off)) :
                /\ off + i <= Len(Content(b)) /\ Delta(b, off)[i] = Content(b)[off + i]
                /\ Delta(b, off)[i].gen = blob[b].gen /\ Delta(b, off)[i].pos = off + i
                /\ Delta(b, off)[i].end =
                        (IF off + i <= blob[b].len THEN "none" ELSE blob[b].tail)
           /\ Len(Delta(b, off)) =
                (IF off <= Len(Content(b)) THEN Len(Content(b)) - off ELSE 0)
  <1> DEFINE c == Content(b)
             s == Delta(b, off)
  <1>1. /\ blob[b].len \in 0 .. MaxLen /\ MaxLen \in Nat /\ blob[b].tail \in Ends
    BY PollingAssumption DEF BlobStates
  <1>2. /\ c \in Seq(Units) /\ Len(c) \in Nat /\ Len(c) <= MaxLen + 1
        /\ Len(c) <= blob[b].len + 1
        /\ \A i \in 1 .. Len(c) :
            c[i] = Unit(blob[b].gen, i, IF i <= blob[b].len THEN "none" ELSE blob[b].tail)
    BY <1>1, ContentFacts
  <1>3. \A i \in 1 .. Len(c) : c[i] \in Units
    BY <1>2, ElementOfSeq
  <1> HIDE DEF c, s
  <1>4. /\ s \in Seq(Units)
        /\ Len(s) = (IF off + 1 <= Len(c) THEN Len(c) - (off + 1) + 1 ELSE 0)
        /\ \A i \in 1 .. Len(c) - (off + 1) + 1 : s[i] = c[off + 1 + i - 1]
    <2>1. off + 1 \in Int /\ Len(c) \in Int /\ \A i \in off + 1 .. Len(c) : c[i] \in Units
      BY <1>1, <1>2, <1>3
    <2>2. s = SubSeq(c, off + 1, Len(c))
      BY DEF c, s, Delta
    <2> QED
      BY <2>1, <2>2, SubSeqProperties
  <1>5. Len(s) = (IF off <= Len(c) THEN Len(c) - off ELSE 0) /\ off + Len(s) <= MaxLen + 1
    <2>1. Len(c) \in Nat /\ Len(c) <= MaxLen + 1 /\ off \in Nat /\ off <= MaxLen + 1
      BY <1>1, <1>2
    <2>2. Len(s) = (IF off + 1 <= Len(c) THEN Len(c) - (off + 1) + 1 ELSE 0)
      BY <1>4
    <2> QED
      BY <1>1, <2>1, <2>2
  <1>6. ASSUME NEW i \in 1 .. Len(s)
        PROVE  /\ off + i <= Len(c) /\ s[i] = c[off + i]
               /\ s[i].gen = blob[b].gen /\ s[i].pos = off + i
               /\ s[i].end = (IF off + i <= blob[b].len THEN "none" ELSE blob[b].tail)
    <2>1. off + i \in 1 .. Len(c) /\ s[i] = c[off + i]
      <3>1. off \in Nat /\ i \in Nat /\ off + 1 + i - 1 = off + i
        BY <1>1
      <3>2. i \in 1 .. Len(c) - (off + 1) + 1
        BY <1>2, <1>4, <3>1
      <3> QED
        <4>1. s[i] = c[off + 1 + i - 1]
          BY <1>4, <3>2
        <4>2. off + i \in 1 .. Len(c)
          BY <1>2, <3>1, <3>2
        <4> QED
          BY <3>1, <4>1, <4>2
    <2>2. c[off + i] = Unit(blob[b].gen, off + i,
                            IF off + i <= blob[b].len THEN "none" ELSE blob[b].tail)
      BY <1>2, <2>1
    <2> QED
      BY <2>1, <2>2 DEF Unit
  <1>7. Tidy(s)
    <2> SUFFICES ASSUME NEW i \in 1 .. Len(s) - 1 PROVE s[i].end = "none"
      BY DEF Tidy
    <2>1. i \in 1 .. Len(s) /\ i + 1 \in 1 .. Len(s) /\ Len(s) \in Nat
      BY <1>4, LenProperties
    <2>2. off + i + 1 <= Len(c)
      <3>1. off + (i + 1) <= Len(c)
        BY <1>6, <2>1
      <3> QED
        BY <1>1, <1>2, <2>1, <3>1
    <2>3. off + i <= blob[b].len
      BY <1>1, <1>2, <2>1, <2>2
    <2> QED
      BY <1>6, <2>1, <2>3
  <1> QED
    BY <1>4, <1>5, <1>6, <1>7 DEF c, s

-----------------------------------------------------------------------------
(* What stays true of a blob whatever the step.                            *)

\* The content of the blob is what it will always be.
Frozen(b) ==
    \/ Closed(b) \/ b \in gone
    \/ blob[b].gen > 0 /\ ~useIncremental(b) /\ ~(isIncrementalFormat /\ GzipRewritten)

\* What every step does to the blob: it may grow or be replaced, by a later
\* one, unless it is frozen.
Steady(b) ==
    /\ cfg' = cfg /\ now <= now' /\ delivered \subseteq delivered'
    /\ blob'[b].gen >= blob[b].gen
    /\ blob'[b].gen = blob[b].gen => blob'[b].len >= blob[b].len
    /\ Frozen(b) => /\ blob'[b].gen = blob[b].gen /\ blob'[b].len = blob[b].len
                    /\ blob'[b].tail = blob[b].tail

\* A gzip blob is only written as a whole.
Dated(b) == Gzip(b) /\ blob'[b].gen = blob[b].gen => blob'[b].mtime = blob[b].mtime

Typed == Scalars /\ Shapes

LEMMA Numbers ==
    ASSUME Typed, NEW b \in Blobs
    PROVE  /\ now \in Nat /\ PathTime(b) \in Nat /\ Period \in Nat
           /\ PathTime(b) > 0
           /\ blob[b] \in BlobStates
           /\ blob[b].gen \in Nat /\ blob[b].len \in Nat /\ blob[b].tail \in Ends
           /\ blob[b].mtime \in Nat
           /\ MaxLen \in Nat /\ MaxGen \in Nat /\ RevisitWindow \in Nat
           /\ FpSize \in Nat /\ FpSize > 0
  <1>1. blob[b] \in BlobStates
    BY DEF Typed, Shapes
  <1> QED
    BY <1>1, PollingAssumption DEF Typed, Scalars, BlobStates

LEMMA ClosedStays ==
    ASSUME Typed, Typed', NEW b \in Blobs, Steady(b), Closed(b)
    PROVE  Closed(b)'
  BY PollingAssumption DEF Typed, Scalars, Steady, Closed

LEMMA CoversStays ==
    ASSUME Typed, Typed', NEW b \in Blobs, Steady(b),
           NEW off \in Nat, NEW fp \in Seq(Units), Covers(b, off, fp)
    PROVE  Covers(b, off, fp)'
  <1> USE DEF Steady
  <1>1. /\ blob[b].gen \in Nat /\ blob'[b].gen \in Nat
        /\ blob[b].len \in Nat /\ blob'[b].len \in Nat
    BY PollingAssumption DEF Typed, Shapes, BlobStates
  <1>2. fp # <<>> => fp[1].gen \in Nat
    <2>1. fp # <<>> => fp[1] \in Units
      BY EmptySeq, ElementOfSeq
    <2> QED
      BY <2>1 DEF Units
  <1>3. Closed(b) => Closed(b)'
    BY ClosedStays
  <1>4. fp # <<>> => fp[1].gen <= blob'[b].gen
    BY <1>1, <1>2 DEF Covers
  <1>5. fp = <<>> /\ off > 0 => Closed(b)'
    BY <1>3 DEF Covers
  <1>6. ASSUME fp = <<>> \/ fp[1].gen = blob'[b].gen
        PROVE  Has(b, off)' /\ Within(b, off)'
    <2>1. CASE off = 0
      BY <1>1, <2>1 DEF Has, Within
    <2>2. CASE off > 0
      <3>1. blob'[b].gen = blob[b].gen
        BY <1>1, <1>2, <1>6, <2>2 DEF Covers, Frozen
      <3>2. Has(b, off) /\ Within(b, off)
        BY <1>6, <3>1 DEF Covers
      <3>3. Has(b, off)'
        BY <3>1, <3>2 DEF Has
      <3>4. Within(b, off)'
        BY <1>1, <1>3, <3>1, <3>2 DEF Within, Frozen, TailIsRecord, Steady
      <3> QED
        BY <3>3, <3>4
    <2> QED
      BY <2>1, <2>2
  <1> QED
    BY <1>4, <1>5, <1>6 DEF Covers

LEMMA ReadStays ==
    ASSUME NEW b \in Blobs, Steady(b), Frozen(b), Read(b)
    PROVE  Read(b)'
  <1>1. Content(b)' = Content(b)
    BY DEF Steady, Content
  <1> QED
    BY <1>1 DEF Steady, Read, RecordsOf, TailIsRecord

LEMMA SoundStays ==
    ASSUME Typed, Typed', NEW b \in Blobs, Steady(b),
           NEW p, p # None => p \in Progress, Sound(b, p)
    PROVE  Sound(b, p)'
  <1> SUFFICES ASSUME p # None
               PROVE  /\ isIncrementalFormat' /\ blob'[b].gen > 0
                      /\ p.lm \in PathTime(b) .. now' /\ Len(p.fp) <= FpSize
                      /\ ~Gzip(b) => Covers(b, p.off, p.fp)'
                      /\ Gzip(b) /\ ~GzipRewritten =>
                            p.quarantined \/ (p.err /\ p.off = 0) \/ Read(b)'
    BY DEF Sound
  <1>1. p \in Progress /\ p.off \in Nat /\ p.fp \in Seq(Units)
    BY PollingAssumption DEF Progress
  <1>2. isIncrementalFormat' /\ isIncrementalFormat
    BY DEF Sound, Steady, isIncrementalFormat
  <1>3. blob'[b].gen > 0 /\ blob[b].gen > 0
    BY PollingAssumption DEF Sound, Steady, Typed, Shapes, BlobStates
  <1>4. p.lm \in PathTime(b) .. now' /\ Len(p.fp) <= FpSize
    BY PollingAssumption DEF Sound, Steady, Typed, Scalars
  <1>5. ~Gzip(b) => Covers(b, p.off, p.fp)'
    BY <1>1, CoversStays DEF Sound
  <1>6. ASSUME Gzip(b), ~GzipRewritten
        PROVE  p.quarantined \/ (p.err /\ p.off = 0) \/ Read(b)'
    <2>1. Frozen(b)
      BY <1>3, <1>6 DEF Frozen, useIncremental
    <2> QED
      BY <1>6, <2>1, ReadStays DEF Sound
  <1> QED
    BY <1>2, <1>3, <1>4, <1>5, <1>6

LEMMA DataStays ==
    ASSUME Typed, Typed', NEW b \in Blobs, Steady(b),
           NEW j \in JobStates, DataSound(b, j), Covers(b, j.off, j.fp)
    PROVE  DataSound(b, j)'
  <1>1. /\ blob[b].gen \in Nat /\ blob'[b].gen \in Nat
        /\ blob[b].len \in Nat /\ blob'[b].len \in Nat
        /\ j.off \in Nat /\ Len(j.data) \in Nat
    <2>1. j.data \in Seq(Units) /\ j.off \in Nat
      BY PollingAssumption DEF JobStates
    <2>2. Len(j.data) \in Nat
      BY <2>1, LenProperties
    <2> QED
      BY <2>1, <2>2, PollingAssumption DEF Typed, Shapes, BlobStates
  <1>2. PICK d \in 1 .. blob[b].gen :
            /\ \A i \in 1 .. Len(j.data) : j.data[i].gen = d /\ j.data[i].pos = j.off + i
            /\ j.off > 0 => IF j.fp = <<>> THEN d = blob[b].gen ELSE j.fp[1].gen <= d
            /\ d = blob[b].gen =>
                \A i \in 1 .. Len(j.data) :
                    j.data[i].end = "none" => j.off + i <= blob[b].len
    BY DEF DataSound
  <1>3. d \in 1 .. blob'[b].gen
    BY <1>1 DEF Steady
  <1>4. j.off > 0 => IF j.fp = <<>> THEN d = blob'[b].gen ELSE j.fp[1].gen <= d
    BY <1>1, <1>2 DEF Covers, Steady, Frozen
  <1>5. ASSUME d = blob'[b].gen, NEW i \in 1 .. Len(j.data), j.data[i].end = "none"
        PROVE  j.off + i <= blob'[b].len
    <2>1. d = blob[b].gen /\ blob'[b].len >= blob[b].len
      BY <1>1, <1>5 DEF Steady
    <2>2. j.off + i <= blob[b].len /\ i \in Nat
      BY <1>1, <1>2, <1>5, <2>1
    <2> QED
      BY <1>1, <2>1, <2>2
  <1> QED
    BY <1>2, <1>3, <1>4, <1>5 DEF DataSound

LEMMA JobStays ==
    ASSUME Typed, Typed', NEW b \in Blobs, Steady(b),
           NEW j \in JobStates, JobSound(b, j)
    PROVE  JobSound(b, j)'
  <1>1. j.off \in Nat /\ j.fp \in Seq(Units)
    BY PollingAssumption DEF JobStates
  <1>2. useIncremental(b)' = useIncremental(b) /\ isIncrementalFormat' = isIncrementalFormat
    BY DEF Steady, useIncremental, isIncrementalFormat
  <1>3. j.pc # "none" => j.lm \in PathTime(b) .. now' /\ blob'[b].gen > 0
    <2>1. /\ blob[b].gen \in Nat /\ blob'[b].gen \in Nat /\ PathTime(b) \in Nat
          /\ now \in Nat /\ now' \in Nat
      BY PollingAssumption DEF Typed, Scalars, Shapes, BlobStates
    <2>2. j.pc # "none" => j.lm \in PathTime(b) .. now /\ blob[b].gen > 0
      BY DEF JobSound
    <2>3. now <= now' /\ blob'[b].gen >= blob[b].gen
      BY DEF Steady
    <2> QED
      BY <2>1, <2>2, <2>3
  <1>4. j.pc \in {"head", "tail", "consume"} => Covers(b, j.off, j.fp)'
    BY <1>1, CoversStays DEF JobSound
  <1>5. j.pc = "consume" => DataSound(b, j)'
    BY DataStays DEF JobSound
  <1>6. j.pc = "read" => Read(b)'
    <2>1. j.pc = "read" => Frozen(b)
      BY DEF JobSound, Frozen, useIncremental
    <2> QED
      BY <2>1, ReadStays DEF JobSound
  <1> QED
    BY <1>2, <1>3, <1>4, <1>5, <1>6 DEF JobSound, Tidy

LEMMA BlobStays ==
    ASSUME Typed, Typed', NEW b \in Blobs, Steady(b), BlobSound(b),
           b \in gone' => b \in gone,
           blob'[b].mtime <= now', blob'[b].there => blob'[b].gen > 0,
           blob'[b].gen > 0 => PathTime(b) <= blob'[b].mtime
    PROVE  BlobSound(b)'
  <1>1. b \in gone => Frozen(b)
    BY DEF Frozen
  <1>2. b \in gone /\ Read(b) => Read(b)'
    BY <1>1, ReadStays
  <1> QED
    BY <1>1, <1>2 DEF BlobSound, Steady, useIncremental, isIncrementalFormat

\* A step keeps the invariant when the entries and jobs it changes are sound.
LEMMA Framed ==
    ASSUME IInv, Typed', \A b \in Blobs : Steady(b) /\ BlobSound(b)',
           \A b \in Blobs : \A p \in Entries(b)' : p \in Entries(b) \/ Sound(b, p)',
           \A b \in Blobs : aged'[b] # None => Closed(b)' /\ ~aged'[b].quarantined,
           \A b \in Blobs : \A j \in {job'[b]} : j = job[b] \/ JobSound(b, j)'
    PROVE  IInv'
  <1>1. Typed
    BY DEF IInv, Typed
  <1>2. ASSUME NEW b \in Blobs, NEW p \in Entries(b) PROVE Sound(b, p)'
    <2>1. p # None => p \in Progress
      BY <1>1 DEF Typed, Shapes, Checkpoints, Entries
    <2>2. Sound(b, p)
      BY <1>2 DEF IInv
    <2> QED
      BY <1>1, <2>1, <2>2, SoundStays
  <1>3. ASSUME NEW b \in Blobs, NEW j, j = job[b] PROVE JobSound(b, j)'
    <2>1. j \in JobStates /\ JobSound(b, j)
      BY <1>1, <1>3 DEF Typed, Shapes, IInv
    <2> QED
      BY <1>1, <2>1, JobStays
  <1>4. \A b \in Blobs : \A p \in Entries(b)' : Sound(b, p)'
    BY <1>2
  <1>5. \A b \in Blobs : \A j \in {job'[b]} : JobSound(b, j)'
    BY <1>3
  <1> QED
    BY <1>4, <1>5 DEF IInv, Typed

-----------------------------------------------------------------------------
(* The steps on one blob.                                                  *)

LEMMA SaveShape ==
    ASSUME Typed, NEW b \in Blobs, NEW p \in Progress, saveProgress(b, p)
    PROVE  /\ cp' \in Checkpoints /\ cp'.lp = cp.lp
           /\ cp'.progress[b] = p
           /\ \A c \in Blobs : c # b => cp'.progress[c] = cp.progress[c]
  <1>1. cp \in Checkpoints
    BY DEF Typed, Shapes
  <1>2. cp' = [cp EXCEPT !.progress = [cp.progress EXCEPT ![b] = p]]
    BY <1>1 DEF saveProgress, Checkpoints
  <1> DEFINE f == [cp.progress EXCEPT ![b] = p]
  <1>3. /\ f \in [Blobs -> Progress \cup {None}] /\ f[b] = p
        /\ \A c \in Blobs : c # b => f[c] = cp.progress[c]
    BY <1>1 DEF Checkpoints
  <1> HIDE DEF f
  <1>4. cp' = [cp EXCEPT !.progress = f]
    BY <1>2 DEF f
  <1> QED
    BY <1>1, <1>3, <1>4 DEF Checkpoints

LEMMA SaveKeeps ==
    ASSUME Typed, NEW b \in Blobs,
           cp' = cp \/ \E p \in Progress : saveProgress(b, p) /\ Sound(b, p)'
    PROVE  /\ cp' \in Checkpoints /\ cp'.lp = cp.lp
           /\ \A c \in Blobs :
                \A p \in {cp'.progress[c]} : p = cp.progress[c] \/ Sound(c, p)'
  <1>1. CASE cp' = cp
    BY <1>1 DEF Typed, Shapes
  <1>2. CASE \E p \in Progress : saveProgress(b, p) /\ Sound(b, p)'
    <2>1. PICK p \in Progress : saveProgress(b, p) /\ Sound(b, p)'
      BY <1>2
    <2>2. /\ cp' \in Checkpoints /\ cp'.lp = cp.lp
          /\ cp'.progress[b] = p
          /\ \A c \in Blobs : c # b => cp'.progress[c] = cp.progress[c]
      BY <2>1, SaveShape
    <2>3. ASSUME NEW c \in Blobs, NEW q \in {cp'.progress[c]}
          PROVE  q = cp.progress[c] \/ Sound(c, q)'
      <3>1. CASE c # b
        BY <2>2, <3>1
      <3>2. CASE c = b
        <4>1. q = p
          BY <2>2, <3>2
        <4> QED
          BY <2>1, <3>2, <4>1
      <3> QED
        BY <3>1, <3>2
    <2> QED
      BY <2>2, <2>3
  <1> QED
    BY <1>1, <1>2

\* A step that changes neither blobs nor time.
LEMMA Still ==
    ASSUME UNCHANGED <<cfg, now>>, delivered \subseteq delivered', Typed,
           NEW b \in Blobs, UNCHANGED blob \/ \E c \in Blobs : blob' = [blob EXCEPT ![c].there = FALSE]
    PROVE  /\ Steady(b)
           /\ blob'[b] \in BlobStates
           /\ blob'[b].mtime = blob[b].mtime /\ blob'[b].gen = blob[b].gen
           /\ blob'[b].there => blob[b].there
  <1>1. /\ blob[b] \in BlobStates /\ blob[b].gen \in Nat /\ blob[b].len \in Nat
        /\ now \in Nat
    BY Numbers
  <1>2. CASE UNCHANGED blob
    BY <1>1, <1>2 DEF Steady
  <1>3. ASSUME NEW c \in Blobs, blob' = [blob EXCEPT ![c].there = FALSE]
        PROVE  /\ blob'[b] \in BlobStates
               /\ blob'[b].gen = blob[b].gen /\ blob'[b].len = blob[b].len
               /\ blob'[b].tail = blob[b].tail /\ blob'[b].mtime = blob[b].mtime
               /\ blob'[b].there => blob[b].there
    <2>1. blob'[b] = IF b = c THEN [blob[b] EXCEPT !.there = FALSE] ELSE blob[b]
      BY <1>3 DEF Typed, Shapes
    <2> QED
      BY <1>1, <2>1 DEF BlobStates
  <1>4. CASE \E c \in Blobs : blob' = [blob EXCEPT ![c].there = FALSE]
    <2>1. /\ blob'[b] \in BlobStates
          /\ blob'[b].gen = blob[b].gen /\ blob'[b].len = blob[b].len
          /\ blob'[b].tail = blob[b].tail /\ blob'[b].mtime = blob[b].mtime
          /\ blob'[b].there => blob[b].there
      BY <1>3, <1>4
    <2> QED
      BY <1>1, <2>1 DEF Steady
  <1> QED
    BY <1>2, <1>4

\* A step of the work on a blob.
LEMMA JobStep ==
    ASSUME IInv, NEW b \in Blobs, NEW j \in JobStates, UNCHANGED jobless,
           job' = [job EXCEPT ![b] = j], JobSound(b, j)',
           delivered \subseteq delivered', twice' \subseteq delivered',
           warned' \subseteq Blobs, failures' \in 0 .. cfg.faults,
           cp' = cp \/ \E p \in Progress : saveProgress(b, p) /\ Sound(b, p)'
    PROVE  IInv'
  <1> USE DEF jobless, container, store, polling
  <1>1. Typed
    BY DEF IInv, Typed
  <1>2. \A c \in Blobs : job'[c] = (IF c = b THEN j ELSE job[c])
    BY <1>1 DEF Typed, Shapes
  <1>3. \A c \in Blobs : Steady(c)
    BY <1>1, Still
  <1>4. /\ cp' \in Checkpoints /\ cp'.lp = cp.lp
        /\ \A c \in Blobs : \A p \in {cp'.progress[c]} : p = cp.progress[c] \/ Sound(c, p)'
    BY <1>1, SaveKeeps
  <1>5. Typed'
    BY <1>1, <1>2, <1>4 DEF Typed, Scalars, Shapes, isIncrementalFormat
  <1>6. \A c \in Blobs : BlobSound(c)'
    BY <1>1, <1>3, <1>5, BlobStays DEF IInv, BlobSound
  <1>7. \A c \in Blobs : \A p \in Entries(c)' : p \in Entries(c) \/ Sound(c, p)'
    BY <1>4 DEF Entries
  <1>8. \A c \in Blobs : aged'[c] # None => Closed(c)' /\ ~aged'[c].quarantined
    BY DEF IInv, Closed
  <1>9. \A c \in Blobs : \A i \in {job'[c]} : i = job[c] \/ JobSound(c, i)'
    BY <1>2
  <1> QED
    BY <1>3, <1>5, <1>6, <1>7, <1>8, <1>9, Framed

\* A step of the finalization of a blob.
LEMMA AgedStep ==
    ASSUME IInv, NEW b \in Blobs, UNCHANGED finalizing, Done(b),
           delivered \subseteq delivered', twice' \subseteq delivered',
           warned' \subseteq Blobs, failures' \in 0 .. cfg.faults,
           cp' = cp \/ \E p \in Progress : saveProgress(b, p) /\ Sound(b, p)',
           UNCHANGED blob \/ blob' = [blob EXCEPT ![b].there = FALSE],
           \/ UNCHANGED gone
           \/ /\ gone' = gone \cup {b}
              /\ ~(Gzip(b) /\ GzipRewritten) =>
                    /\ Read(b)'
                    /\ useIncremental(b) /\ cfg.format # "text" => blob[b].tail # "cut"
    PROVE  IInv'
  <1> USE DEF finalizing, store, polling
  <1>1. Typed
    BY DEF IInv, Typed
  <1>2. \A c \in Blobs : aged'[c] = (IF c = b THEN None ELSE aged[c])
    BY <1>1 DEF Typed, Shapes, Done
  <1>3. \A c \in Blobs :
            /\ Steady(c) /\ blob'[c] \in BlobStates
            /\ blob'[c].mtime = blob[c].mtime /\ blob'[c].gen = blob[c].gen
            /\ blob'[c].there => blob[c].there
    BY <1>1, Still
  <1>4. /\ cp' \in Checkpoints /\ cp'.lp = cp.lp
        /\ \A c \in Blobs : \A p \in {cp'.progress[c]} : p = cp.progress[c] \/ Sound(c, p)'
    BY <1>1, SaveKeeps
  <1>5. Typed'
    <2>1. blob' \in [Blobs -> BlobStates]
      BY <1>1, <1>3 DEF Typed, Shapes
    <2>2. aged' \in [Blobs -> Progress \cup {None}]
      BY <1>1 DEF Typed, Shapes, Done
    <2>3. gone' \subseteq Blobs
      BY <1>1 DEF Typed, Scalars
    <2> QED
      BY <1>1, <1>4, <2>1, <2>2, <2>3 DEF Typed, Scalars, Shapes, isIncrementalFormat
  <1>6. ASSUME NEW c \in Blobs PROVE BlobSound(c)'
    <2>1. /\ blob'[c].mtime <= now' /\ (blob'[c].there => blob'[c].gen > 0)
          /\ (blob'[c].gen > 0 => PathTime(c) <= blob'[c].mtime)
      BY <1>3 DEF IInv, BlobSound
    <2>2. CASE c \in gone' => c \in gone
      BY <1>1, <1>3, <1>5, <2>1, <2>2, BlobStays DEF IInv
    <2>3. CASE c \in gone' /\ c \notin gone
      <3>1. c = b /\ (~(Gzip(b) /\ GzipRewritten) =>
                    /\ Read(b)'
                    /\ useIncremental(b) /\ cfg.format # "text" => blob[b].tail # "cut")
        BY <2>3
      <3>2. blob'[b].tail = blob[b].tail
        BY <1>1, <1>3 DEF Typed, Shapes, BlobStates
      <3> QED
        BY <2>1, <3>1, <3>2 DEF BlobSound, useIncremental, isIncrementalFormat
    <2> QED
      BY <2>2, <2>3
  <1>7. \A c \in Blobs : \A p \in Entries(c)' : p \in Entries(c) \/ Sound(c, p)'
    BY <1>2, <1>4 DEF Entries, Sound
  <1>8. \A c \in Blobs : aged'[c] # None => Closed(c)' /\ ~aged'[c].quarantined
    BY <1>2 DEF IInv, Closed
  <1> QED
    BY <1>3, <1>5, <1>6, <1>7, <1>8, Framed

-----------------------------------------------------------------------------
(* The work on a blob.                                                     *)

LEMMA FailuresBounded ==
    ASSUME Typed, failures' = failures \/ \E k \in FaultKinds : Fails(k)
    PROVE  failures' \in 0 .. cfg.faults
  <1>1. cfg.faults \in Nat /\ failures \in 0 .. cfg.faults
    BY Settings DEF Typed, Scalars
  <1> QED
    BY <1>1 DEF Fails, Fault

LEMMA SoundSame ==
    ASSUME UNCHANGED <<cfg, now, blob>>, delivered \subseteq delivered',
           NEW b \in Blobs, NEW p, Sound(b, p)
    PROVE  Sound(b, p)'
  <1>1. ASSUME NEW off, NEW fp, Covers(b, off, fp) PROVE Covers(b, off, fp)'
    BY <1>1 DEF Covers, Has, Within, Closed, TailIsRecord
  <1>2. Read(b) => Read(b)'
    <2>1. Content(b)' = Content(b)
      BY DEF Content
    <2> QED
      BY <2>1 DEF Read, RecordsOf, TailIsRecord
  <1>3. isIncrementalFormat' = isIncrementalFormat
    BY DEF isIncrementalFormat
  <1> QED
    BY <1>1, <1>2, <1>3 DEF Sound

LEMMA JobSame ==
    ASSUME UNCHANGED <<cfg, now, blob>>, delivered \subseteq delivered',
           NEW b \in Blobs, NEW j, JobSound(b, j)
    PROVE  JobSound(b, j)'
  <1>1. ASSUME NEW off, NEW fp, Covers(b, off, fp) PROVE Covers(b, off, fp)'
    BY <1>1 DEF Covers, Has, Within, Closed, TailIsRecord
  <1>2. Read(b) => Read(b)'
    <2>1. Content(b)' = Content(b)
      BY DEF Content
    <2> QED
      BY <2>1 DEF Read, RecordsOf, TailIsRecord
  <1>3. isIncrementalFormat' = isIncrementalFormat /\ useIncremental(b)' = useIncremental(b)
    BY DEF isIncrementalFormat, useIncremental
  <1>4. DataSound(b, j) => DataSound(b, j)'
    BY DEF DataSound
  <1> QED
    BY <1>1, <1>2, <1>3, <1>4 DEF JobSound, Tidy

LEMMA NoJobSound ==
    /\ NoJob \in JobStates
    /\ \A b \in Blobs : JobSound(b, NoJob) /\ JobSound(b, NoJob)'
  <1>1. <<>> \in Seq(Units) /\ Len(<<>>) = 0 /\ 0 \in 0 .. MaxLen + 1 /\ 0 \in Nat
    BY PollingAssumption, EmptySeq
  <1>2. NoJob \in JobStates
    BY <1>1 DEF NoJob, JobStates
  <1>3. Tidy(<<>>)
    BY <1>1 DEF Tidy
  <1>4. MaxLen \in Nat /\ FpSize \in Nat
    BY PollingAssumption
  <1>5. \A b \in Blobs : JobSound(b, NoJob) /\ JobSound(b, NoJob)'
    BY <1>1, <1>3, <1>4 DEF JobSound, NoJob, Tidy
  <1> QED
    BY <1>2, <1>5

LEMMA Leaves ==
    ASSUME IInv, NEW b \in Blobs, UNCHANGED <<jobless, cp, sink>>, Leave(b),
           failures' \in 0 .. cfg.faults
    PROVE  IInv'
  <1>1. twice \subseteq delivered /\ warned \subseteq Blobs
    BY DEF IInv, Scalars
  <1> QED
    BY <1>1, NoJobSound, JobStep DEF sink, Leave

LEMMA NewProgressSound ==
    /\ NewProgress \in Progress
    /\ \A b \in Blobs : blob[b].len \in Nat => Covers(b, 0, <<>>)
  <1>1. <<>> \in Seq(Units) /\ Len(<<>>) = 0 /\ 0 \in 0 .. MaxLen + 1 /\ 0 \in Nat
    BY PollingAssumption, EmptySeq
  <1>2. NewProgress \in Progress
    BY <1>1 DEF NewProgress, Progress
  <1>3. \A b \in Blobs : blob[b].len \in Nat => Covers(b, 0, <<>>)
    BY DEF Covers, Has, Within
  <1> QED
    BY <1>2, <1>3

LEMMA JobFacts ==
    ASSUME IInv, NEW b \in Blobs
    PROVE  /\ Typed /\ job[b] \in JobStates /\ JobSound(b, job[b])
           /\ job[b].off \in 0 .. MaxLen + 1 /\ job[b].fp \in Seq(Units)
           /\ job[b].head \in Seq(Units) /\ job[b].data \in Seq(Units) /\ job[b].lm \in Nat
  <1>1. Typed /\ job[b] \in JobStates /\ JobSound(b, job[b])
    BY DEF IInv, Typed, Shapes
  <1> QED
    BY <1>1 DEF JobStates

LEMMA ProgressFacts ==
    ASSUME IInv, NEW b \in Blobs
    PROVE  /\ ProgressOf(b) \in Progress /\ Len(ProgressOf(b).fp) <= FpSize
           /\ ~Gzip(b) => Covers(b, ProgressOf(b).off, ProgressOf(b).fp)
  <1>1. cp.progress[b] # None => cp.progress[b] \in Progress /\ Sound(b, cp.progress[b])
    BY DEF IInv, Shapes, Checkpoints, Entries
  <1>2. blob[b].len \in Nat /\ FpSize \in Nat
    BY Numbers DEF IInv, Typed
  <1>3. Len(<<>>) = 0
    OBVIOUS
  <1>4. CASE cp.progress[b] = None
    <2>1. ProgressOf(b) = NewProgress /\ NewProgress.fp = <<>> /\ NewProgress.off = 0
      BY <1>4 DEF ProgressOf, NewProgress
    <2> QED
      BY <1>2, <1>3, <2>1, NewProgressSound
  <1>5. CASE cp.progress[b] # None
    BY <1>1, <1>5 DEF ProgressOf, Sound
  <1> QED
    BY <1>4, <1>5

LEMMA Quarantines ==
    ASSUME IInv, NEW b \in Blobs, job[b].pc # "none", isIncrementalFormat,
           quarantineBlob(b), Leave(b), UNCHANGED jobless, failures' \in 0 .. cfg.faults
    PROVE  IInv'
  <1> DEFINE q == ProgressOf(b)
  <1>1. PICK p : p = [q EXCEPT !.lm = job[b].lm, !.quarantined = TRUE, !.err = FALSE]
    OBVIOUS
  <1>2. q \in Progress /\ Len(q.fp) <= FpSize /\ (~Gzip(b) => Covers(b, q.off, q.fp))
    BY ProgressFacts
  <1>3. job[b].lm \in PathTime(b) .. now /\ job[b].lm \in Nat /\ blob[b].gen > 0
    BY JobFacts DEF JobSound
  <1> HIDE DEF q
  <1>4. /\ p \in Progress /\ p.off = q.off /\ p.fp = q.fp /\ p.lm = job[b].lm
        /\ p.quarantined = TRUE
    BY <1>1, <1>2, <1>3 DEF Progress
  <1>5. Sound(b, p)
    BY <1>2, <1>3, <1>4 DEF Sound
  <1>6. saveProgress(b, p) /\ UNCHANGED <<delivered, twice>>
    BY <1>1 DEF quarantineBlob, q
  <1>7. twice \subseteq delivered /\ warned' \subseteq Blobs
    BY DEF IInv, Scalars, quarantineBlob
  <1>8. Sound(b, p)'
    BY <1>5, <1>6, SoundSame DEF jobless, container
  <1> QED
    BY <1>4, <1>6, <1>7, <1>8, NoJobSound, JobStep DEF Leave

LEMMA TracksFailure ==
    ASSUME IInv, NEW b \in Blobs, job[b].pc # "none", isIncrementalFormat,
           trackNeverReadFailure(b), Leave(b), UNCHANGED jobless,
           failures' \in 0 .. cfg.faults
    PROVE  IInv'
  <1> DEFINE q == ProgressOf(b)
  <1>1. PICK p : p = [NewProgress EXCEPT !.quarantined = q.quarantined,
                                         !.lm = job[b].lm, !.err = TRUE]
    OBVIOUS
  <1>2. q \in Progress /\ q.quarantined \in BOOLEAN /\ blob[b].len \in Nat
    BY ProgressFacts, Numbers DEF Progress, IInv, Typed
  <1>3. job[b].lm \in PathTime(b) .. now /\ job[b].lm \in Nat /\ blob[b].gen > 0
    BY JobFacts DEF JobSound
  <1>4. /\ p \in Progress /\ p.off = 0 /\ p.fp = <<>> /\ p.lm = job[b].lm /\ p.err = TRUE
    BY <1>1, <1>2, <1>3, NewProgressSound DEF Progress, NewProgress
  <1>5. Sound(b, p)
    <2>1. Len(p.fp) <= FpSize
      BY <1>4, PollingAssumption
    <2> QED
      BY <1>2, <1>3, <1>4, <2>1, NewProgressSound DEF Sound
  <1>6. saveProgress(b, p) /\ UNCHANGED sink
    BY <1>1 DEF trackNeverReadFailure
  <1>7. twice \subseteq delivered /\ warned \subseteq Blobs
    BY DEF IInv, Scalars
  <1>8. Sound(b, p)'
    BY <1>5, <1>6, SoundSame DEF jobless, container, sink
  <1> QED
    BY <1>4, <1>6, <1>7, <1>8, NoJobSound, JobStep DEF Leave, sink

\* A step that only moves the work on.
LEMMA Moves ==
    ASSUME IInv, NEW b \in Blobs, NEW j \in JobStates, JobSound(b, j),
           job' = [job EXCEPT ![b] = j], UNCHANGED <<jobless, failures, sink, cp>>
    PROVE  IInv'
  <1>1. twice \subseteq delivered /\ warned \subseteq Blobs /\ failures \in 0 .. cfg.faults
    BY DEF IInv, Scalars
  <1>2. JobSound(b, j)'
    BY JobSame DEF jobless, container, sink
  <1> QED
    BY <1>1, <1>2, JobStep DEF sink

LEMMA StartStep ==
    ASSUME IInv, NEW b \in Blobs, Start(b)
    PROVE  IInv'
  <1> DEFINE i == job[b]
             p == ProgressOf(b)
  <1>1. CASE Leave(b)
    <2>1. failures \in 0 .. cfg.faults
      BY DEF IInv, Scalars
    <2> QED
      BY <1>1, <2>1, Leaves DEF Start
  <1>2. CASE ~Leave(b)
    <2> DEFINE q == IF ~useIncremental(b) THEN "whole"
                    ELSE IF p.off > 0 /\ p.fp # <<>> THEN "head" ELSE "tail"
    <2>1. PICK j : j = [i EXCEPT !.pc = q, !.off = p.off, !.fp = p.fp]
      OBVIOUS
    <2>2. job' = [job EXCEPT ![b] = j] /\ UNCHANGED <<jobless, failures, sink, cp>>
      BY <1>2, <2>1 DEF Start
    <2>3. /\ i \in JobStates /\ i.pc = "start" /\ i.off = 0 /\ i.fp = <<>>
          /\ i.head = <<>> /\ i.data = <<>> /\ i.lm \in PathTime(b) .. now
          /\ blob[b].gen > 0
      BY JobFacts DEF JobSound, Start
    <2>4. /\ p \in Progress /\ Len(p.fp) <= FpSize /\ (~Gzip(b) => Covers(b, p.off, p.fp))
          /\ p.off \in 0 .. MaxLen + 1 /\ p.fp \in Seq(Units)
      BY ProgressFacts DEF Progress
    <2> HIDE DEF i, p
    <2>5. /\ j \in JobStates /\ j.off = p.off /\ j.fp = p.fp /\ j.lm = i.lm
          /\ j.head = <<>> /\ j.data = <<>>
          /\ j.pc = q
          /\ q \in {"whole", "head", "tail"}
          /\ q = "whole" <=> ~useIncremental(b)
          /\ q = "head" => p.fp # <<>>
          /\ q = "tail" => p.off = 0 \/ p.fp = <<>>
      <3>1. /\ q \in {"whole", "head", "tail"}
            /\ q = "whole" <=> ~useIncremental(b)
            /\ q = "head" => p.fp # <<>>
            /\ q = "tail" => p.off = 0 \/ p.fp = <<>>
        BY <2>4, PollingAssumption
      <3> HIDE DEF q
      <3>2. /\ j \in JobStates /\ j.off = p.off /\ j.fp = p.fp /\ j.lm = i.lm
            /\ j.head = <<>> /\ j.data = <<>> /\ j.pc = q
        BY <2>1, <2>3, <2>4, <3>1 DEF JobStates
      <3> QED
        BY <3>1, <3>2
    <2>6. JobSound(b, j)
      <3>1. Len(<<>>) = 0 /\ Tidy(<<>>) /\ FpSize \in Nat /\ MaxLen \in Nat
        BY PollingAssumption DEF Tidy
      <3> QED
        BY <2>3, <2>4, <2>5, <3>1 DEF JobSound, useIncremental
    <2> QED
      BY <2>2, <2>5, <2>6, Moves
  <1> QED
    BY <1>1, <1>2

LEMMA ReadHeadStep ==
    ASSUME IInv, NEW b \in Blobs, ReadHead(b)
    PROVE  IInv'
  <1> DEFINE i == job[b]
             c == Content(b)
  <1>1. CASE ~Exists(b)
    <2>1. failures \in 0 .. cfg.faults
      BY DEF IInv, Scalars
    <2> QED
      BY <1>1, <2>1, Leaves DEF ReadHead
  <1>2. CASE Exists(b)
    <2> DEFINE o == IF needsReset(i.off, i.fp, c) THEN 0 ELSE i.off
    <2>1. PICK j : j = [i EXCEPT !.pc = "tail", !.head = Fingerprint(c), !.off = o]
      OBVIOUS
    <2>2. i \in JobStates
      BY JobFacts
    <2>3. job' = [job EXCEPT ![b] = j] /\ UNCHANGED <<jobless, failures, sink, cp>>
      BY <1>2, <2>1, <2>2 DEF ReadHead, JobStates
    <2>4. /\ i.pc = "head" /\ i.fp # <<>> /\ i.data = <<>> /\ i.fp \in Seq(Units)
          /\ i.lm \in PathTime(b) .. now /\ blob[b].gen > 0 /\ Len(i.fp) <= FpSize
          /\ useIncremental(b) /\ Covers(b, i.off, i.fp) /\ i.off \in 0 .. MaxLen + 1
      BY JobFacts DEF JobSound, ReadHead
    <2>5. c \in Seq(Units) /\ blob[b].len \in Nat /\ MaxLen \in Nat
      BY Numbers, ContentFacts DEF IInv, Typed
    <2>6. Fingerprint(c) \in Seq(Units) /\ Len(Fingerprint(c)) <= FpSize
      BY <2>5, FingerprintFacts
    <2>7. ~needsReset(i.off, i.fp, c) =>
            Fingerprint(c) # <<>> /\ Fingerprint(c)[1] = i.fp[1]
      BY <2>4, <2>5, NoReset, FingerprintFacts
    <2>8. Covers(b, 0, i.fp)
      BY <2>4, <2>5 DEF Covers, Has, Within
    <2> HIDE DEF i, c
    <2>9. /\ j \in JobStates /\ j.pc = "tail" /\ j.fp = i.fp /\ j.lm = i.lm
          /\ j.head = Fingerprint(c) /\ j.data = <<>>
          /\ j.off = 0 \/ (j.off = i.off /\ ~needsReset(i.off, i.fp, c))
          /\ j.off \in 0 .. MaxLen + 1
      <3>1. /\ o = 0 \/ (o = i.off /\ ~needsReset(i.off, i.fp, c))
            /\ o \in 0 .. MaxLen + 1
        BY <2>4, <2>5
      <3> HIDE DEF o
      <3>2. /\ j \in JobStates /\ j.pc = "tail" /\ j.fp = i.fp /\ j.lm = i.lm
            /\ j.head = Fingerprint(c) /\ j.data = <<>> /\ j.off = o
        BY <2>1, <2>2, <2>4, <2>6, <3>1 DEF JobStates
      <3> QED
        BY <3>1, <3>2
    <2>10. JobSound(b, j)
      <3>1. Len(<<>>) = 0 /\ Tidy(<<>>)
        BY DEF Tidy
      <3>2. Covers(b, j.off, j.fp)
        BY <2>4, <2>8, <2>9
      <3> QED
        BY <2>4, <2>5, <2>6, <2>7, <2>9, <3>1, <3>2 DEF JobSound
    <2> QED
      BY <2>3, <2>9, <2>10, Moves
  <1> QED
    BY <1>1, <1>2

LEMMA ReadTailStep ==
    ASSUME IInv, NEW b \in Blobs, ReadTail(b)
    PROVE  IInv'
  <1> DEFINE i == job[b]
             d == Delta(b, i.off)
  <1>1. CASE ~Exists(b)
    <2>1. failures \in 0 .. cfg.faults
      BY DEF IInv, Scalars
    <2> QED
      BY <1>1, <2>1, Leaves DEF ReadTail
  <1>2. CASE Exists(b)
    <2>1. PICK j : j = [i EXCEPT !.pc = "consume", !.data = d]
      OBVIOUS
    <2>2. i \in JobStates
      BY JobFacts
    <2>3. job' = [job EXCEPT ![b] = j] /\ UNCHANGED <<jobless, failures, sink, cp>>
      BY <1>2, <2>1, <2>2 DEF ReadTail, JobStates, Delta
    <2>4. /\ i.pc = "tail" /\ JobSound(b, i) /\ i.off \in 0 .. MaxLen + 1
      BY JobFacts DEF ReadTail
    <2>5. blob[b] \in BlobStates /\ blob[b].len \in Nat /\ blob[b].gen \in Nat /\ MaxLen \in Nat
      BY Numbers DEF IInv, Typed
    <2>6. /\ d \in Seq(Units) /\ Tidy(d) /\ i.off + Len(d) <= MaxLen + 1
          /\ \A k \in 1 .. Len(d) :
                /\ d[k].gen = blob[b].gen /\ d[k].pos = i.off + k
                /\ d[k].end = "none" => i.off + k <= blob[b].len
      <3>1. /\ d \in Seq(Units) /\ Tidy(d) /\ i.off + Len(d) <= MaxLen + 1
            /\ \A k \in 1 .. Len(d) :
                /\ i.off + k <= Len(Content(b))
                /\ d[k].gen = blob[b].gen /\ d[k].pos = i.off + k
                /\ d[k].end = (IF i.off + k <= blob[b].len THEN "none" ELSE blob[b].tail)
        <4>1. PICK o \in 0 .. MaxLen + 1 : o = i.off
          BY <2>4
        <4>2. /\ Delta(b, o) \in Seq(Units) /\ Tidy(Delta(b, o))
              /\ o + Len(Delta(b, o)) <= MaxLen + 1
              /\ \A k \in 1 .. Len(Delta(b, o)) :
                   /\ o + k <= Len(Content(b)) /\ Delta(b, o)[k] = Content(b)[o + k]
                   /\ Delta(b, o)[k].gen = blob[b].gen /\ Delta(b, o)[k].pos = o + k
                   /\ Delta(b, o)[k].end =
                        (IF o + k <= blob[b].len THEN "none" ELSE blob[b].tail)
          BY <2>5, DeltaFacts
        <4>3. d = Delta(b, o)
          BY <4>1
        <4> HIDE DEF d
        <4> QED
          BY <4>1, <4>2, <4>3
      <3>2. ASSUME NEW k \in 1 .. Len(d), d[k].end = "none" PROVE i.off + k <= blob[b].len
        <4>1. i.off + k <= Len(Content(b)) /\ Len(d) \in Nat
          BY <3>1, LenProperties
        <4>2. CASE blob[b].tail = "none"
          BY <2>5, <4>1, <4>2, ContentFacts
        <4>3. CASE blob[b].tail # "none"
          BY <2>5, <3>1, <3>2, <4>3
        <4> QED
          BY <4>2, <4>3
      <3> QED
        BY <3>1, <3>2
    <2> HIDE DEF i, d
    <2>7. /\ j \in JobStates /\ j.pc = "consume" /\ j.fp = i.fp /\ j.lm = i.lm
          /\ j.head = i.head /\ j.data = d /\ j.off = i.off
      BY <2>1, <2>2, <2>6 DEF JobStates
    <2>8. DataSound(b, j)
      <3>1. blob[b].gen \in 1 .. blob[b].gen
        BY <2>4, <2>5 DEF JobSound
      <3>2. j.off > 0 => IF j.fp = <<>> THEN TRUE ELSE j.fp[1].gen <= blob[b].gen
        BY <2>4, <2>7 DEF JobSound, Covers
      <3> QED
        BY <2>6, <2>7, <3>1, <3>2 DEF DataSound
    <2>9. JobSound(b, j)
      BY <2>4, <2>6, <2>7, <2>8 DEF JobSound
    <2> QED
      BY <2>3, <2>7, <2>9, Moves
  <1> QED
    BY <1>1, <1>2

LEMMA ReadErrorStep ==
    ASSUME IInv, NEW b \in Blobs, PermanentReadError(b) \/ TransientReadError(b)
    PROVE  IInv'
  <1>1. failures' \in 0 .. cfg.faults
    <2>1. Fails("read")
      BY DEF PermanentReadError, TransientReadError, Fails
    <2> QED
      BY <2>1, JobFacts, FailuresBounded DEF FaultKinds
  <1>2. job[b].pc \in {"head", "tail"} /\ Leave(b) /\ UNCHANGED jobless
    BY DEF PermanentReadError, TransientReadError
  <1>3. isIncrementalFormat
    BY <1>2, JobFacts DEF JobSound, useIncremental
  <1>4. CASE quarantineBlob(b)
    BY <1>1, <1>2, <1>3, <1>4, Quarantines
  <1>5. CASE trackNeverReadFailure(b)
    BY <1>1, <1>2, <1>3, <1>5, TracksFailure
  <1>6. CASE UNCHANGED <<cp, sink>>
    BY <1>1, <1>2, <1>6, Leaves
  <1> QED
    BY <1>4, <1>5, <1>6 DEF PermanentReadError, TransientReadError

LEMMA ConsumeErrorStep ==
    ASSUME IInv, NEW b \in Blobs, DeltaStuck(b) \/ ConsumeFails(b)
    PROVE  IInv'
  <1>1. failures' \in 0 .. cfg.faults
    <2>1. failures' = failures \/ Fails("consume")
      BY DEF DeltaStuck, ConsumeFails
    <2> QED
      BY <2>1, JobFacts, FailuresBounded DEF FaultKinds
  <1>2. job[b].pc = "consume" /\ Leave(b) /\ UNCHANGED jobless
    BY DEF DeltaStuck, ConsumeFails
  <1>3. isIncrementalFormat
    BY <1>2, JobFacts DEF JobSound, useIncremental
  <1>4. CASE quarantineBlob(b)
    BY <1>1, <1>2, <1>3, <1>4, Quarantines
  <1>5. CASE trackNeverReadFailure(b)
    BY <1>1, <1>2, <1>3, <1>5, TracksFailure
  <1>6. CASE UNCHANGED <<cp, sink>>
    BY <1>1, <1>2, <1>6, Leaves
  <1> QED
    BY <1>4, <1>5, <1>6 DEF DeltaStuck, ConsumeFails

LEMMA WholeErrorStep ==
    ASSUME IInv, NEW b \in Blobs, WholeTransientError(b) \/ WholePermanentError(b)
    PROVE  IInv'
  <1>1. failures' \in 0 .. cfg.faults
    <2>1. failures' = failures \/ Fails("consume") \/ Fails("read")
      BY DEF WholeTransientError, WholePermanentError, Fails
    <2> QED
      BY <2>1, JobFacts, FailuresBounded DEF FaultKinds
  <1>2. job[b].pc = "whole" /\ Leave(b) /\ UNCHANGED jobless
    BY DEF WholeTransientError, WholePermanentError
  <1>3. CASE isIncrementalFormat /\ quarantineBlob(b)
    BY <1>1, <1>2, <1>3, Quarantines
  <1>4. CASE isIncrementalFormat /\ trackNeverReadFailure(b)
    BY <1>1, <1>2, <1>4, TracksFailure
  <1>5. CASE UNCHANGED <<cp, sink>>
    BY <1>1, <1>2, <1>5, Leaves
  <1> QED
    BY <1>3, <1>4, <1>5 DEF WholeTransientError, WholePermanentError

LEMMA HeadOf ==
    ASSUME NEW s \in Seq(Units), NEW n \in 0 .. Len(s)
    PROVE  /\ SubSeq(s, 1, n) \in Seq(Units) /\ Len(SubSeq(s, 1, n)) = n
           /\ \A k \in 1 .. n : SubSeq(s, 1, n)[k] = s[k]
           /\ n = 0 => SubSeq(s, 1, n) = <<>>
           /\ n > 0 => SubSeq(s, 1, n) # <<>> /\ SubSeq(s, 1, n)[1] = s[1]
  <1>1. Len(s) \in Nat /\ n \in Nat /\ n <= Len(s)
    BY LenProperties
  <1>2. \A i \in 1 .. n : s[i] \in Units
    BY <1>1, ElementOfSeq
  <1>3. /\ SubSeq(s, 1, n) \in Seq(Units) /\ Len(SubSeq(s, 1, n)) = n
        /\ \A k \in 1 .. n : SubSeq(s, 1, n)[k] = s[k]
    BY <1>1, <1>2, SubSeqProperties, 1 \in Int
  <1>4. SubSeq(s, 1, n) = <<>> <=> n = 0
    BY <1>1, <1>3, EmptySeq
  <1> QED
    BY <1>1, <1>3, <1>4

\* The first n units of a read, when they are records, are among the records.
LEMMA RecordsOfHead ==
    ASSUME NEW b \in Blobs, NEW s \in Seq(Units), NEW n \in 0 .. Len(s),
           NEW k \in 1 .. n, s[k].end = "none" \/ TailIsRecord(s[k].end)
    PROVE  <<b, s[k].gen, s[k].pos>> \in RecordsOf(b, SubSeq(s, 1, n))
  <1> DEFINE t == SubSeq(s, 1, n)
  <1>1. t \in Seq(Units) /\ Len(t) = n /\ t[k] = s[k]
    BY HeadOf
  <1> HIDE DEF t
  <1>2. k \in DOMAIN t
    BY <1>1, LenProperties
  <1> QED
    BY <1>1, <1>2 DEF RecordsOf, t

LEMMA NewFingerprintFacts ==
    ASSUME NEW j \in JobStates, NEW n \in 0 .. Len(j.data), Len(j.fp) <= FpSize,
           j.off > 0 => IF j.fp = <<>> THEN j.head = <<>>
                        ELSE j.head # <<>> /\ j.head[1] = j.fp[1]
    PROVE  /\ NewFingerprint(j, n) \in Seq(Units) /\ Len(NewFingerprint(j, n)) <= FpSize
           /\ j.off = 0 /\ n = 0 => NewFingerprint(j, n) = <<>>
           /\ j.off = 0 /\ n > 0 =>
                NewFingerprint(j, n) # <<>> /\ NewFingerprint(j, n)[1] = j.data[1]
           /\ j.off > 0 /\ j.fp = <<>> => NewFingerprint(j, n) = <<>>
           /\ j.off > 0 /\ j.fp # <<>> =>
                NewFingerprint(j, n) # <<>> /\ NewFingerprint(j, n)[1] = j.fp[1]
  <1>1. /\ j.data \in Seq(Units) /\ j.head \in Seq(Units) /\ j.fp \in Seq(Units)
        /\ j.off \in Nat
    BY PollingAssumption DEF JobStates
  <1> DEFINE d == SubSeq(j.data, 1, n)
  <1>2. /\ d \in Seq(Units) /\ (n = 0 => d = <<>>)
        /\ n > 0 => d # <<>> /\ d[1] = j.data[1]
    BY <1>1, HeadOf
  <1> HIDE DEF d
  <1>3. CASE j.off = 0
    <2>1. NewFingerprint(j, n) = Fingerprint(d)
      BY <1>3 DEF NewFingerprint, d
    <2> QED
      BY <1>1, <1>2, <1>3, <2>1, FingerprintFacts
  <1>4. CASE j.off > 0 /\ ~(Len(j.fp) < FpSize /\ j.head # <<>>)
    <2>1. NewFingerprint(j, n) = j.fp
      BY <1>1, <1>4 DEF NewFingerprint
    <2> QED
      BY <1>1, <1>4, <2>1
  <1>5. CASE j.off > 0 /\ Len(j.fp) < FpSize /\ j.head # <<>>
    <2>1. j.fp # <<>> /\ j.head[1] = j.fp[1] /\ Len(j.head) \in Nat /\ Len(j.head) > 0
      BY <1>1, <1>5, EmptySeq
    <2>2. CASE j.off <= Len(j.head)
      <3> DEFINE h == SubSeq(j.head, 1, j.off)
      <3>1. h \in Seq(Units) /\ Len(h) = j.off /\ h[1] = j.head[1]
        BY <1>1, <1>5, <2>1, <2>2, HeadOf
      <3>2. NewFingerprint(j, n) = Fingerprint(h \o d)
        BY <1>1, <1>5, <2>2 DEF NewFingerprint, d
      <3> HIDE DEF h
      <3>3. h \o d \in Seq(Units) /\ h \o d # <<>> /\ (h \o d)[1] = h[1]
        <4>1. /\ h \o d \in Seq(Units) /\ Len(h \o d) = Len(h) + Len(d)
              /\ \A i \in 1 .. Len(h) + Len(d) :
                    (h \o d)[i] = IF i <= Len(h) THEN h[i] ELSE d[i - Len(h)]
          BY <1>2, <3>1, ConcatProperties
        <4>2. Len(d) \in Nat /\ Len(h) + Len(d) > 0 /\ 1 \in 1 .. Len(h) + Len(d) /\ 1 <= Len(h)
          BY <1>1, <1>2, <1>5, <3>1, LenProperties
        <4>3. h \o d # <<>>
          BY <4>1, <4>2, EmptySeq
        <4> QED
          BY <4>1, <4>2, <4>3
      <3>4. /\ Fingerprint(h \o d) \in Seq(Units) /\ Len(Fingerprint(h \o d)) <= FpSize
            /\ Fingerprint(h \o d) # <<>> /\ Fingerprint(h \o d)[1] = (h \o d)[1]
        BY <3>3, FingerprintFacts
      <3> QED
        BY <1>1, <1>5, <2>1, <3>1, <3>2, <3>3, <3>4
    <2>3. CASE ~(j.off <= Len(j.head))
      <3>1. NewFingerprint(j, n) = Fingerprint(j.head)
        BY <1>1, <1>5, <2>3 DEF NewFingerprint
      <3> QED
        BY <1>1, <1>5, <2>1, <3>1, FingerprintFacts
    <2> QED
      BY <2>2, <2>3
  <1> QED
    BY <1>1, <1>3, <1>4, <1>5

LEMMA ConsumeDeltaStep ==
    ASSUME IInv, NEW b \in Blobs, ConsumeDelta(b)
    PROVE  IInv'
  <1>0. PICK j, n, fp : j = job[b] /\ n = Complete(j.data) /\ fp = NewFingerprint(j, n)
    OBVIOUS
  <1>1. /\ Typed /\ j \in JobStates /\ JobSound(b, j) /\ j.pc = "consume"
        /\ j.off \in Nat /\ j.data \in Seq(Units) /\ Len(j.data) \in Nat /\ j.lm \in Nat
        /\ Tidy(j.data) /\ j.off + Len(j.data) <= MaxLen + 1 /\ MaxLen \in Nat
    <2>1. /\ Typed /\ j \in JobStates /\ JobSound(b, j) /\ j.data \in Seq(Units)
          /\ j.off \in 0 .. MaxLen + 1 /\ j.lm \in Nat
      BY <1>0, JobFacts
    <2>2. Len(j.data) \in Nat /\ MaxLen \in Nat
      BY <2>1, LenProperties, PollingAssumption
    <2>3. j.pc = "consume"
      BY <1>0 DEF ConsumeDelta
    <2>4. Tidy(j.data) /\ j.off + Len(j.data) <= MaxLen + 1
      BY <2>1 DEF JobSound
    <2>5. j.off \in Nat
      BY <2>1, <2>2
    <2> QED
      BY <2>1, <2>2, <2>3, <2>4, <2>5
  <1>2. n \in 0 .. Len(j.data) /\ \A k \in 1 .. n : j.data[k].end = "none"
    BY <1>0, <1>1, CompleteFacts
  <1>3. /\ delivered' = delivered \cup RecordsOf(b, SubSeq(j.data, 1, n))
        /\ twice' = twice \cup (RecordsOf(b, SubSeq(j.data, 1, n)) \cap delivered)
        /\ warned' = warned \ {b} /\ UNCHANGED <<jobless, failures>> /\ Leave(b)
    BY <1>0 DEF ConsumeDelta, Deliver
  <1>4. PICK p : p = [NewProgress EXCEPT !.off = j.off + n, !.lm = j.lm,
                                         !.fp = fp]
    OBVIOUS
  <1>5. saveProgress(b, p)
    BY <1>0, <1>4 DEF ConsumeDelta
  <1>6. ASSUME NEW k \in 1 .. n PROVE <<b, j.data[k].gen, j.data[k].pos>> \in delivered'
    BY <1>1, <1>2, <1>3, RecordsOfHead
  <1>7. /\ fp \in Seq(Units) /\ Len(fp) <= FpSize
        /\ j.off = 0 /\ n = 0 => fp = <<>>
        /\ j.off = 0 /\ n > 0 => fp # <<>> /\ fp[1] = j.data[1]
        /\ j.off > 0 /\ j.fp = <<>> => fp = <<>>
        /\ j.off > 0 /\ j.fp # <<>> => fp # <<>> /\ fp[1] = j.fp[1]
    BY <1>0, <1>1, <1>2, NewFingerprintFacts DEF JobSound
  <1>8. j.off + n \in 0 .. MaxLen + 1
    BY <1>1, <1>2
  <1>9. /\ p \in Progress /\ p.off = j.off + n /\ p.fp = fp /\ p.lm = j.lm
    BY <1>1, <1>4, <1>7, <1>8, NewProgressSound DEF Progress, NewProgress
  <1>10. Covers(b, j.off + n, fp)'
    <2>1. /\ blob[b].gen \in Nat /\ blob[b].len \in Nat /\ blob[b].gen > 0
          /\ UNCHANGED <<cfg, now, blob>>
      BY <1>1, <1>3, Numbers DEF JobSound, jobless, container
    <2>2. Covers(b, j.off, j.fp)
      BY <1>1 DEF JobSound
    <2>3. PICK d \in 1 .. blob[b].gen :
            /\ \A i \in 1 .. Len(j.data) : j.data[i].gen = d /\ j.data[i].pos = j.off + i
            /\ j.off > 0 => IF j.fp = <<>> THEN d = blob[b].gen ELSE j.fp[1].gen <= d
            /\ d = blob[b].gen =>
                \A i \in 1 .. Len(j.data) :
                    j.data[i].end = "none" => j.off + i <= blob[b].len
      BY <1>1 DEF JobSound, DataSound
    <2>4. ASSUME NEW k \in 1 .. n PROVE <<b, d, j.off + k>> \in delivered'
      <3>1. k \in 1 .. Len(j.data)
        BY <1>1, <1>2
      <3>2. j.data[k].gen = d /\ j.data[k].pos = j.off + k
        BY <2>3, <3>1
      <3> QED
        BY <1>6, <3>2
    <2>5. n > 0 /\ d = blob[b].gen => j.off + n <= blob[b].len
      BY <1>1, <1>2, <2>3
    <2>6. fp # <<>> => fp[1].gen <= blob'[b].gen
      <3>1. CASE j.off = 0
        BY <1>1, <1>2, <1>7, <2>1, <2>3, <3>1
      <3>2. CASE j.off > 0
        BY <1>1, <1>7, <2>1, <2>2, <3>2 DEF Covers
      <3> QED
        BY <1>1, <3>1, <3>2
    <2>7. fp = <<>> /\ j.off + n > 0 => Closed(b)'
      <3>1. CASE j.off = 0
        BY <1>1, <1>2, <1>7, <3>1
      <3>2. CASE j.off > 0
        BY <1>1, <1>7, <2>1, <2>2, <3>2 DEF Covers, Closed
      <3> QED
        BY <1>1, <3>1, <3>2
    <2>8. ASSUME fp = <<>> \/ fp[1].gen = blob'[b].gen
          PROVE  Has(b, j.off + n)' /\ Within(b, j.off + n)'
      <3>1. CASE j.off = 0 /\ n = 0
        BY <1>1, <2>1, <3>1 DEF Has, Within
      <3>2. CASE j.off = 0 /\ n > 0
        <4>1. d = blob'[b].gen
          BY <1>1, <1>2, <1>7, <2>1, <2>3, <2>8, <3>2
        <4>2. Has(b, j.off + n)'
          BY <1>1, <1>2, <2>4, <3>2, <4>1 DEF Has
        <4> QED
          BY <2>1, <2>5, <3>2, <4>1, <4>2 DEF Within
      <3>3. CASE j.off > 0
        <4>1. d = blob'[b].gen
          <5>1. CASE j.fp = <<>>
            BY <2>1, <2>3, <3>3, <5>1
          <5>2. CASE j.fp # <<>>
            BY <1>7, <2>1, <2>3, <2>8, <3>3, <5>2
          <5> QED
            BY <5>1, <5>2
        <4>2. j.fp = <<>> \/ j.fp[1].gen = blob[b].gen
          BY <1>7, <2>1, <2>8, <3>3
        <4>3. Has(b, j.off) /\ Within(b, j.off)
          BY <2>2, <4>2 DEF Covers
        <4>4. Has(b, j.off + n)'
          <5> SUFFICES ASSUME NEW i \in 1 .. j.off + n
                       PROVE  <<b, blob'[b].gen, i>> \in delivered'
            BY DEF Has
          <5>1. CASE i <= j.off
            BY <1>1, <1>3, <2>1, <4>3, <5>1 DEF Has
          <5>2. CASE i > j.off
            <6>1. i - j.off \in 1 .. n /\ j.off + (i - j.off) = i
              BY <1>1, <1>2, <5>2
            <6> QED
              BY <2>4, <4>1, <6>1
          <5> QED
            BY <1>1, <1>2, <5>1, <5>2
        <4>5. Within(b, j.off + n)'
          <5>1. CASE n = 0
            <6>1. j.off + n = j.off
              BY <1>1, <5>1
            <6> QED
              BY <2>1, <4>3, <6>1 DEF Within, Closed, TailIsRecord
          <5>2. CASE n > 0
            BY <2>1, <2>5, <4>1, <5>2 DEF Within
          <5> QED
            BY <1>2, <5>1, <5>2
        <4> QED
          BY <4>4, <4>5
      <3> QED
        BY <1>1, <1>2, <3>1, <3>2, <3>3
    <2> QED
      BY <2>6, <2>7, <2>8 DEF Covers
  <1>11. Sound(b, p)'
    <2>1. UNCHANGED <<cfg, now, blob>>
      BY <1>3 DEF jobless, container
    <2> QED
      BY <1>1, <1>7, <1>9, <1>10, <2>1 DEF Sound, JobSound, useIncremental, isIncrementalFormat
  <1> QED
    <2>1. twice \subseteq delivered /\ warned \subseteq Blobs /\ failures \in 0 .. cfg.faults
      BY DEF IInv, Scalars
    <2> QED
      BY <1>3, <1>5, <1>9, <1>11, <2>1, NoJobSound, JobStep DEF Leave

LEMMA ProcessWholeStep ==
    ASSUME IInv, NEW b \in Blobs, ProcessWhole(b)
    PROVE  IInv'
  <1>0. PICK i : i = job[b]
    OBVIOUS
  <1>1. /\ Typed /\ i \in JobStates /\ JobSound(b, i) /\ i.pc = "whole"
        /\ i.lm \in PathTime(b) .. now /\ i.lm \in Nat /\ blob[b].gen > 0
        /\ ~useIncremental(b)
    BY <1>0, JobFacts DEF JobSound, ProcessWhole
  <1>2. /\ delivered' = delivered \cup RecordsOf(b, Content(b))
        /\ twice' = twice \cup (RecordsOf(b, Content(b)) \cap delivered)
        /\ UNCHANGED <<cfg, now, blob>> /\ UNCHANGED <<jobless, failures>>
    BY DEF ProcessWhole, Deliver, jobless, container
  <1>3. Read(b)'
    <2>1. Content(b)' = Content(b)
      BY <1>2 DEF Content
    <2> QED
      BY <1>2, <2>1 DEF Read, RecordsOf, TailIsRecord
  <1>4. twice \subseteq delivered /\ warned \subseteq Blobs /\ failures \in 0 .. cfg.faults
    BY DEF IInv, Scalars
  <1>5. CASE isIncrementalFormat
    <2>1. PICK p : p = [NewProgress EXCEPT !.off = MaxLen, !.lm = i.lm]
      OBVIOUS
    <2>2. saveProgress(b, p) /\ warned' = warned \ {b} /\ Leave(b)
      BY <1>0, <1>5, <2>1 DEF ProcessWhole
    <2>3. MaxLen \in 0 .. MaxLen + 1 /\ Len(<<>>) = 0 /\ FpSize \in Nat
      BY PollingAssumption
    <2>4. p \in Progress /\ p.fp = <<>> /\ p.lm = i.lm
      BY <1>1, <2>1, <2>3, NewProgressSound DEF Progress, NewProgress
    <2>5. Sound(b, p)'
      BY <1>1, <1>2, <1>3, <1>5, <2>3, <2>4
         DEF Sound, useIncremental, isIncrementalFormat
    <2> QED
      BY <1>2, <1>4, <2>2, <2>4, <2>5, NoJobSound, JobStep DEF Leave
  <1>6. CASE ~isIncrementalFormat
    <2>1. PICK j : j = [i EXCEPT !.pc = "read"]
      OBVIOUS
    <2>2. job' = [job EXCEPT ![b] = j] /\ UNCHANGED <<cp, warned>>
      BY <1>0, <1>1, <1>6, <2>1 DEF ProcessWhole, JobStates
    <2>3. /\ j \in JobStates /\ j.pc = "read" /\ j.fp = i.fp /\ j.head = i.head
          /\ j.data = i.data /\ j.off = i.off /\ j.lm = i.lm
      BY <1>1, <2>1 DEF JobStates
    <2>4. JobSound(b, j)'
      BY <1>1, <1>2, <1>3, <1>6, <2>3 DEF JobSound, Tidy, isIncrementalFormat
    <2> QED
      BY <1>2, <1>4, <2>2, <2>3, <2>4, JobStep
  <1> QED
    BY <1>5, <1>6

LEMMA AfterWholeStep ==
    ASSUME IInv, NEW b \in Blobs, NEW ok \in BOOLEAN, AfterWhole(b, ok)
    PROVE  IInv'
  <1> USE DEF sink, store
  <1>1. Typed /\ job[b].pc = "read" /\ ~isIncrementalFormat /\ Read(b)
    BY JobFacts DEF JobSound, AfterWhole
  <1>2. /\ UNCHANGED <<cfg, now, sink, cp, store, poll, todo, aged, phase>>
        /\ job' = [job EXCEPT ![b] = NoJob]
        /\ \/ UNCHANGED <<gone, blob>>
           \/ gone' = gone \cup {b} /\ blob' = [blob EXCEPT ![b].there = FALSE]
        /\ lastBlob' \in {b, lastBlob}
    BY DEF AfterWhole, Leave
  <1>3. failures' \in 0 .. cfg.faults
    <2>1. failures' = failures \/ Fails("delete")
      BY DEF AfterWhole
    <2> QED
      BY <1>1, <2>1, FailuresBounded DEF FaultKinds
  <1>4. \A c \in Blobs :
            /\ Steady(c) /\ blob'[c] \in BlobStates
            /\ blob'[c].mtime = blob[c].mtime /\ blob'[c].gen = blob[c].gen
            /\ blob'[c].there => blob[c].there
    BY <1>1, <1>2, Still
  <1>5. Typed'
    <2>1. blob' \in [Blobs -> BlobStates]
      BY <1>1, <1>2, <1>4 DEF Typed, Shapes
    <2>2. job' \in [Blobs -> JobStates]
      BY <1>1, <1>2, NoJobSound DEF Typed, Shapes
    <2>3. gone' \subseteq Blobs /\ lastBlob' \in Blobs \cup {None}
      BY <1>1, <1>2 DEF Typed, Scalars
    <2> QED
      BY <1>1, <1>2, <1>3, <2>1, <2>2, <2>3
         DEF Typed, Scalars, Shapes, isIncrementalFormat
  <1>6. ASSUME NEW c \in Blobs PROVE BlobSound(c)'
    <2>1. /\ blob'[c].mtime <= now' /\ (blob'[c].there => blob'[c].gen > 0)
          /\ (blob'[c].gen > 0 => PathTime(c) <= blob'[c].mtime)
      BY <1>2, <1>4 DEF IInv, BlobSound
    <2>2. CASE c \in gone' => c \in gone
      BY <1>1, <1>4, <1>5, <2>1, <2>2, BlobStays DEF IInv
    <2>3. CASE c \in gone' /\ c \notin gone
      <3>1. c = b
        BY <1>2, <2>3
      <3>2. Frozen(b)
        <4>1. job[b].pc # "none" => blob[b].gen > 0
          BY JobFacts DEF JobSound
        <4> QED
          BY <1>1, <4>1 DEF Frozen, useIncremental
      <3>3. Read(b)'
        BY <1>1, <1>4, <3>2, ReadStays
      <3> QED
        BY <1>1, <1>2, <2>1, <3>1, <3>3 DEF BlobSound, useIncremental, isIncrementalFormat
    <2> QED
      BY <2>2, <2>3
  <1>7. \A c \in Blobs : \A p \in Entries(c)' : p \in Entries(c) \/ Sound(c, p)'
    BY <1>2 DEF Entries
  <1>8. \A c \in Blobs : aged'[c] # None => Closed(c)' /\ ~aged'[c].quarantined
    BY <1>2 DEF IInv, Closed
  <1>9. \A c \in Blobs : \A j \in {job'[c]} : j = job[c] \/ JobSound(c, j)'
    <2>1. \A c \in Blobs : job'[c] = (IF c = b THEN NoJob ELSE job[c])
      BY <1>1, <1>2 DEF Typed, Shapes
    <2> QED
      BY <2>1, NoJobSound
  <1> QED
    BY <1>4, <1>5, <1>6, <1>7, <1>8, <1>9, Framed

LEMMA ListStep ==
    ASSUME IInv, NEW b \in Blobs, List(b)
    PROVE  IInv'
  <1> USE DEF container, sink, store
  <1>1. /\ Typed /\ blob[b] \in BlobStates /\ blob[b].mtime \in Nat
        /\ BlobSound(b)
    BY Numbers DEF IInv, Typed
  <1>2. PICK j : j = [NoJob EXCEPT !.pc = "start", !.lm = blob[b].mtime]
    OBVIOUS
  <1>3. /\ UNCHANGED <<cfg, container, sink, cp, store, poll, lastBlob, aged, phase, failures>>
        /\ todo' = todo \ {b}
        /\ job' = job \/ (Exists(b) /\ job' = [job EXCEPT ![b] = j])
    BY <1>2 DEF List, shouldProcessBlob
  <1>4. /\ j \in JobStates /\ j.pc = "start" /\ j.lm = blob[b].mtime /\ j.off = 0
        /\ j.fp = <<>> /\ j.head = <<>> /\ j.data = <<>>
    BY <1>1, <1>2, NoJobSound DEF JobStates, NoJob
  <1>5. Exists(b) => JobSound(b, j)'
    <2>1. Len(<<>>) = 0 /\ Tidy(<<>>) /\ FpSize \in Nat /\ MaxLen \in Nat
      BY PollingAssumption DEF Tidy
    <2>2. Exists(b) => blob[b].mtime \in PathTime(b) .. now /\ blob[b].gen > 0
      BY <1>1, Numbers DEF BlobSound, Exists
    <2> QED
      BY <1>3, <1>4, <2>1, <2>2 DEF JobSound, Tidy
  <1>6. \A c \in Blobs : Steady(c)
    BY <1>1, <1>3, Still
  <1>7. Typed'
    <2>1. job' \in [Blobs -> JobStates]
      BY <1>1, <1>3, <1>4 DEF Typed, Shapes
    <2> QED
      BY <1>1, <1>3, <2>1 DEF Typed, Scalars, Shapes, isIncrementalFormat
  <1>8. \A c \in Blobs : BlobSound(c)'
    BY <1>1, <1>3, <1>6, <1>7, BlobStays DEF IInv, BlobSound
  <1>9. \A c \in Blobs : \A p \in Entries(c)' : p \in Entries(c) \/ Sound(c, p)'
    BY <1>3 DEF Entries
  <1>10. \A c \in Blobs : aged'[c] # None => Closed(c)' /\ ~aged'[c].quarantined
    BY <1>3 DEF IInv, Closed
  <1>11. \A c \in Blobs : \A i \in {job'[c]} : i = job[c] \/ JobSound(c, i)'
    <2>1. CASE job' = job
      BY <2>1
    <2>2. CASE Exists(b) /\ job' = [job EXCEPT ![b] = j]
      <3>1. \A c \in Blobs : job'[c] = (IF c = b THEN j ELSE job[c])
        BY <1>1, <2>2 DEF Typed, Shapes
      <3> QED
        BY <1>5, <2>2, <3>1
    <2> QED
      BY <1>3, <2>1, <2>2
  <1> QED
    BY <1>6, <1>7, <1>8, <1>9, <1>10, <1>11, Framed

-----------------------------------------------------------------------------
(* The container and the poll.                                             *)

LEMMA ContainerStep ==
    ASSUME IInv, UNCHANGED <<cfg, gone, sink, cp, store, polling, aged, job, phase>>,
           failures' \in 0 .. cfg.faults, now' \in 1 .. Horizon, now <= now',
           blob' \in [Blobs -> BlobStates],
           \A b \in Blobs :
                /\ Steady(b) /\ blob'[b].mtime <= now'
                /\ blob'[b].there => blob'[b].gen > 0
                /\ blob'[b].gen > 0 => PathTime(b) <= blob'[b].mtime
    PROVE  IInv'
  <1> USE DEF sink, store, polling
  <1>1. Typed
    BY DEF IInv, Typed
  <1>2. Typed'
    <2>1. /\ cp.lp <= now /\ saved.lp <= now /\ poll.end <= now
          /\ cp.lp \in Nat /\ saved.lp \in Nat /\ poll.end \in Nat /\ now \in Nat
      BY <1>1, PollingAssumption DEF Typed, Scalars, Shapes, Checkpoints
    <2>2. cp.lp <= now' /\ saved.lp <= now' /\ poll.end <= now'
      BY <2>1, PollingAssumption
    <2> QED
      BY <1>1, <2>2 DEF Typed, Scalars, Shapes, isIncrementalFormat
  <1>3. \A b \in Blobs : BlobSound(b)'
    BY <1>1, <1>2, BlobStays DEF IInv
  <1>4. \A b \in Blobs : \A p \in Entries(b)' : p \in Entries(b) \/ Sound(b, p)'
    BY DEF Entries
  <1>5. \A b \in Blobs : aged'[b] # None => Closed(b)' /\ ~aged'[b].quarantined
    BY <1>1, <1>2, ClosedStays DEF IInv
  <1>6. \A b \in Blobs : \A j \in {job'[b]} : j = job[b] \/ JobSound(b, j)'
    OBVIOUS
  <1> QED
    BY <1>2, <1>3, <1>4, <1>5, <1>6, Framed

LEMMA TickStep ==
    ASSUME IInv, Tick
    PROVE  IInv' /\ \A b \in Blobs : Steady(b) /\ Dated(b)
  <1>1. Typed
    BY DEF IInv, Typed
  <1>2. /\ now \in Nat /\ now' \in 1 .. Horizon /\ now' = now + 1 /\ UNCHANGED blob
        /\ failures' \in 0 .. cfg.faults
    BY PollingAssumption DEF IInv, Scalars, Tick, receiver
  <1>3. ASSUME NEW b \in Blobs
        PROVE  /\ Steady(b) /\ Dated(b) /\ blob'[b].mtime <= now'
               /\ blob'[b].there => blob'[b].gen > 0
               /\ blob'[b].gen > 0 => PathTime(b) <= blob'[b].mtime
    <2>1. blob[b].gen \in Nat /\ blob[b].len \in Nat /\ blob[b].mtime \in Nat
      BY <1>1, Numbers
    <2> QED
      BY <1>2, <2>1 DEF IInv, BlobSound, Steady, Dated, Tick, receiver, sink
  <1>4. blob' \in [Blobs -> BlobStates]
    BY <1>1, <1>2 DEF Typed, Shapes
  <1>5. UNCHANGED <<cfg, gone, sink, cp, store, polling, aged, job, phase>>
    BY DEF Tick, receiver
  <1>6. now <= now'
    BY <1>2
  <1> QED
    BY <1>2, <1>3, <1>4, <1>5, <1>6, ContainerStep

\* The blob is written to, or removed by another party.
LEMMA Replaced ==
    ASSUME IInv, NEW b \in Blobs, Writing(b), UNCHANGED now,
           UNCHANGED <<cfg, gone, sink, cp, store, polling, aged, job, phase>>,
           failures' \in 0 .. cfg.faults,
           NEW x \in BlobStates, blob' = [blob EXCEPT ![b] = x],
           x.mtime = now \/ (x.mtime = blob[b].mtime /\ x.gen = blob[b].gen),
           x.gen >= blob[b].gen, x.gen = blob[b].gen => x.len >= blob[b].len,
           x.there => x.gen > 0,
           Gzip(b) /\ x.gen = blob[b].gen => x.mtime = blob[b].mtime,
           Frozen(b) => x.gen = blob[b].gen /\ x.len = blob[b].len /\ x.tail = blob[b].tail
    PROVE  IInv' /\ \A c \in Blobs : Steady(c) /\ Dated(c)
  <1>1. Typed
    BY DEF IInv, Typed
  <1>2. blob' \in [Blobs -> BlobStates]
    BY <1>1 DEF Typed, Shapes
  <1>3. ASSUME NEW c \in Blobs
        PROVE  /\ Steady(c) /\ Dated(c) /\ blob'[c].mtime <= now'
               /\ blob'[c].there => blob'[c].gen > 0
               /\ blob'[c].gen > 0 => PathTime(c) <= blob'[c].mtime
    <2>1. /\ blob[c].gen \in Nat /\ blob[c].len \in Nat /\ blob[c].mtime \in Nat
          /\ now \in Nat /\ PathTime(c) \in Nat
      BY <1>1, Numbers
    <2>2. BlobSound(c)
      BY DEF IInv
    <2>3. CASE c # b
      <3>1. blob'[c] = blob[c]
        BY <1>1, <2>3 DEF Typed, Shapes
      <3> QED
        BY <2>1, <2>2, <3>1 DEF BlobSound, Steady, Dated, sink
    <2>4. CASE c = b
      <3>1. blob'[b] = x
        BY <1>1 DEF Typed, Shapes
      <3>2. PathTime(b) <= now
        BY <2>1, <2>4, PollingAssumption DEF Writing
      <3>3. x.gen > 0 => PathTime(b) <= x.mtime
        BY <2>2, <2>4, <3>2 DEF BlobSound
      <3>4. x.mtime <= now
        BY <2>1, <2>2, <2>4 DEF BlobSound
      <3>5. Steady(b)
        BY <2>1, <3>1 DEF Steady, sink
      <3> QED
        BY <2>4, <3>1, <3>3, <3>4, <3>5 DEF Dated
    <2> QED
      BY <2>3, <2>4
  <1>4. now' \in 1 .. Horizon /\ now <= now'
    BY <1>1, PollingAssumption DEF Typed, Scalars
  <1> QED
    BY <1>2, <1>3, <1>4, ContainerStep

LEMMA WriteStep ==
    ASSUME IInv, NEW b \in Blobs,
           \/ \E n \in 0 .. MaxLen : Put(b, n)
           \/ \E k \in {"none", "open", "cut"} : Extend(b, k)
           \/ Remove(b)
    PROVE  IInv' /\ \A c \in Blobs : Steady(c) /\ Dated(c)
  <1>1. Typed
    BY DEF IInv, Typed
  <1>2. /\ blob[b] \in BlobStates /\ blob[b].gen \in 0 .. MaxGen /\ blob[b].len \in 0 .. MaxLen
        /\ blob[b].tail \in Ends /\ blob[b].mtime \in Nat /\ MaxGen \in Nat /\ MaxLen \in Nat
        /\ now \in Nat /\ PathTime(b) \in Nat /\ Period \in Nat
        /\ (blob[b].there => blob[b].gen > 0)
    BY <1>1, Numbers DEF BlobStates, IInv, BlobSound
  <1>3. /\ UNCHANGED <<cfg, gone, sink, cp, store, polling, aged, job, phase>>
        /\ UNCHANGED now
        /\ Writing(b)
        /\ failures' = failures \/ Fails("remove")
    BY DEF Put, Extend, Remove, receiver, Fails
  <1>4. failures' \in 0 .. cfg.faults
    BY <1>1, <1>3, FailuresBounded DEF FaultKinds
  <1>5. Frozen(b) =>
            blob[b].gen > 0 /\ WrittenOnce(b) /\ ~(isIncrementalFormat /\ GzipRewritten)
    BY <1>2, <1>3 DEF Writing, Closed, Frozen, WrittenOnce
  <1>6. ASSUME NEW n \in 0 .. MaxLen, Put(b, n)
        PROVE  IInv' /\ \A c \in Blobs : Steady(c) /\ Dated(c)
    <2>1. PICK x : x = [gen |-> blob[b].gen + 1, len |-> n, tail |-> "none",
                        mtime |-> now, there |-> TRUE]
      OBVIOUS
    <2>2. blob' = [blob EXCEPT ![b] = x]
      BY <1>6, <2>1 DEF Put
    <2>3. x \in BlobStates /\ x.gen = blob[b].gen + 1 /\ x.mtime = now
      BY <1>2, <1>6, <2>1 DEF Put, BlobStates, Ends
    <2>4. ~Frozen(b)
      BY <1>2, <1>5, <1>6 DEF Put
    <2>5. x.gen > 0 /\ x.gen > blob[b].gen
      BY <1>2, <2>3
    <2>6. x.gen >= blob[b].gen /\ x.gen # blob[b].gen
      BY <1>2, <2>3
    <2> QED
      BY <1>3, <1>4, <2>2, <2>3, <2>4, <2>5, <2>6, Replaced
  <1>7. ASSUME NEW k \in {"none", "open", "cut"}, Extend(b, k)
        PROVE  IInv' /\ \A c \in Blobs : Steady(c) /\ Dated(c)
    <2>1. PICK m \in 0 .. MaxLen :
            /\ m >= blob[b].len
            /\ blob' = [blob EXCEPT ![b].len = m, ![b].tail = k, ![b].mtime = now]
      <3>1. CASE /\ blob[b].len < MaxLen
                 /\ blob' = [blob EXCEPT ![b].len = @ + 1, ![b].tail = k, ![b].mtime = now]
        <4>1. /\ blob[b].len + 1 \in 0 .. MaxLen /\ blob[b].len + 1 >= blob[b].len
              /\ blob' = [blob EXCEPT ![b].len = blob[b].len + 1, ![b].tail = k,
                                      ![b].mtime = now]
          BY <1>2, <3>1
        <4> QED
          BY <4>1
      <3>2. CASE blob' = [blob EXCEPT ![b].tail = k, ![b].mtime = now]
        <4>1. blob[b].len \in 0 .. MaxLen /\ blob[b].len >= blob[b].len
          BY <1>2
        <4>2. blob' = [blob EXCEPT ![b].len = blob[b].len, ![b].tail = k, ![b].mtime = now]
          BY <1>1, <3>2 DEF Typed, Shapes, BlobStates
        <4> QED
          BY <4>1, <4>2
      <3> QED
        BY <1>7, <3>1, <3>2 DEF Extend
    <2>2. PICK x : x = [blob[b] EXCEPT !.len = m, !.tail = k, !.mtime = now]
      OBVIOUS
    <2>3. blob' = [blob EXCEPT ![b] = x]
      BY <1>1, <2>1, <2>2 DEF Typed, Shapes, BlobStates
    <2>4. /\ x \in BlobStates /\ x.gen = blob[b].gen /\ x.mtime = now /\ x.len = m
          /\ x.there = blob[b].there
      BY <1>2, <2>2 DEF BlobStates, Ends
    <2>5. ~Frozen(b) /\ ~Gzip(b)
      BY <1>5, <1>7 DEF Extend, WrittenOnce, useIncremental
    <2>6. x.gen >= blob[b].gen /\ (x.there => x.gen > 0) /\ x.len >= blob[b].len
      BY <1>2, <2>1, <2>4
    <2> QED
      BY <1>3, <1>4, <2>3, <2>4, <2>5, <2>6, Replaced
  <1>8. CASE Remove(b)
    <2>1. PICK x : x = [blob[b] EXCEPT !.there = FALSE]
      OBVIOUS
    <2>2. blob' = [blob EXCEPT ![b] = x]
      BY <1>1, <1>8, <2>1 DEF Remove, Typed, Shapes, BlobStates
    <2>3. /\ x \in BlobStates /\ x.gen = blob[b].gen /\ x.mtime = blob[b].mtime
          /\ x.len = blob[b].len /\ x.there = FALSE /\ x.tail = blob[b].tail
      BY <1>2, <2>1 DEF BlobStates
    <2>4. x.gen >= blob[b].gen /\ x.len >= blob[b].len
      BY <1>2, <2>3
    <2> QED
      BY <1>3, <1>4, <2>2, <2>3, <2>4, Replaced
  <1> QED
    BY <1>6, <1>7, <1>8

\* A step of the poll or of the life of the process.
LEMMA PollStep ==
    ASSUME IInv, Typed', UNCHANGED <<cfg, now, blob, gone, delivered>>,
           \A b \in Blobs : \A p \in Entries(b)' : p \in Entries(b) \/ p = None,
           \A b \in Blobs : aged'[b] # None => Closed(b) /\ ~aged'[b].quarantined,
           \A b \in Blobs : job'[b] \in {job[b], NoJob}
    PROVE  IInv'
  <1>1. Typed
    BY DEF IInv, Typed
  <1>2. \A b \in Blobs : Steady(b)
    BY <1>1, Still
  <1>3. \A b \in Blobs : BlobSound(b)'
    BY <1>1, <1>2, BlobStays DEF IInv, BlobSound
  <1>4. \A b \in Blobs : \A p \in Entries(b)' : p \in Entries(b) \/ Sound(b, p)'
    BY DEF Sound
  <1>5. \A b \in Blobs : aged'[b] # None => Closed(b)' /\ ~aged'[b].quarantined
    BY DEF Closed
  <1>6. \A b \in Blobs : \A j \in {job'[b]} : j = job[b] \/ JobSound(b, j)'
    BY NoJobSound
  <1> QED
    BY <1>2, <1>3, <1>4, <1>5, <1>6, Framed

LEMMA RunPollStep ==
    ASSUME IInv, RunPoll
    PROVE  IInv'
  <1> USE DEF container, sink, store
  <1>1. Typed /\ cp \in Checkpoints /\ cp.lp \in Nat /\ now \in 1 .. Horizon /\ cp.lp <= now
    BY DEF IInv, Typed, Scalars, Shapes, Checkpoints
  <1>2. RevisitWindow \in Nat /\ InitialLookback \in Nat /\ Horizon \in Nat
    BY PollingAssumption
  <1> DEFINE start == IF cp.lp = 0 THEN now - InitialLookback ELSE cp.lp
             from == IF isIncrementalFormat THEN incrementalHorizonStart(start) ELSE start
  <1>3. start \in Int /\ from \in Int /\ (isIncrementalFormat => from <= now - RevisitWindow)
    BY <1>1, <1>2 DEF incrementalHorizonStart
  <1> HIDE DEF from
  <1>4. poll' = [pc |-> "listing", end |-> now, start |-> from]
    BY DEF RunPoll, from
  <1>5. todo' \subseteq Blobs /\ lastBlob' = None
    BY <1>1, Settings DEF RunPoll, Typed, Scalars
  <1>6. UNCHANGED <<cfg, container, sink, cp, store, aged, job, phase, failures>>
    BY DEF RunPoll
  <1>7. Typed'
    BY <1>1, <1>2, <1>3, <1>4, <1>5, <1>6 DEF Typed, Scalars, Shapes, isIncrementalFormat
  <1> QED
    BY <1>6, <1>7, PollStep DEF IInv, Entries

LEMMA PollEnds ==
    ASSUME Typed, poll' = [poll EXCEPT !.pc = "idle", !.start = 0]
    PROVE  /\ poll' \in [pc : {"idle", "listing", "finalize"}, start : Int, end : Nat]
           /\ poll'.pc = "idle" /\ poll'.end = poll.end
  <1>1. poll \in [pc : {"idle", "listing", "finalize"}, start : Int, end : Nat]
    BY DEF Typed, Scalars
  <1>2. poll' = [pc |-> "idle", start |-> 0, end |-> poll.end] /\ poll.end \in Nat
    BY <1>1
  <1> QED
    BY <1>2

LEMMA PollAbortsStep ==
    ASSUME IInv, PollAborts
    PROVE  IInv'
  <1> USE DEF container, sink, store
  <1>1. Typed
    BY DEF IInv, Typed
  <1>2. failures' \in 0 .. cfg.faults
    BY <1>1, FailuresBounded DEF PollAborts, FaultKinds
  <1>3. UNCHANGED <<cfg, container, sink, cp, store, lastBlob, aged, job, phase>>
    BY DEF PollAborts
  <1>4. Typed'
    <2>1. poll' = [poll EXCEPT !.pc = "idle", !.start = 0] /\ todo' = {}
      BY DEF PollAborts
    <2>2. /\ poll' \in [pc : {"idle", "listing", "finalize"}, start : Int, end : Nat]
          /\ poll'.pc = "idle" /\ poll'.end = poll.end
      BY <1>1, <2>1, PollEnds
    <2> QED
      BY <1>1, <1>2, <1>3, <2>1, <2>2 DEF Typed, Scalars, Shapes, isIncrementalFormat
  <1> QED
    BY <1>3, <1>4, PollStep DEF IInv, Entries

LEMMA WatermarkFacts ==
    ASSUME Typed, NEW ok \in BOOLEAN, makeCheckpoint(ok)
    PROVE  /\ cp' \in Checkpoints /\ saved' \in Checkpoints
           /\ cp'.lp = cp.lp /\ cp'.progress = cp.progress
           /\ saved'.progress = saved.progress \/ saved'.progress = cp.progress
           /\ saved' = saved \/ saved' = cp'
           /\ ok /\ isIncrementalFormat => saved' = cp'
  <1>1. cp \in Checkpoints /\ saved \in Checkpoints /\ lastBlob \in Blobs \cup {None}
    BY DEF Typed, Scalars, Shapes
  <1>2. /\ WithWatermark \in Checkpoints /\ WithWatermark.lp = cp.lp
        /\ WithWatermark.progress = cp.progress
    <2>1. CASE lastBlob = None
      BY <1>1, <2>1 DEF WithWatermark
    <2>2. CASE lastBlob # None
      <3> DEFINE t == Greater(cp.ts, PathTime(lastBlob))
                 d == {lastBlob} \cup IF PathTime(lastBlob) > cp.ts THEN {} ELSE cp.parsed
      <3>1. t \in Nat /\ d \in SUBSET Blobs
        BY <1>1, <2>2, PollingAssumption DEF Greater, Checkpoints
      <3>2. WithWatermark = [cp EXCEPT !.ts = t, !.parsed = d]
        BY <1>1, <2>2 DEF WithWatermark, Checkpoints
      <3> HIDE DEF t, d
      <3> QED
        BY <1>1, <3>1, <3>2 DEF Checkpoints
    <2> QED
      BY <2>1, <2>2
  <1> QED
    BY <1>1, <1>2 DEF makeCheckpoint

LEMMA SavePollStep ==
    ASSUME IInv, NEW ok \in BOOLEAN, SavePoll(ok)
    PROVE  IInv'
  <1> USE DEF container, sink, store
  <1>1. Typed
    BY DEF IInv, Typed
  <1>2. failures' \in 0 .. cfg.faults
    BY <1>1, FailuresBounded DEF SavePoll, FaultKinds
  <1>3. /\ UNCHANGED <<cfg, container, sink, since, forgot, todo, lastBlob, aged, job, phase>>
        /\ poll' = [poll EXCEPT !.pc = "idle", !.start = 0]
        /\ makeCheckpoint(ok)
    BY DEF SavePoll
  <1>4. Typed'
    <2>1. /\ poll' \in [pc : {"idle", "listing", "finalize"}, start : Int, end : Nat]
          /\ poll'.pc = "idle" /\ poll'.end = poll.end
      BY <1>1, <1>3, PollEnds
    <2>2. /\ cp' \in Checkpoints /\ saved' \in Checkpoints /\ cp'.lp = cp.lp
          /\ saved' = saved \/ saved' = cp'
      BY <1>1, <1>3, WatermarkFacts
    <2> QED
      BY <1>1, <1>2, <1>3, <2>1, <2>2 DEF Typed, Scalars, Shapes, isIncrementalFormat
  <1>5. \A b \in Blobs : \A p \in Entries(b)' : p \in Entries(b)
    BY <1>1, <1>3, WatermarkFacts DEF Entries
  <1> QED
    BY <1>3, <1>4, <1>5, PollStep DEF IInv

LEMMA ShutdownStep ==
    ASSUME IInv, Shutdown
    PROVE  IInv'
  <1> USE DEF container, sink, store, polling
  <1>1. Typed
    BY DEF IInv, Typed
  <1>2. failures' \in 0 .. cfg.faults
    BY <1>1, FailuresBounded DEF Shutdown, FaultKinds, Fails
  <1>3. UNCHANGED <<cfg, container, sink, cp, store, polling, aged, job>> /\ phase' = "stopping"
    BY DEF Shutdown
  <1>4. Typed'
    BY <1>1, <1>2, <1>3 DEF Typed, Scalars, Shapes, isIncrementalFormat
  <1> QED
    BY <1>3, <1>4, PollStep DEF IInv, Entries

LEMMA ShutdownCompletesStep ==
    ASSUME IInv, NEW ok \in BOOLEAN, ShutdownCompletes(ok)
    PROVE  IInv'
  <1> USE DEF container, sink, polling
  <1>1. Typed
    BY DEF IInv, Typed
  <1>2. failures' \in 0 .. cfg.faults
    BY <1>1, FailuresBounded DEF ShutdownCompletes, FaultKinds, Fails
  <1>3. /\ UNCHANGED <<cfg, container, sink, since, polling, aged, job>>
        /\ makeCheckpoint(ok) /\ phase' = "down" /\ forgot' \in BOOLEAN
    BY <1>1 DEF ShutdownCompletes, Typed, Scalars
  <1>4. Typed'
    BY <1>1, <1>2, <1>3, WatermarkFacts DEF Typed, Scalars, Shapes, isIncrementalFormat
  <1>5. \A b \in Blobs : \A p \in Entries(b)' : p \in Entries(b)
    BY <1>1, <1>3, WatermarkFacts DEF Entries
  <1> QED
    BY <1>3, <1>4, <1>5, PollStep DEF IInv

LEMMA CrashStep ==
    ASSUME IInv, Crash
    PROVE  IInv'
  <1> USE DEF container, sink
  <1>1. Typed
    BY DEF IInv, Typed
  <1>2. failures' \in 0 .. cfg.faults
    BY <1>1, FailuresBounded DEF Crash, FaultKinds
  <1>3. /\ UNCHANGED <<cfg, container, sink, cp, saved, since, lastBlob>>
        /\ phase' = "down" /\ forgot' = TRUE /\ poll' = NoPoll /\ todo' = {}
        /\ aged' = [b \in Blobs |-> None] /\ job' = [b \in Blobs |-> NoJob]
    BY DEF Crash
  <1>4. Typed'
    <2>1. aged' \in [Blobs -> Progress \cup {None}] /\ job' \in [Blobs -> JobStates]
      BY <1>3, NoJobSound
    <2>2. NoPoll \in [pc : {"idle", "listing", "finalize"}, start : Int, end : Nat]
          /\ NoPoll.pc = "idle" /\ NoPoll.end = 0 /\ now \in Nat
      BY <1>1, PollingAssumption DEF NoPoll, Typed, Scalars
    <2> QED
      BY <1>1, <1>2, <1>3, <2>1, <2>2 DEF Typed, Scalars, Shapes, isIncrementalFormat
  <1> QED
    BY <1>3, <1>4, PollStep DEF Entries

LEMMA RestartStep ==
    ASSUME IInv, Restart
    PROVE  IInv'
  <1> USE DEF container, store
  <1>1. Typed
    BY DEF IInv, Typed
  <1>2. /\ UNCHANGED <<cfg, container, delivered, twice, store, todo, aged, job, failures>>
        /\ phase' = "running" /\ cp' = saved /\ poll' = NoPoll /\ lastBlob' = None
        /\ warned' \subseteq Blobs
    BY <1>1 DEF Restart, Typed, Scalars
  <1>3. Typed'
    <2>1. NoPoll \in [pc : {"idle", "listing", "finalize"}, start : Int, end : Nat]
          /\ NoPoll.pc = "idle" /\ NoPoll.end = 0 /\ now \in Nat
      BY <1>1, PollingAssumption DEF NoPoll, Typed, Scalars
    <2>2. saved.lp <= now
      BY DEF IInv, Scalars
    <2> QED
      BY <1>1, <1>2, <2>1, <2>2 DEF Typed, Scalars, Shapes, isIncrementalFormat
  <1> QED
    BY <1>2, <1>3, PollStep DEF IInv, Entries

LEMMA FinalizePollStep ==
    ASSUME IInv, FinalizePoll
    PROVE  IInv'
  <1> USE DEF container
  <1>1. Typed /\ cp \in Checkpoints /\ cp.progress \in [Blobs -> Progress \cup {None}]
    BY DEF IInv, Typed, Shapes, Checkpoints
  <1> DEFINE cutoff == poll.start - SealSkewTolerance
             Drop == {b \in Blobs : cp.progress[b] # None /\
                    (Pruned(cp.progress[b], poll.end) \/ AgedOut(cp.progress[b], cutoff))}
             GiveUp == {b \in Drop : GivenUp(cp.progress[b], cutoff)}
             Aged == {b \in Drop \ GiveUp : AgedOut(cp.progress[b], cutoff)}
             kept == [b \in Blobs |-> IF b \in Drop THEN None ELSE cp.progress[b]]
  <1>2. /\ UNCHANGED <<cfg, container, delivered, twice, saved, forgot, todo, lastBlob, job,
                       phase, failures>>
        /\ poll.pc = "listing" /\ poll' = [poll EXCEPT !.pc = "finalize"]
        /\ aged' = [b \in Blobs |-> IF b \in Aged THEN cp.progress[b] ELSE None]
        /\ warned' = warned \cup GiveUp
        /\ since' = IF cp.lp = 0 THEN poll.start ELSE since
    BY DEF FinalizePoll
  <1>3. cp' = [cp EXCEPT !.lp = poll.end, !.progress = kept]
    BY <1>1 DEF FinalizePoll, Checkpoints
  <1>4. \A b \in Aged : cp.progress[b] # None /\ AgedOut(cp.progress[b], cutoff)
    OBVIOUS
  <1>5. /\ kept \in [Blobs -> Progress \cup {None}]
        /\ \A b \in Blobs : kept[b] = cp.progress[b] \/ kept[b] = None
    BY <1>1
  <1>6. GiveUp \subseteq Blobs
    OBVIOUS
  <1> HIDE DEF Drop, GiveUp, Aged, kept
  <1>7. poll \in [pc : {"idle", "listing", "finalize"}, start : Int, end : Nat]
    BY <1>1 DEF Typed, Scalars
  <1>8. /\ poll' = [pc |-> "finalize", start |-> poll.start, end |-> poll.end]
        /\ poll.start \in Int /\ poll.end \in Nat
    BY <1>2, <1>7
  <1>9. cp' \in Checkpoints /\ cp'.lp = poll.end /\ cp'.progress = kept
    BY <1>1, <1>3, <1>5, <1>8 DEF Checkpoints
  <1>10. aged' \in [Blobs -> Progress \cup {None}]
    BY <1>1, <1>2
  <1>11. Typed'
    <2>1. warned' \subseteq Blobs /\ since' \in Int
      BY <1>1, <1>2, <1>6, <1>8 DEF Typed, Scalars
    <2> QED
      BY <1>1, <1>2, <1>8, <1>9, <1>10, <2>1 DEF Typed, Scalars, Shapes, isIncrementalFormat
  <1>12. ASSUME NEW b \in Blobs, aged'[b] # None
         PROVE  Closed(b) /\ ~aged'[b].quarantined
    <2>1. /\ b \in Aged /\ aged'[b] = cp.progress[b] /\ cp.progress[b] # None
          /\ AgedOut(cp.progress[b], cutoff)
      BY <1>2, <1>4, <1>12
    <2>2. /\ Sound(b, cp.progress[b]) /\ cp.progress[b].lm \in PathTime(b) .. now
          /\ isIncrementalFormat
      BY <2>1 DEF IInv, Entries, Sound
    <2>3. /\ PathTime(b) \in Nat /\ Period \in Nat /\ RevisitWindow \in Nat /\ now \in Nat
          /\ Period <= RevisitWindow /\ SealSkewTolerance \in Nat
      BY <1>1, Numbers, PollingAssumption
    <2>4. poll.start <= poll.end - RevisitWindow /\ poll.end <= now
      BY <1>1, <1>2, <2>2 DEF Typed, Scalars
    <2> QED
      BY <1>8, <2>1, <2>2, <2>3, <2>4 DEF AgedOut, Closed
  <1>13. \A b \in Blobs : \A p \in Entries(b)' : p \in Entries(b) \/ p = None
    BY <1>2, <1>5, <1>9 DEF Entries
  <1> QED
    BY <1>2, <1>11, <1>12, <1>13, PollStep

-----------------------------------------------------------------------------
(* The seal of a blob.                                                     *)

LEMMA AgedFacts ==
    ASSUME IInv, NEW b \in Blobs, aged[b] # None
    PROVE  /\ Typed /\ aged[b] \in Progress /\ Sound(b, aged[b])
           /\ Closed(b) /\ ~aged[b].quarantined
           /\ aged[b].off \in 0 .. MaxLen + 1 /\ aged[b].fp \in Seq(Units)
  <1>1. /\ Typed /\ aged[b] \in Progress /\ Sound(b, aged[b])
        /\ Closed(b) /\ ~aged[b].quarantined
    BY DEF IInv, Typed, Shapes, Entries
  <1> QED
    BY <1>1 DEF Progress

\* The progress a flush resumes from covers the blob, and the blob there is
\* has been delivered up to its offset.
LEMMA ResumedFacts ==
    ASSUME IInv, NEW b \in Blobs, aged[b] # None, useIncremental(b)
    PROVE  /\ Resumed(b) \in Progress /\ Resumed(b).lm = aged[b].lm
           /\ Resumed(b).off \in 0 .. MaxLen + 1
           /\ Len(Resumed(b).fp) <= FpSize
           /\ Covers(b, Resumed(b).off, Resumed(b).fp)
           /\ Exists(b) /\ Content(b) # <<>> =>
                Has(b, Resumed(b).off) /\ Within(b, Resumed(b).off)
  <1> DEFINE p == aged[b]
             c == Content(b)
  <1>1. /\ p \in Progress /\ Sound(b, p) /\ p.off \in 0 .. MaxLen + 1 /\ p.fp \in Seq(Units)
        /\ Typed
    BY AgedFacts
  <1>2. /\ Covers(b, p.off, p.fp) /\ Len(p.fp) <= FpSize
    BY <1>1 DEF Sound, useIncremental
  <1>3. /\ blob[b] \in BlobStates /\ blob[b].len \in Nat /\ blob[b].gen \in Nat
        /\ MaxLen \in Nat
    BY <1>1, Numbers
  <1>4. c \in Seq(Units) /\ (c # <<>> => c[1].gen = blob[b].gen)
    <2>1. c \in Seq(Units)
      BY <1>3, ContentFacts
    <2>2. c # <<>> => 1 \in 1 .. Len(c)
      BY <2>1, EmptySeq
    <2>3. c # <<>> => c[1] = Unit(blob[b].gen, 1, IF 1 <= blob[b].len THEN "none" ELSE blob[b].tail)
      BY <1>3, <2>2, ContentFacts
    <2> QED
      BY <2>1, <2>3 DEF Unit
  <1>5. CASE Exists(b) /\ c # <<>> /\ p.off > 0 /\ p.fp # <<>> /\ needsReset(p.off, p.fp, c)
    <2>1. Resumed(b) = [p EXCEPT !.off = 0, !.fp = Fingerprint(c)]
      BY <1>5 DEF Resumed
    <2>2. /\ Fingerprint(c) \in Seq(Units) /\ Len(Fingerprint(c)) <= FpSize
          /\ Fingerprint(c) # <<>> /\ Fingerprint(c)[1] = c[1]
      BY <1>4, <1>5, FingerprintFacts
    <2>3. 0 \in 0 .. MaxLen + 1
      BY <1>3
    <2> HIDE DEF p
    <2>4. /\ Resumed(b) \in Progress /\ Resumed(b).lm = p.lm /\ Resumed(b).off = 0
          /\ Resumed(b).fp = Fingerprint(c)
      BY <1>1, <2>1, <2>2, <2>3 DEF Progress
    <2>5. Has(b, 0) /\ Within(b, 0)
      BY <1>3 DEF Has, Within
    <2>6. Covers(b, 0, Fingerprint(c))
      BY <1>3, <1>4, <1>5, <2>2, <2>5 DEF Covers
    <2> QED
      BY <2>2, <2>3, <2>4, <2>5, <2>6 DEF p
  <1>6. CASE ~(Exists(b) /\ c # <<>> /\ p.off > 0 /\ p.fp # <<>> /\ needsReset(p.off, p.fp, c))
    <2>1. Resumed(b) = p
      BY <1>6 DEF Resumed
    <2>2. ASSUME Exists(b), c # <<>>, p.off > 0, p.fp # <<>> PROVE p.fp[1].gen = blob[b].gen
      <3>1. ~needsReset(p.off, p.fp, c)
        BY <1>6, <2>2
      <3>2. p.fp[1] = c[1]
        BY <1>1, <1>3, <1>4, <3>1, NoReset
      <3> QED
        BY <1>4, <2>2, <3>2
    <2>3. p.off = 0 => Has(b, p.off) /\ Within(b, p.off)
      BY <1>3 DEF Has, Within
    <2>4. Exists(b) /\ c # <<>> => Has(b, p.off) /\ Within(b, p.off)
      BY <1>1, <1>2, <1>3, <2>2, <2>3 DEF Covers
    <2> QED
      BY <1>1, <1>2, <2>1, <2>4
  <1> QED
    BY <1>5, <1>6

\* The tail a flush reads.
LEMMA SealTailFacts ==
    ASSUME IInv, NEW b \in Blobs, aged[b] # None, useIncremental(b)
    PROVE  /\ SealTail(b) \in Seq(Units) /\ Tidy(SealTail(b))
           /\ Resumed(b).off + Len(SealTail(b)) <= MaxLen + 1
           /\ ~Exists(b) => SealTail(b) = <<>>
           /\ Exists(b) => SealTail(b) = Delta(b, Resumed(b).off)
           /\ \A k \in 1 .. Len(SealTail(b)) :
                /\ SealTail(b)[k].gen = blob[b].gen
                /\ SealTail(b)[k].pos = Resumed(b).off + k
                /\ Resumed(b).off + k > blob[b].len =>
                    /\ blob[b].tail # "none" /\ SealTail(b)[k].end = blob[b].tail
                    /\ Resumed(b).off + k = blob[b].len + 1
  <1>1. Resumed(b).off \in 0 .. MaxLen + 1 /\ MaxLen \in Nat
    BY ResumedFacts, PollingAssumption
  <1>2. blob[b] \in BlobStates /\ blob[b].len \in Nat
    BY AgedFacts, Numbers
  <1>3. CASE ~Exists(b)
    <2>1. SealTail(b) = <<>> /\ Len(<<>>) = 0 /\ <<>> \in Seq(Units)
      BY <1>3 DEF SealTail
    <2> QED
      BY <1>1, <1>3, <2>1 DEF Tidy
  <1>4. CASE Exists(b)
    <2> DEFINE o == Resumed(b).off
               s == Delta(b, o)
    <2>1. SealTail(b) = s
      BY <1>4 DEF SealTail, Delta
    <2>2. /\ s \in Seq(Units) /\ Tidy(s) /\ o + Len(s) <= MaxLen + 1
          /\ \A k \in 1 .. Len(s) :
                /\ o + k <= Len(Content(b))
                /\ s[k].gen = blob[b].gen /\ s[k].pos = o + k
                /\ s[k].end = (IF o + k <= blob[b].len THEN "none" ELSE blob[b].tail)
      BY <1>1, <1>2, DeltaFacts
    <2> HIDE DEF s
    <2>3. ASSUME NEW k \in 1 .. Len(s), o + k > blob[b].len
          PROVE  blob[b].tail # "none" /\ s[k].end = blob[b].tail /\ o + k = blob[b].len + 1
      <3>1. o + k <= Len(Content(b)) /\ o + k \in Nat /\ ~(o + k <= blob[b].len)
        BY <1>1, <1>2, <2>2, <2>3
      <3>2. blob[b].tail # "none" /\ o + k = blob[b].len + 1
        BY <1>2, <3>1, ContentFacts
      <3> QED
        BY <2>2, <3>1, <3>2
    <2> QED
      BY <1>4, <2>1, <2>2, <2>3 DEF s
  <1> QED
    BY <1>3, <1>4

\* The progress after n units of the tail, all of them records, is sound.
LEMMA FlushSound ==
    ASSUME IInv, NEW b \in Blobs, aged[b] # None, useIncremental(b),
           NEW n \in Nat, n <= Emitted(SealTail(b)),
           UNCHANGED <<cfg, now, blob>>, delivered \subseteq delivered',
           \A k \in 1 .. n :
                <<b, SealTail(b)[k].gen, SealTail(b)[k].pos>> \in delivered',
           NEW q \in Progress, q.off = Resumed(b).off + n, q.fp = Resumed(b).fp,
           q.lm = aged[b].lm
    PROVE  Sound(b, q)'
  <1>0. PICK o, s : o = Resumed(b).off /\ s = SealTail(b)
    OBVIOUS
  <1>1. /\ o \in Nat /\ Len(q.fp) <= FpSize /\ Covers(b, o, q.fp)
        /\ blob[b].len \in Nat
    <2>1. MaxLen \in Nat
      BY PollingAssumption
    <2> QED
      BY <1>0, <2>1, ResumedFacts, AgedFacts, Numbers
  <1>2. /\ s \in Seq(Units) /\ Tidy(s) /\ Len(s) \in Nat
        /\ \A k \in 1 .. Len(s) :
            /\ s[k].gen = blob[b].gen /\ s[k].pos = o + k
            /\ o + k > blob[b].len =>
                blob[b].tail # "none" /\ s[k].end = blob[b].tail /\ o + k = blob[b].len + 1
    BY <1>0, SealTailFacts, LenProperties
  <1>3. /\ n <= Len(s) /\ n <= Emitted(s)
        /\ \A k \in 1 .. Emitted(s) : s[k].end = "none" \/ TailIsRecord(s[k].end)
        /\ Emitted(s) \in Nat
    <2>1. /\ Emitted(s) \in Complete(s) .. Len(s)
          /\ \A k \in 1 .. Emitted(s) : s[k].end = "none" \/ TailIsRecord(s[k].end)
      BY <1>2, EmittedFacts
    <2>2. Complete(s) \in Nat
      BY <1>2, CompleteFacts
    <2> QED
      BY <1>0, <1>2, <2>1, <2>2
  <1>4. Closed(b) /\ isIncrementalFormat /\ blob[b].gen > 0 /\ q.lm \in PathTime(b) .. now
        /\ ~Gzip(b)
    BY AgedFacts DEF Sound, useIncremental
  <1>5. ASSUME q.fp = <<>> \/ q.fp[1].gen = blob[b].gen
        PROVE  Has(b, o + n)' /\ Within(b, o + n)'
    <2>1. Has(b, o) /\ Within(b, o)
      BY <1>1, <1>5 DEF Covers
    <2>2. \A k \in 1 .. n : <<b, blob[b].gen, o + k>> \in delivered'
      BY <1>0, <1>2, <1>3
    <2>3. Has(b, o + n)'
      <3> SUFFICES ASSUME NEW i \in 1 .. o + n PROVE <<b, blob[b].gen, i>> \in delivered'
        BY DEF Has
      <3>1. CASE i <= o
        BY <1>1, <2>1, <3>1 DEF Has
      <3>2. CASE i > o
        <4>1. i - o \in 1 .. n /\ o + (i - o) = i
          BY <1>1, <3>2
        <4> QED
          BY <2>2, <4>1
      <3> QED
        BY <1>1, <3>1, <3>2
    <2>4. Within(b, o + n)'
      <3>1. CASE n = 0
        <4>1. o + n = o
          BY <1>1, <3>1
        <4> QED
          BY <2>1, <4>1 DEF Within, Closed, TailIsRecord
      <3>2. CASE n > 0 /\ o + n <= blob[b].len
        BY <3>2 DEF Within
      <3>3. CASE n > 0 /\ o + n > blob[b].len
        <4>1. n \in 1 .. Len(s) /\ n \in 1 .. Emitted(s)
          BY <1>3, <3>3
        <4>2. blob[b].tail # "none" /\ TailIsRecord(blob[b].tail)
          BY <1>2, <1>3, <3>3, <4>1
        <4> QED
          BY <1>2, <1>4, <3>3, <4>1, <4>2 DEF TailIsRecord, Within, Closed
      <3> QED
        BY <1>1, <3>1, <3>2, <3>3
    <2> QED
      BY <2>3, <2>4
  <1>6. Covers(b, q.off, q.fp)'
    <2>1. q.off = o + n
      BY <1>0
    <2>2. q.fp # <<>> => q.fp[1].gen <= blob'[b].gen
      BY <1>1 DEF Covers
    <2>3. Closed(b)'
      BY <1>4 DEF Closed
    <2> QED
      BY <1>5, <2>1, <2>2, <2>3 DEF Covers
  <1> QED
    BY <1>1, <1>4, <1>6 DEF Sound, isIncrementalFormat

\* An entry that differs from a sound one that is not quarantined in its flags
\* and its failures only.
LEMMA SoundLike ==
    ASSUME UNCHANGED <<cfg, now, blob>>, delivered \subseteq delivered',
           NEW b \in Blobs, NEW p \in Progress, NEW q \in Progress,
           p # None, Sound(b, p), ~p.quarantined,
           q.off = p.off, q.fp = p.fp, q.lm = p.lm, q.err = p.err
    PROVE  Sound(b, q)'
  <1>1. Sound(b, q)
    BY DEF Sound
  <1> QED
    BY <1>1, SoundSame

\* An entry put back after a failure, or quarantined.
LEMMA Retracked ==
    ASSUME NEW b \in Blobs, NEW p \in Progress, NEW quarantinable \in BOOLEAN,
           warned \subseteq Blobs, retrackOrQuarantine(b, p, quarantinable),
           \A q \in Progress : q.off = p.off /\ q.fp = p.fp /\ q.lm = p.lm /\ q.err = p.err
                                => Sound(b, q)'
    PROVE  /\ \E q \in Progress : saveProgress(b, q) /\ Sound(b, q)'
           /\ warned' \subseteq Blobs
  <1>1. CASE Cancelled
    BY <1>1 DEF retrackOrQuarantine
  <1>2. CASE ~Cancelled
    <2> DEFINE n == p.fails + 1
               quarantine == quarantinable /\ n >= MaxFinalizeFailures
    <2>1. PICK q : q = [p EXCEPT !.fails = n, !.quarantined = quarantine]
      OBVIOUS
    <2>2. n \in Nat /\ quarantine \in BOOLEAN
      BY DEF Progress
    <2>3. saveProgress(b, q) /\ warned' \subseteq Blobs
      BY <1>2, <2>1 DEF retrackOrQuarantine
    <2> HIDE DEF n, quarantine
    <2>4. /\ q \in Progress /\ q.off = p.off /\ q.fp = p.fp /\ q.lm = p.lm /\ q.err = p.err
      BY <2>1, <2>2 DEF Progress
    <2> QED
      BY <2>3, <2>4
  <1> QED
    BY <1>1, <1>2

LEMMA DropNeverReadStep ==
    ASSUME IInv, NEW b \in Blobs, DropNeverRead(b)
    PROVE  IInv'
  <1>1. Typed /\ warned \subseteq Blobs /\ twice \subseteq delivered
    BY DEF IInv, Typed, Scalars
  <1>2. failures' \in 0 .. cfg.faults
    BY <1>1, FailuresBounded DEF DropNeverRead
  <1>3. /\ UNCHANGED <<finalizing, blob, gone, delivered, twice, cp>> /\ Done(b)
        /\ warned' = warned \cup {b}
    BY DEF DropNeverRead
  <1> QED
    BY <1>1, <1>2, <1>3, AgedStep

\* A whole tail, delivered.
LEMMA TailDelivered ==
    ASSUME NEW b \in Blobs, NEW s \in Seq(Units), NEW n \in 0 .. Len(s),
           RecordsOf(b, SubSeq(s, 1, n)) \subseteq delivered',
           \A k \in 1 .. n : s[k].end = "none" \/ TailIsRecord(s[k].end)
    PROVE  \A k \in 1 .. n : <<b, s[k].gen, s[k].pos>> \in delivered'
  BY RecordsOfHead

\* The entry of a whole flush.
LEMMA FlushedFacts ==
    ASSUME IInv, NEW b \in Blobs, aged[b] # None, useIncremental(b)
    PROVE  /\ Flushed(b) \in Progress
           /\ Flushed(b).off = Resumed(b).off + Emitted(SealTail(b))
           /\ Flushed(b).fp = Resumed(b).fp /\ Flushed(b).lm = Resumed(b).lm
  <1>1. PICK r, s, e : r = Resumed(b) /\ s = SealTail(b) /\ e = Emitted(SealTail(b))
    OBVIOUS
  <1>2. /\ s \in Seq(Units) /\ Tidy(s) /\ Len(s) \in Nat /\ r.off + Len(s) <= MaxLen + 1
    BY <1>1, SealTailFacts, LenProperties
  <1>3. r \in Progress /\ r.off \in 0 .. MaxLen + 1 /\ MaxLen \in Nat
    BY <1>1, ResumedFacts, PollingAssumption
  <1>4. e \in Nat /\ e <= Len(s)
    <2>1. Emitted(s) \in Complete(s) .. Len(s) /\ Complete(s) \in 0 .. Len(s)
      BY <1>2, EmittedFacts, CompleteFacts
    <2> QED
      BY <1>1, <1>2, <2>1
  <1>5. Flushed(b) = [r EXCEPT !.off = r.off + e]
    BY <1>1, <1>3 DEF Flushed, Progress
  <1>6. r.off + e \in 0 .. MaxLen + 1
    BY <1>2, <1>3, <1>4
  <1>7. /\ Flushed(b) \in Progress /\ Flushed(b).off = r.off + e
        /\ Flushed(b).fp = r.fp /\ Flushed(b).lm = r.lm
    BY <1>3, <1>5, <1>6 DEF Progress
  <1> QED
    BY <1>1, <1>7

\* A blob flushed to its end.
LEMMA FlushedSound ==
    ASSUME IInv, NEW b \in Blobs, aged[b] # None, useIncremental(b),
           UNCHANGED <<cfg, now, blob>>, delivered \subseteq delivered',
           RecordsOf(b, SealTail(b)) \subseteq delivered'
    PROVE  /\ Flushed(b) \in Progress
           /\ Flushed(b).off = Resumed(b).off + Emitted(SealTail(b))
           /\ \A q \in Progress :
                q.off = Flushed(b).off /\ q.fp = Flushed(b).fp /\ q.lm = Flushed(b).lm
                    => Sound(b, q)'
  <1>0. PICK r, s, e : r = Resumed(b) /\ s = SealTail(b) /\ e = Emitted(SealTail(b))
    OBVIOUS
  <1>1. /\ s \in Seq(Units) /\ Tidy(s) /\ Len(s) \in Nat /\ r.off + Len(s) <= MaxLen + 1
    BY <1>0, SealTailFacts, LenProperties
  <1>2. /\ r \in Progress /\ r.lm = aged[b].lm /\ r.off \in 0 .. MaxLen + 1 /\ MaxLen \in Nat
    BY <1>0, ResumedFacts, PollingAssumption
  <1>3. /\ e \in Nat /\ e <= Len(s) /\ e \in 0 .. Len(s)
        /\ \A k \in 1 .. e : s[k].end = "none" \/ TailIsRecord(s[k].end)
    <2>1. /\ Emitted(s) \in Complete(s) .. Len(s)
          /\ \A k \in 1 .. Emitted(s) : s[k].end = "none" \/ TailIsRecord(s[k].end)
          /\ Complete(s) \in 0 .. Len(s)
      BY <1>1, EmittedFacts, CompleteFacts
    <2> QED
      BY <1>0, <1>1, <2>1
  <1>4. /\ Flushed(b) \in Progress /\ Flushed(b).off = r.off + e /\ Flushed(b).fp = r.fp
        /\ Flushed(b).lm = r.lm
    BY <1>0, FlushedFacts
  <1>5. \A k \in 1 .. e : <<b, s[k].gen, s[k].pos>> \in delivered'
    <2>1. SubSeq(s, 1, Len(s)) = s
      BY <1>1, SubSeqFull
    <2>2. ASSUME NEW k \in 1 .. e PROVE <<b, s[k].gen, s[k].pos>> \in RecordsOf(b, s)
      <3>1. Len(s) \in 0 .. Len(s) /\ k \in 1 .. Len(s)
        BY <1>1, <1>3
      <3>2. <<b, s[k].gen, s[k].pos>> \in RecordsOf(b, SubSeq(s, 1, Len(s)))
        BY <1>1, <1>3, <3>1, RecordsOfHead
      <3> QED
        BY <2>1, <3>2
    <2> QED
      BY <1>0, <2>2
  <1>6. ASSUME NEW q \in Progress, q.off = Flushed(b).off, q.fp = Flushed(b).fp,
               q.lm = Flushed(b).lm
        PROVE  Sound(b, q)'
    <2>1. q.off = Resumed(b).off + e /\ q.fp = Resumed(b).fp /\ q.lm = aged[b].lm
      BY <1>0, <1>2, <1>4, <1>6
    <2> QED
      BY <1>0, <1>3, <1>5, <2>1, FlushSound
  <1> QED
    BY <1>0, <1>4, <1>6

LEMMA UnparseableStep ==
    ASSUME IInv, NEW b \in Blobs, Unparseable(b)
    PROVE  IInv'
  <1>1. Typed /\ warned \subseteq Blobs /\ twice \subseteq delivered
    BY DEF IInv, Typed, Scalars
  <1>2. failures' \in 0 .. cfg.faults
    BY <1>1, FailuresBounded DEF Unparseable
  <1>3. /\ UNCHANGED <<finalizing, blob, gone>> /\ Done(b) /\ warned' = warned \cup {b}
        /\ aged[b] # None /\ useIncremental(b)
        /\ Deliver(RecordsOf(b, SealTail(b)))
        /\ saveProgress(b, [Flushed(b) EXCEPT !.quarantined = TRUE])
    BY DEF Unparseable, Finalizable, Finalizing
  <1>4. /\ delivered \subseteq delivered' /\ twice' \subseteq delivered'
        /\ RecordsOf(b, SealTail(b)) \subseteq delivered'
    BY <1>1, <1>3 DEF Deliver
  <1>5. PICK f, q : f = Flushed(b) /\ q = [f EXCEPT !.quarantined = TRUE]
    OBVIOUS
  <1>6. /\ f \in Progress
        /\ \A x \in Progress : x.off = f.off /\ x.fp = f.fp /\ x.lm = f.lm => Sound(b, x)'
    BY <1>3, <1>4, <1>5, FlushedSound DEF finalizing
  <1>7. q \in Progress /\ q.off = f.off /\ q.fp = f.fp /\ q.lm = f.lm
    BY <1>5, <1>6 DEF Progress
  <1>8. \E x \in Progress : saveProgress(b, x) /\ Sound(b, x)'
    BY <1>3, <1>5, <1>6, <1>7
  <1> QED
    BY <1>1, <1>2, <1>3, <1>4, <1>8, AgedStep

LEMMA FlushReadFailsStep ==
    ASSUME IInv, NEW b \in Blobs, NEW afterHead \in BOOLEAN, NEW permanent \in BOOLEAN,
           FlushReadFails(b, afterHead, permanent)
    PROVE  IInv'
  <1>1. Typed /\ warned \subseteq Blobs /\ twice \subseteq delivered
    BY DEF IInv, Typed, Scalars
  <1>2. failures' \in 0 .. cfg.faults
    BY <1>1, FailuresBounded DEF FlushReadFails, Fails, FaultKinds
  <1>3. PICK p : p = IF afterHead THEN Resumed(b) ELSE aged[b]
    OBVIOUS
  <1>4. /\ UNCHANGED <<finalizing, blob, gone, delivered, twice>> /\ Done(b)
        /\ aged[b] # None /\ useIncremental(b)
        /\ retrackOrQuarantine(b, p, permanent)
    BY <1>3 DEF FlushReadFails, Finalizable, Finalizing
  <1>5. /\ p \in Progress /\ p.off \in Nat
        /\ \A q \in Progress : q.off = p.off /\ q.fp = p.fp /\ q.lm = p.lm /\ q.err = p.err
                                => Sound(b, q)'
    <2>1. CASE afterHead
      <3>1. p = Resumed(b) /\ p \in Progress /\ p.off \in 0 .. MaxLen + 1 /\ MaxLen \in Nat
            /\ p.lm = aged[b].lm
        BY <1>3, <1>4, <2>1, ResumedFacts, PollingAssumption
      <3>2. Emitted(SealTail(b)) \in Nat
        <4>1. SealTail(b) \in Seq(Units) /\ Tidy(SealTail(b))
          BY <1>4, SealTailFacts
        <4> QED
          BY <4>1, EmittedFacts, CompleteFacts
      <3>3. ASSUME NEW q \in Progress, q.off = p.off, q.fp = p.fp, q.lm = p.lm
            PROVE  Sound(b, q)'
        <4>1. q.off = Resumed(b).off + 0 /\ q.fp = Resumed(b).fp /\ q.lm = aged[b].lm
              /\ 0 \in Nat /\ 0 <= Emitted(SealTail(b))
          BY <3>1, <3>2, <3>3
        <4>2. \A k \in 1 .. 0 :
                <<b, SealTail(b)[k].gen, SealTail(b)[k].pos>> \in delivered'
          OBVIOUS
        <4> QED
          BY <1>4, <4>1, <4>2, FlushSound DEF finalizing
      <3> QED
        BY <3>1, <3>3
    <2>2. CASE ~afterHead
      <3>1. p = aged[b] /\ p \in Progress /\ p # None /\ Sound(b, p) /\ ~p.quarantined
            /\ p.off \in 0 .. MaxLen + 1 /\ MaxLen \in Nat
        BY <1>3, <1>4, <2>2, AgedFacts, PollingAssumption
      <3> QED
        BY <1>4, <3>1, SoundLike DEF finalizing
    <2> QED
      BY <2>1, <2>2
  <1>6. /\ \E q \in Progress : saveProgress(b, q) /\ Sound(b, q)'
        /\ warned' \subseteq Blobs
    BY <1>1, <1>4, <1>5, Retracked
  <1> QED
    BY <1>1, <1>2, <1>4, <1>6, AgedStep

LEMMA FlushConsumeFailsStep ==
    ASSUME IInv, NEW b \in Blobs, NEW n \in 0 .. MaxLen, FlushConsumeFails(b, n)
    PROVE  IInv'
  <1>1. Typed /\ warned \subseteq Blobs /\ twice \subseteq delivered
    BY DEF IInv, Typed, Scalars
  <1>2. failures' \in 0 .. cfg.faults
    BY <1>1, FailuresBounded DEF FlushConsumeFails, FaultKinds
  <1>3. PICK s, r, p : /\ s = SealTail(b) /\ r = Resumed(b)
                       /\ p = [Resumed(b) EXCEPT !.off = Resumed(b).off + n]
    OBVIOUS
  <1>4. /\ UNCHANGED <<finalizing, blob, gone>> /\ Done(b)
        /\ aged[b] # None /\ useIncremental(b)
        /\ n = 0 \/ n = Complete(s)
        /\ Deliver(RecordsOf(b, SubSeq(s, 1, n)))
        /\ retrackOrQuarantine(b, p, FALSE)
    <2>1. aged[b] # None /\ useIncremental(b)
      BY DEF FlushConsumeFails, Finalizable, Finalizing
    <2>2. Resumed(b) \in Progress
      BY <2>1, ResumedFacts
    <2>3. p = [Resumed(b) EXCEPT !.off = @ + n]
      BY <1>3, <2>2 DEF Progress
    <2> QED
      BY <1>3, <2>1, <2>3 DEF FlushConsumeFails
  <1>5. /\ delivered \subseteq delivered' /\ twice' \subseteq delivered'
        /\ RecordsOf(b, SubSeq(s, 1, n)) \subseteq delivered'
    BY <1>1, <1>4 DEF Deliver
  <1>6. /\ s \in Seq(Units) /\ Tidy(s) /\ Len(s) \in Nat /\ r.off + Len(s) <= MaxLen + 1
    BY <1>3, <1>4, SealTailFacts, LenProperties
  <1>7. /\ r \in Progress /\ r.lm = aged[b].lm /\ r.off \in 0 .. MaxLen + 1 /\ MaxLen \in Nat
    BY <1>3, <1>4, ResumedFacts, PollingAssumption
  <1>8. /\ n \in Nat /\ n \in 0 .. Len(s) /\ n <= Emitted(s)
        /\ \A k \in 1 .. n : s[k].end = "none"
    <2>1. /\ Emitted(s) \in Complete(s) .. Len(s) /\ Complete(s) \in 0 .. Len(s)
          /\ \A k \in 1 .. Complete(s) : s[k].end = "none"
      BY <1>6, EmittedFacts, CompleteFacts
    <2> QED
      BY <1>4, <1>6, <2>1
  <1>9. r.off + n \in 0 .. MaxLen + 1
    BY <1>6, <1>7, <1>8
  <1>10. p \in Progress /\ p.off = r.off + n /\ p.fp = r.fp /\ p.lm = r.lm
    BY <1>3, <1>7, <1>9 DEF Progress
  <1>11. \A k \in 1 .. n : <<b, s[k].gen, s[k].pos>> \in delivered'
    BY <1>5, <1>6, <1>8, TailDelivered
  <1>12. ASSUME NEW q \in Progress, q.off = p.off, q.fp = p.fp, q.lm = p.lm
         PROVE  Sound(b, q)'
    <2>1. q.off = Resumed(b).off + n /\ q.fp = Resumed(b).fp /\ q.lm = aged[b].lm
      BY <1>3, <1>7, <1>10, <1>12
    <2> QED
      BY <1>3, <1>4, <1>5, <1>8, <1>11, <2>1, FlushSound DEF finalizing
  <1>13. /\ \E q \in Progress : saveProgress(b, q) /\ Sound(b, q)'
         /\ warned' \subseteq Blobs
    BY <1>1, <1>4, <1>10, <1>12, Retracked
  <1> QED
    BY <1>1, <1>2, <1>4, <1>5, <1>13, AgedStep

LEMMA ContentSame ==
    ASSUME NEW b \in Blobs, blob'[b].gen = blob[b].gen, blob'[b].len = blob[b].len,
           blob'[b].tail = blob[b].tail
    PROVE  Content(b)' = Content(b)
  BY DEF Content

\* All of a blob whose flush ends clean is delivered: what lies under the offset
\* was, the rest is the tail.
LEMMA FlushedIsRead ==
    ASSUME IInv, NEW b \in Blobs, aged[b] # None, useIncremental(b), Exists(b),
           CleanSeal(SealTail(b)), RecordsOf(b, SealTail(b)) \subseteq delivered',
           delivered \subseteq delivered', cfg' = cfg,
           blob'[b].gen = blob[b].gen, blob'[b].len = blob[b].len, blob'[b].tail = blob[b].tail
    PROVE  Read(b)' /\ (cfg.format # "text" => blob[b].tail # "cut")
  <1>1. PICK o, c, s : o = Resumed(b).off /\ c = Content(b) /\ s = SealTail(b)
    OBVIOUS
  <1>2. Typed /\ blob[b] \in BlobStates /\ blob[b].len \in Nat /\ MaxLen \in Nat
    BY AgedFacts, Numbers
  <1>3. /\ c \in Seq(Units) /\ Len(c) \in Nat /\ DOMAIN c = 1 .. Len(c)
        /\ Len(c) = blob[b].len + (IF blob[b].tail = "none" THEN 0 ELSE 1)
        /\ \A i \in 1 .. Len(c) : c[i].gen = blob[b].gen /\ c[i].pos = i
    <2>1. /\ c \in Seq(Units)
          /\ Len(c) = blob[b].len + (IF blob[b].tail = "none" THEN 0 ELSE 1)
          /\ \A i \in 1 .. Len(c) :
                c[i] = Unit(blob[b].gen, i, IF i <= blob[b].len THEN "none" ELSE blob[b].tail)
      BY <1>1, <1>2, ContentFacts
    <2>2. Len(c) \in Nat /\ DOMAIN c = 1 .. Len(c)
      BY <2>1, LenProperties
    <2>3. \A g, i, k : Unit(g, i, k).gen = g /\ Unit(g, i, k).pos = i
      BY DEF Unit
    <2> QED
      BY <2>1, <2>2, <2>3
  <1>4. o \in Nat /\ (c # <<>> => Has(b, o) /\ Within(b, o))
    BY <1>1, <1>2, ResumedFacts
  <1>5. /\ s \in Seq(Units) /\ Tidy(s) /\ Len(s) \in Nat /\ DOMAIN s = 1 .. Len(s)
        /\ Len(s) = (IF o <= Len(c) THEN Len(c) - o ELSE 0)
        /\ \A k \in 1 .. Len(s) :
            s[k] = c[o + k] /\ s[k].end = (IF o + k <= blob[b].len THEN "none" ELSE blob[b].tail)
    <2>1. o \in 0 .. MaxLen + 1 /\ s = Delta(b, o)
      BY <1>1, ResumedFacts, SealTailFacts
    <2>2. /\ Delta(b, o) \in Seq(Units) /\ Tidy(Delta(b, o))
          /\ o + Len(Delta(b, o)) <= MaxLen + 1
          /\ \A k \in 1 .. Len(Delta(b, o)) :
                /\ o + k <= Len(Content(b)) /\ Delta(b, o)[k] = Content(b)[o + k]
                /\ Delta(b, o)[k].gen = blob[b].gen /\ Delta(b, o)[k].pos = o + k
                /\ Delta(b, o)[k].end =
                        (IF o + k <= blob[b].len THEN "none" ELSE blob[b].tail)
          /\ Len(Delta(b, o)) =
                (IF o <= Len(Content(b)) THEN Len(Content(b)) - o ELSE 0)
      BY <1>2, <2>1, DeltaFacts
    <2>3. Len(s) \in Nat /\ DOMAIN s = 1 .. Len(s)
      BY <2>1, <2>2, LenProperties
    <2> QED
      BY <1>1, <2>1, <2>2, <2>3
  <1>6. Content(b)' = c
    BY <1>1, ContentSame
  <1>7. ASSUME NEW i \in DOMAIN c, c[i].end = "none" \/ TailIsRecord(c[i].end)
        PROVE  <<b, c[i].gen, c[i].pos>> \in delivered'
    <2>1. i \in 1 .. Len(c) /\ c # <<>>
      BY <1>3
    <2>2. CASE i <= o
      <3>1. i \in 1 .. o
        BY <1>3, <1>4, <2>1, <2>2
      <3> QED
        BY <1>3, <1>4, <2>1, <3>1 DEF Has
    <2>3. CASE i > o
      <3>1. i - o \in 1 .. Len(s) /\ o + (i - o) = i
        BY <1>3, <1>4, <1>5, <2>1, <2>3
      <3>2. s[i - o] = c[i]
        BY <1>5, <3>1
      <3>3. <<b, c[i].gen, c[i].pos>> \in RecordsOf(b, s)
        BY <1>5, <1>7, <3>1, <3>2 DEF RecordsOf
      <3> QED
        BY <1>1, <3>3
    <2> QED
      BY <1>3, <1>4, <2>1, <2>2, <2>3
  <1>8. Read(b)'
    <2>1. \A k : TailIsRecord(k)' <=> TailIsRecord(k)
      BY DEF TailIsRecord
    <2> QED
      BY <1>6, <1>7, <2>1 DEF Read, RecordsOf
  <1>9. ASSUME cfg.format # "text", blob[b].tail = "cut" PROVE FALSE
    <2>1. Len(c) = blob[b].len + 1 /\ c # <<>>
      BY <1>2, <1>3, <1>9
    <2>2. o <= blob[b].len
      BY <1>4, <1>9, <2>1 DEF Within, TailIsRecord
    <2>3. Len(s) = blob[b].len + 1 - o /\ Len(s) \in 1 .. Len(s) /\ o + Len(s) > blob[b].len
      BY <1>2, <1>4, <1>5, <2>1, <2>2
    <2>4. s # <<>> /\ s[Len(s)].end = "cut"
      <3>1. s # <<>>
        BY <1>5, <2>3
      <3>2. ~(o + Len(s) <= blob[b].len)
        BY <1>2, <1>4, <2>3
      <3> QED
        BY <1>5, <1>9, <2>3, <3>1, <3>2
    <2>5. EndOf(s) = "cut"
      BY <2>4 DEF EndOf
    <2>6. cfg.format \in {"json", "records-json"}
      BY <1>2, <1>9, Settings DEF Typed, Scalars, useIncremental, isIncrementalFormat
    <2> QED
      BY <1>1, <2>4, <2>5, <2>6 DEF CleanSeal
  <1> QED
    BY <1>8, <1>9

\* The entry a blob is retired with.
LEMMA RetiredSound ==
    ASSUME IInv, NEW b \in Blobs, aged[b] # None,
           UNCHANGED <<cfg, now, blob>>, delivered \subseteq delivered',
           useIncremental(b) => RecordsOf(b, SealTail(b)) \subseteq delivered',
           NEW p, p = IF useIncremental(b) THEN Flushed(b) ELSE aged[b]
    PROVE  /\ p \in Progress
           /\ \A q \in Progress : q.off = p.off /\ q.fp = p.fp /\ q.lm = p.lm /\ q.err = p.err
                                    => Sound(b, q)'
  <1>1. CASE useIncremental(b)
    BY <1>1, FlushedSound
  <1>2. CASE ~useIncremental(b)
    <2>1. p = aged[b] /\ p \in Progress /\ p # None /\ Sound(b, p) /\ ~p.quarantined
      BY <1>2, AgedFacts
    <2> QED
      BY <2>1, SoundLike
  <1> QED
    BY <1>1, <1>2

LEMMA RetireStep ==
    ASSUME IInv, NEW b \in Blobs, NEW ok \in BOOLEAN, Retire(b, ok)
    PROVE  IInv'
  <1>1. Typed /\ warned \subseteq Blobs /\ twice \subseteq delivered
    BY DEF IInv, Typed, Scalars
  <1>2. PICK p : p = IF useIncremental(b) THEN Flushed(b) ELSE aged[b]
    OBVIOUS
  <1>3. /\ UNCHANGED finalizing /\ Done(b)
        /\ aged[b] # None /\ ~(aged[b].err /\ aged[b].off = 0)
        /\ useIncremental(b) => CleanSeal(SealTail(b))
        /\ Deliver(IF useIncremental(b) THEN RecordsOf(b, SealTail(b)) ELSE {})
    BY DEF Retire, Finalizable, Finalizing
  <1>4. /\ delivered \subseteq delivered' /\ twice' \subseteq delivered'
        /\ useIncremental(b) => RecordsOf(b, SealTail(b)) \subseteq delivered'
    BY <1>1, <1>3 DEF Deliver
  <1>5. \/ /\ saveProgress(b, [p EXCEPT !.sealed = TRUE])
           /\ UNCHANGED <<blob, gone, warned, failures>>
        \/ /\ blob' = [blob EXCEPT ![b].there = FALSE]
           /\ gone' = IF Exists(b) THEN gone \cup {b} ELSE gone
           /\ UNCHANGED <<cp, warned, failures>>
        \/ /\ Fails("delete") /\ retrackOrQuarantine(b, p, TRUE)
           /\ UNCHANGED <<blob, gone>>
    BY <1>2 DEF Retire
  <1>6. CASE saveProgress(b, [p EXCEPT !.sealed = TRUE])
             /\ UNCHANGED <<blob, gone, warned, failures>>
    <2>1. PICK q : q = [p EXCEPT !.sealed = TRUE]
      OBVIOUS
    <2>2. /\ p \in Progress
          /\ \A x \in Progress : x.off = p.off /\ x.fp = p.fp /\ x.lm = p.lm /\ x.err = p.err
                                    => Sound(b, x)'
      BY <1>2, <1>3, <1>4, <1>6, RetiredSound DEF finalizing
    <2>3. q \in Progress /\ q.off = p.off /\ q.fp = p.fp /\ q.lm = p.lm /\ q.err = p.err
      BY <2>1, <2>2 DEF Progress
    <2>4. \E x \in Progress : saveProgress(b, x) /\ Sound(b, x)'
      BY <1>6, <2>1, <2>2, <2>3
    <2>5. failures' \in 0 .. cfg.faults
      BY <1>1, <1>6, FailuresBounded
    <2> QED
      BY <1>1, <1>3, <1>4, <1>6, <2>4, <2>5, AgedStep
  <1>7. CASE /\ blob' = [blob EXCEPT ![b].there = FALSE]
             /\ gone' = IF Exists(b) THEN gone \cup {b} ELSE gone
             /\ UNCHANGED <<cp, warned, failures>>
    <2>1. failures' \in 0 .. cfg.faults
      BY <1>1, <1>7, FailuresBounded
    <2>2. CASE ~Exists(b)
      BY <1>1, <1>3, <1>4, <1>7, <2>1, <2>2, AgedStep
    <2>3. CASE Exists(b) /\ useIncremental(b)
      <3>1. Read(b)' /\ (cfg.format # "text" => blob[b].tail # "cut")
        <4>1. blob[b] \in BlobStates /\ blob \in [Blobs -> BlobStates]
          BY <1>1, Numbers DEF Typed, Shapes
        <4>2. /\ blob'[b].gen = blob[b].gen /\ blob'[b].len = blob[b].len
              /\ blob'[b].tail = blob[b].tail
          BY <1>7, <4>1 DEF BlobStates
        <4> QED
          BY <1>3, <1>4, <2>3, <4>2, FlushedIsRead DEF finalizing
      <3> QED
        BY <1>1, <1>3, <1>4, <1>7, <2>1, <2>3, <3>1, AgedStep
    <2>4. CASE Exists(b) /\ ~useIncremental(b)
      <3>1. ~(Gzip(b) /\ GzipRewritten) => Read(b)
        <4>1. Sound(b, aged[b]) /\ ~aged[b].quarantined
          BY <1>3, AgedFacts
        <4> QED
          BY <1>3, <2>4, <4>1 DEF Sound, useIncremental
      <3>2. Content(b)' = Content(b) /\ cfg' = cfg
        <4>1. blob[b] \in BlobStates /\ blob \in [Blobs -> BlobStates]
          BY <1>1, Numbers DEF Typed, Shapes
        <4>2. /\ blob'[b].gen = blob[b].gen /\ blob'[b].len = blob[b].len
              /\ blob'[b].tail = blob[b].tail
          BY <1>7, <4>1 DEF BlobStates
        <4> QED
          BY <1>3, <4>2, ContentSame DEF finalizing
      <3>3. Read(b) => Read(b)'
        <4>1. \A k : TailIsRecord(k)' <=> TailIsRecord(k)
          BY <3>2 DEF TailIsRecord
        <4> QED
          BY <1>4, <3>2, <4>1 DEF Read, RecordsOf
      <3> QED
        BY <1>1, <1>3, <1>4, <1>7, <2>1, <2>4, <3>1, <3>3, AgedStep
    <2> QED
      BY <2>2, <2>3, <2>4
  <1>8. CASE Fails("delete") /\ retrackOrQuarantine(b, p, TRUE) /\ UNCHANGED <<blob, gone>>
    <2>1. failures' \in 0 .. cfg.faults
      BY <1>1, <1>8, FailuresBounded DEF FaultKinds
    <2>2. /\ p \in Progress
          /\ \A x \in Progress : x.off = p.off /\ x.fp = p.fp /\ x.lm = p.lm /\ x.err = p.err
                                    => Sound(b, x)'
      BY <1>2, <1>3, <1>4, <1>8, RetiredSound DEF finalizing
    <2>3. /\ \E q \in Progress : saveProgress(b, q) /\ Sound(b, q)'
          /\ warned' \subseteq Blobs
      BY <1>1, <1>8, <2>2, Retracked
    <2> QED
      BY <1>1, <1>3, <1>4, <1>8, <2>1, <2>3, AgedStep
  <1> QED
    BY <1>5, <1>6, <1>7, <1>8

-----------------------------------------------------------------------------
(* The invariant and what follows from it.                                 *)

LEMMA InitInv ==
    ASSUME Init
    PROVE  IInv
  <1>1. cfg \in Scenarios /\ cfg.faults \in Nat
    BY Settings DEF Init
  <1>2. /\ now = 1 /\ gone = {} /\ delivered = {} /\ twice = {} /\ warned = {}
        /\ cp = NewPollingCheckpoint /\ saved = NewPollingCheckpoint /\ since = 0
        /\ forgot = FALSE /\ poll = NoPoll /\ todo = {} /\ lastBlob = None
        /\ aged = [b \in Blobs |-> None] /\ job = [b \in Blobs |-> NoJob]
        /\ phase = "running" /\ failures = 0
    BY DEF Init
  <1>3. Scalars
    <2>1. NoPoll \in [pc : {"idle", "listing", "finalize"}, start : Int, end : Nat]
          /\ NoPoll.pc = "idle" /\ NoPoll.end = 0 /\ NewPollingCheckpoint.lp = 0
      BY DEF NoPoll, NewPollingCheckpoint
    <2>2. 1 \in 1 .. Horizon
      BY PollingAssumption
    <2>3. /\ now \in 1 .. Horizon /\ cp.lp <= now /\ saved.lp <= now /\ poll.end <= now
          /\ since \in Int /\ failures \in 0 .. cfg.faults /\ poll.pc = "idle"
      BY <1>1, <1>2, <2>1, <2>2
    <2> QED
      BY <1>1, <1>2, <2>1, <2>3 DEF Scalars
  <1>4. /\ \A b \in Blobs : blob[b] = [gen |-> 0, len |-> 0, tail |-> "none", mtime |-> 0,
                                       there |-> FALSE]
        /\ blob \in [Blobs -> BlobStates]
    <2>1. [gen |-> 0, len |-> 0, tail |-> "none", mtime |-> 0, there |-> FALSE] \in BlobStates
      BY PollingAssumption DEF BlobStates, Ends
    <2> QED
      BY <2>1 DEF Init
  <1>5. NewPollingCheckpoint \in Checkpoints
    BY DEF NewPollingCheckpoint, Checkpoints
  <1>6. Shapes
    BY <1>2, <1>4, <1>5, NoJobSound DEF Shapes
  <1>7. ASSUME NEW b \in Blobs
        PROVE  /\ BlobSound(b) /\ \A p \in Entries(b) : Sound(b, p)
               /\ aged[b] = None /\ JobSound(b, job[b])
    <2>1. BlobSound(b)
      BY <1>2, <1>4 DEF BlobSound
    <2>2. Entries(b) = {None}
      BY <1>2 DEF Entries, NewPollingCheckpoint
    <2> QED
      BY <1>2, <2>1, <2>2, NoJobSound DEF Sound
  <1> QED
    BY <1>3, <1>6, <1>7 DEF IInv

LEMMA UnchangedStep ==
    ASSUME IInv, UNCHANGED vars
    PROVE  IInv'
  <1> USE DEF vars, container, sink, store, polling
  <1>1. Typed
    BY DEF IInv, Typed
  <1>2. Typed'
    BY <1>1 DEF Typed, Scalars, Shapes, isIncrementalFormat
  <1> QED
    BY <1>2, PollStep DEF IInv, Entries

LEMMA NextInv ==
    ASSUME IInv, [Next]_vars
    PROVE  IInv'
  <1>1. CASE Tick \/ RunPoll \/ PollAborts \/ FinalizePoll \/ Shutdown \/ Crash \/ Restart
    BY <1>1, TickStep, RunPollStep, PollAbortsStep, FinalizePollStep, ShutdownStep,
       CrashStep, RestartStep
  <1>2. CASE \E ok \in BOOLEAN : SavePoll(ok) \/ ShutdownCompletes(ok)
    BY <1>2, SavePollStep, ShutdownCompletesStep
  <1>3. ASSUME NEW b \in Blobs,
               \/ \E n \in 0 .. MaxLen : Put(b, n)
               \/ \E k \in {"none", "open", "cut"} : Extend(b, k)
               \/ Remove(b)
        PROVE  IInv'
    BY <1>3, WriteStep
  <1>4. ASSUME NEW b \in Blobs,
               \/ List(b) \/ Start(b) \/ ReadHead(b) \/ ReadTail(b)
               \/ PermanentReadError(b) \/ TransientReadError(b)
               \/ ConsumeDelta(b) \/ DeltaStuck(b) \/ ConsumeFails(b)
               \/ ProcessWhole(b) \/ WholeTransientError(b) \/ WholePermanentError(b)
        PROVE  IInv'
    BY <1>4, ListStep, StartStep, ReadHeadStep, ReadTailStep, ReadErrorStep,
       ConsumeDeltaStep, ConsumeErrorStep, ProcessWholeStep, WholeErrorStep
  <1>5. ASSUME NEW b \in Blobs,
               \/ DropNeverRead(b) \/ Unparseable(b)
               \/ \E afterHead, permanent \in BOOLEAN :
                    FlushReadFails(b, afterHead, permanent)
               \/ \E n \in 0 .. MaxLen : FlushConsumeFails(b, n)
               \/ \E ok \in BOOLEAN : AfterWhole(b, ok) \/ Retire(b, ok)
        PROVE  IInv'
    BY <1>5, DropNeverReadStep, UnparseableStep, FlushReadFailsStep,
       FlushConsumeFailsStep, AfterWholeStep, RetireStep
  <1>6. CASE UNCHANGED vars
    BY <1>6, UnchangedStep
  <1> QED
    BY <1>1, <1>2, <1>3, <1>4, <1>5, <1>6 DEF Next

LEMMA Invariant == Spec => []IInv
  BY InitInv, NextInv, PTL DEF Spec

\* Every variable has its type throughout: an offset never exceeds what a blob
\* can hold, the time an entry was modified at is never in the future and a
\* fingerprint never longer than fingerprint_size, whatever is written between
\* two reads of a blob.
THEOREM TypeCorrect == Spec => []TypeOK
  <1>1. ASSUME IInv PROVE TypeOK
    <2>1. Typed
      BY <1>1 DEF IInv, Typed
    <2>2. ASSUME NEW b \in Blobs
          PROVE  /\ blob[b].gen \in 0 .. MaxGen /\ blob[b].len \in 0 .. MaxLen
                 /\ blob[b].tail \in {"none", "open", "cut"}
                 /\ blob[b].mtime \in 0 .. now /\ blob[b].there \in BOOLEAN
                 /\ job[b].pc \in {"none", "start", "head", "tail", "consume", "whole",
                                   "read"}
      <3>1. blob[b] \in BlobStates /\ job[b] \in JobStates /\ blob[b].mtime <= now
        BY <1>1 DEF IInv, Shapes, BlobSound
      <3>2. now \in Nat /\ blob[b].mtime \in Nat
        BY <2>1, Numbers
      <3> QED
        BY <3>1, <3>2 DEF BlobStates, JobStates, Ends
    <2>3. ASSUME NEW b \in Blobs, NEW p \in Entries(b), p # None
          PROVE  p.off \in 0 .. MaxLen + 1 /\ p.lm \in 1 .. now /\ Len(p.fp) <= FpSize
      <3>1. p \in Progress /\ Sound(b, p)
        BY <1>1, <2>3 DEF IInv, Shapes, Checkpoints, Entries
      <3>2. PathTime(b) \in Nat /\ PathTime(b) > 0 /\ now \in Nat
        BY <2>1, Numbers
      <3>3. p.off \in 0 .. MaxLen + 1 /\ p.lm \in PathTime(b) .. now /\ Len(p.fp) <= FpSize
        BY <2>3, <3>1 DEF Sound, Progress
      <3> QED
        BY <3>2, <3>3
    <2>4. poll.pc \in {"idle", "listing", "finalize"}
      BY <2>1 DEF Typed, Scalars
    <2> QED
      BY <2>1, <2>2, <2>3, <2>4 DEF TypeOK, Typed, Scalars, Entries
  <1> QED
    BY <1>1, Invariant, PTL

\* verifyResumeIdentity for any number of blobs, writers and failures: the
\* offset of an entry that passes the identity check, in memory or stored, never
\* runs ahead of what was delivered from the blob that is in the container.
THEOREM OffsetsCorrect == Spec => []OffsetsCoverDelivered
  <1>1. ASSUME IInv PROVE OffsetsCoverDelivered
    <2> SUFFICES ASSUME NEW b \in Blobs, NEW p \in Entries(b),
                        useIncremental(b), Exists(b), p # None,
                        p.fp = <<>> \/ ~needsReset(p.off, p.fp, Content(b))
                 PROVE  RecordsOf(b, SubSeq(Content(b), 1, p.off)) \subseteq delivered
      BY DEF OffsetsCoverDelivered, Entries
    <2> DEFINE c == Content(b)
    <2>1. p \in Progress /\ Sound(b, p) /\ Typed
      BY <1>1 DEF IInv, Shapes, Checkpoints, Entries, Typed
    <2>2. /\ p.off \in Nat /\ p.fp \in Seq(Units) /\ Covers(b, p.off, p.fp)
      BY <2>1, PollingAssumption DEF Sound, Progress, useIncremental
    <2>3. blob[b] \in BlobStates /\ blob[b].len \in Nat /\ blob[b].gen \in Nat
      BY <2>1, Numbers
    <2>4. /\ c \in Seq(Units) /\ Len(c) \in Nat
          /\ Len(c) = blob[b].len + (IF blob[b].tail = "none" THEN 0 ELSE 1)
          /\ \A i \in 1 .. Len(c) : c[i].gen = blob[b].gen /\ c[i].pos = i
      <3>1. /\ c \in Seq(Units)
            /\ Len(c) = blob[b].len + (IF blob[b].tail = "none" THEN 0 ELSE 1)
            /\ \A i \in 1 .. Len(c) :
                c[i] = Unit(blob[b].gen, i, IF i <= blob[b].len THEN "none" ELSE blob[b].tail)
        BY <2>3, ContentFacts
      <3>2. \A g, i, k : Unit(g, i, k).gen = g /\ Unit(g, i, k).pos = i
        BY DEF Unit
      <3> QED
        BY <3>1, <3>2, LenProperties
    <2> HIDE DEF c
    <2>5. p.fp = <<>> \/ p.fp[1].gen = blob[b].gen
      <3>1. CASE p.fp # <<>>
        <4>1. c # <<>> /\ p.fp[1] = c[1]
          BY <2>2, <2>4, <3>1, NoReset DEF c
        <4>2. Len(c) > 0
          BY <2>4, <4>1, EmptySeq
        <4> QED
          BY <2>4, <4>1, <4>2
      <3> QED
        BY <3>1
    <2>6. Has(b, p.off) /\ Within(b, p.off)
      BY <2>2, <2>5 DEF Covers
    <2>7. p.off <= Len(c)
      BY <2>2, <2>3, <2>4, <2>6 DEF Within, TailIsRecord
    <2>8. /\ Len(SubSeq(c, 1, p.off)) = p.off /\ SubSeq(c, 1, p.off) \in Seq(Units)
          /\ \A k \in 1 .. p.off : SubSeq(c, 1, p.off)[k] = c[k]
      BY <2>2, <2>4, <2>7, HeadOf
    <2>9. DOMAIN SubSeq(c, 1, p.off) = 1 .. p.off
      BY <2>8, LenProperties
    <2>10. ASSUME NEW k \in 1 .. p.off
           PROVE  <<b, SubSeq(c, 1, p.off)[k].gen, SubSeq(c, 1, p.off)[k].pos>> \in delivered
      <3>1. k \in 1 .. Len(c)
        BY <2>2, <2>4, <2>7
      <3> QED
        BY <2>4, <2>6, <2>8, <3>1 DEF Has
    <2> QED
      BY <2>9, <2>10 DEF RecordsOf, c
  <1> QED
    BY <1>1, Invariant, PTL

\* Deletion on read for any number of blobs, writers and failures: as long as no
\* gzip blob is written a second time, a blob the receiver deletes holds nothing
\* the next consumer does not have, and no cut record.
THEOREM DeletedCorrect ==
    ASSUME ~GzipRewritten
    PROVE  Spec => []DeletedWereDelivered
  <1>1. ASSUME IInv PROVE DeletedWereDelivered
    <2> SUFFICES ASSUME NEW b \in gone
                 PROVE  /\ Undelivered(b) = {}
                        /\ useIncremental(b) /\ cfg.format # "text" => blob[b].tail # "cut"
      BY DEF DeletedWereDelivered
    <2>1. b \in Blobs /\ BlobSound(b)
      BY <1>1 DEF IInv, Scalars
    <2> QED
      BY <2>1 DEF BlobSound, Read, Undelivered
  <1> QED
    BY <1>1, Invariant, PTL

-----------------------------------------------------------------------------
(* Exactly once.  While no checkpoint was lost, an entry knows exactly how *)
(* much of an original blob, one that was not replaced, was delivered: all *)
(* up to its offset (Covers) and nothing past it (Fits).  Its fingerprint  *)
(* is a prefix of the blob, so that no resume starts over.                 *)

Original(b) == blob[b].gen <= 1

\* No record of the original blob past n was delivered.
Fresh(b, n) == \A r \in delivered : r[1] = b /\ r[2] = 1 => r[3] \in 1 .. n

First(b, i) == Unit(1, i, IF i <= blob[b].len THEN "none" ELSE blob[b].tail)

Fits(b, off, fp) ==
    /\ Fresh(b, off) /\ Len(fp) <= off
    /\ \A i \in 1 .. Len(fp) : fp[i] = First(b, i)

\* No later poll lists the blob.
Past(b) == cp.lp > 0 /\ PathTime(b) < cp.lp - RevisitWindow

\* A gzip blob that was read has an entry of the time it was written.
EntryOnce(b, p) ==
    Original(b) /\ p # None =>
        IF Gzip(b) THEN Fresh(b, 0) \/ (p.lm = blob[b].mtime /\ ~p.err)
        ELSE Fits(b, p.off, p.fp)

JobOnce(b, j) ==
    /\ Original(b) =>
        /\ j.pc # "none" /\ cp.progress[b] = None => Fresh(b, 0)
        /\ j.pc # "none" /\ Gzip(b) => Fresh(b, 0) /\ j.lm = blob[b].mtime
        /\ j.pc \in {"head", "tail", "consume"} => Fits(b, j.off, j.fp)
        /\ j.pc \in {"tail", "consume"} =>
            \A i \in 1 .. Len(j.head) : i <= j.off => j.head[i] = First(b, i)
    /\ j.pc = "consume" => \A i \in 1 .. Len(j.data) : j.data[i].gen = 1 => Fresh(b, j.off)

\* An entry is forgotten only when no later poll lists its blob.
OnceAt(b) ==
    /\ Original(b) /\ cp.progress[b] = None => Past(b) \/ Fresh(b, 0)
    /\ EntryOnce(b, cp.progress[b]) /\ EntryOnce(b, aged[b])
    /\ aged[b] # None => Past(b) /\ cp.progress[b] = None
    /\ \A j \in {job[b]} : JobOnce(b, j)

\* Goroutines work during the listing, flushes come after it, and a shutdown
\* saves what is in memory.
Modes ==
    /\ poll.pc # "listing" => Idle
    /\ poll.pc # "finalize" => \A b \in Blobs : aged[b] = None
    /\ phase = "down" => poll.pc = "idle" /\ saved = cp
    /\ poll.pc = "listing" => cp.lp <= poll.end
    /\ poll.pc = "listing" /\ cp.lp > 0 => poll.start >= cp.lp - RevisitWindow

Once == Modes /\ (\A b \in Blobs : OnceAt(b)) /\ \A r \in twice : r[2] > 1

OnceInv == isIncrementalFormat /\ ~forgot => Once

\* What lies under a sound offset stays as it is while the blob is original.
LEMMA FirstStays ==
    ASSUME Typed, Typed', NEW b \in Blobs, Steady(b), blob[b].gen > 0, Original(b)',
           NEW off \in Nat, Within(b, off)
    PROVE  Original(b) /\ \A i \in 1 .. off : First(b, i)' = First(b, i)
  <1>1. /\ blob[b].gen \in Nat /\ blob'[b].gen \in Nat
        /\ blob[b].len \in Nat /\ blob'[b].len \in Nat
    <2>1. blob'[b] \in BlobStates
      BY DEF Typed, Shapes
    <2> QED
      BY <2>1, Numbers DEF BlobStates
  <1>2. Original(b) /\ blob'[b].gen = blob[b].gen /\ blob'[b].len >= blob[b].len
    BY <1>1 DEF Original, Steady
  <1>3. CASE off <= blob[b].len
    BY <1>1, <1>2, <1>3 DEF First
  <1>4. CASE off > blob[b].len
    <2>1. blob'[b].len = blob[b].len /\ blob'[b].tail = blob[b].tail
      BY <1>1, <1>4 DEF Within, Frozen, Steady
    <2> QED
      BY <1>2, <2>1 DEF First
  <1> QED
    BY <1>1, <1>2, <1>3, <1>4

LEMMA FreshStays ==
    ASSUME NEW b, \A r \in delivered' : r[1] = b => r \in delivered, NEW n, Fresh(b, n)
    PROVE  Fresh(b, n)'
  BY DEF Fresh

\* An offset that fits a blob is within it.
LEMMA FitsWithin ==
    ASSUME Typed, NEW b \in Blobs, blob[b].gen > 0, Original(b),
           NEW off \in Nat, NEW fp \in Seq(Units), Covers(b, off, fp), Fits(b, off, fp)
    PROVE  Within(b, off) /\ (fp # <<>> => fp[1].gen = blob[b].gen)
  <1>1. blob[b].gen = 1
    BY Numbers DEF Original
  <1>2. fp # <<>> => fp[1].gen = 1
    <2>1. fp # <<>> => 1 \in 1 .. Len(fp)
      BY EmptySeq, LenProperties
    <2>2. First(b, 1).gen = 1
      BY DEF First, Unit
    <2> QED
      BY <2>1, <2>2 DEF Fits
  <1> QED
    BY <1>1, <1>2 DEF Covers

LEMMA FitsStays ==
    ASSUME Typed, Typed', NEW b \in Blobs, Steady(b), blob[b].gen > 0, Original(b)',
           \A r \in delivered' : r[1] = b => r \in delivered,
           NEW off \in Nat, NEW fp \in Seq(Units), Covers(b, off, fp),
           Original(b) => Fits(b, off, fp)
    PROVE  Fits(b, off, fp)'
  <1>1. Original(b)
    <2>1. blob[b].gen \in Nat /\ blob'[b].gen \in Nat
      BY Numbers DEF Typed, Shapes, BlobStates
    <2> QED
      BY <2>1 DEF Original, Steady
  <1>2. Within(b, off)
    BY <1>1, FitsWithin
  <1>3. \A i \in 1 .. off : First(b, i)' = First(b, i)
    BY <1>2, FirstStays
  <1>4. Len(fp) \in Nat /\ Len(fp) <= off /\ Fresh(b, off)
        /\ \A i \in 1 .. Len(fp) : fp[i] = First(b, i)
    BY <1>1, LenProperties DEF Fits
  <1>5. \A i \in 1 .. Len(fp) : fp[i] = First(b, i)'
    BY <1>3, <1>4
  <1>6. Fresh(b, off)'
    BY <1>4, FreshStays
  <1> QED
    BY <1>4, <1>5, <1>6 DEF Fits

\* What a step leaves alone that is no step of the blob's.
Same(b) ==
    /\ \A r \in delivered' : r[1] = b => r \in delivered
    /\ Dated(b)
    /\ cp.lp <= cp'.lp

LEMMA OriginalBefore ==
    ASSUME Typed, Typed', NEW b \in Blobs, Steady(b), Original(b)'
    PROVE  Original(b) /\ (blob[b].gen > 0 => blob'[b].gen = blob[b].gen)
  <1>1. blob[b].gen \in Nat /\ blob'[b].gen \in Nat
    <2>1. blob'[b] \in BlobStates
      BY DEF Typed, Shapes
    <2> QED
      BY <2>1, Numbers DEF BlobStates
  <1> QED
    BY <1>1 DEF Original, Steady

LEMMA EntryStays ==
    ASSUME Typed, Typed', NEW b \in Blobs, Steady(b), Same(b), isIncrementalFormat,
           NEW p, p # None => p \in Progress, Sound(b, p), EntryOnce(b, p)
    PROVE  EntryOnce(b, p)'
  <1> SUFFICES ASSUME Original(b)', p # None
               PROVE  IF Gzip(b) THEN Fresh(b, 0)' \/ (p.lm = blob'[b].mtime /\ ~p.err)
                      ELSE Fits(b, p.off, p.fp)'
    BY DEF EntryOnce
  <1>1. /\ p \in Progress /\ blob[b].gen > 0 /\ Original(b) /\ blob'[b].gen = blob[b].gen
        /\ \A r \in delivered' : r[1] = b => r \in delivered
    BY OriginalBefore DEF Sound, Same
  <1>2. CASE Gzip(b)
    <2>1. Fresh(b, 0) \/ (p.lm = blob[b].mtime /\ ~p.err)
      BY <1>1, <1>2 DEF EntryOnce
    <2>2. blob'[b].mtime = blob[b].mtime
      BY <1>1, <1>2 DEF Same, Dated
    <2>3. Fresh(b, 0) => Fresh(b, 0)'
      BY <1>1, FreshStays
    <2> QED
      BY <1>2, <2>1, <2>2, <2>3
  <1>3. CASE ~Gzip(b)
    <2>1. Fits(b, p.off, p.fp) /\ Covers(b, p.off, p.fp)
      BY <1>1, <1>3 DEF EntryOnce, Sound
    <2>2. p.off \in Nat /\ p.fp \in Seq(Units)
      BY <1>1, PollingAssumption DEF Progress
    <2>3. Fits(b, p.off, p.fp)'
      BY <1>1, <2>1, <2>2, FitsStays
    <2> QED
      BY <1>3, <2>3
  <1> QED
    BY <1>2, <1>3

LEMMA JobOnceStays ==
    ASSUME Typed, Typed', NEW b \in Blobs, Steady(b), Same(b), isIncrementalFormat,
           cp'.progress[b] = cp.progress[b],
           NEW j \in JobStates, JobSound(b, j), JobOnce(b, j)
    PROVE  JobOnce(b, j)'
  <1>1. /\ \A r \in delivered' : r[1] = b => r \in delivered
        /\ j.off \in Nat /\ j.fp \in Seq(Units)
    BY PollingAssumption DEF Same, JobStates
  <1>2. \A n \in Nat : Fresh(b, n) => Fresh(b, n)'
    BY <1>1, FreshStays
  <1>3. j.pc = "consume" => \A i \in 1 .. Len(j.data) : j.data[i].gen = 1 => Fresh(b, j.off)'
    BY <1>1, <1>2 DEF JobOnce
  <1>4. ASSUME Original(b)'
        PROVE  /\ j.pc # "none" /\ cp'.progress[b] = None => Fresh(b, 0)'
               /\ j.pc # "none" /\ Gzip(b) => Fresh(b, 0)' /\ j.lm = blob'[b].mtime
               /\ j.pc \in {"head", "tail", "consume"} => Fits(b, j.off, j.fp)'
               /\ j.pc \in {"tail", "consume"} =>
                    \A i \in 1 .. Len(j.head) : i <= j.off => j.head[i] = First(b, i)'
    <2>1. /\ j.pc # "none" => blob[b].gen > 0
          /\ j.pc \in {"head", "tail", "consume"} => Covers(b, j.off, j.fp)
          /\ Original(b) /\ (blob[b].gen > 0 => blob'[b].gen = blob[b].gen)
      BY <1>4, OriginalBefore DEF JobSound
    <2>2. /\ j.pc # "none" /\ cp.progress[b] = None => Fresh(b, 0)
          /\ j.pc # "none" /\ Gzip(b) => Fresh(b, 0) /\ j.lm = blob[b].mtime
          /\ j.pc \in {"head", "tail", "consume"} => Fits(b, j.off, j.fp)
          /\ j.pc \in {"tail", "consume"} =>
              \A i \in 1 .. Len(j.head) : i <= j.off => j.head[i] = First(b, i)
      BY <2>1 DEF JobOnce
    <2>3. j.pc # "none" /\ Gzip(b) => blob'[b].mtime = blob[b].mtime
      BY <2>1 DEF Same, Dated
    <2>4. 0 \in Nat
      OBVIOUS
    <2>5. j.pc \in {"head", "tail", "consume"} => Fits(b, j.off, j.fp)'
      BY <1>1, <1>4, <2>1, <2>2, FitsStays
    <2>6. ASSUME j.pc \in {"tail", "consume"}, NEW i \in 1 .. Len(j.head), i <= j.off
          PROVE  j.head[i] = First(b, i)'
      <3>1. Within(b, j.off) /\ blob[b].gen > 0
        BY <1>1, <2>1, <2>2, <2>6, FitsWithin
      <3>2. i \in 1 .. j.off
        BY <1>1, <2>6
      <3>3. First(b, i)' = First(b, i)
        BY <1>1, <1>4, <3>1, <3>2, FirstStays
      <3> QED
        BY <2>2, <2>6, <3>3
    <2> QED
      BY <1>2, <2>2, <2>3, <2>4, <2>5, <2>6
  <1> QED
    BY <1>3, <1>4 DEF JobOnce

LEMMA OnceStays ==
    ASSUME IInv, Typed', NEW b \in Blobs, Steady(b), Same(b), isIncrementalFormat, OnceAt(b),
           cp'.progress[b] = cp.progress[b], aged'[b] = aged[b], job'[b] = job[b]
    PROVE  OnceAt(b)'
  <1>1. /\ Typed /\ job[b] \in JobStates /\ JobSound(b, job[b])
        /\ \A p \in {cp.progress[b], aged[b]} : (p # None => p \in Progress) /\ Sound(b, p)
    BY DEF IInv, Typed, Shapes, Checkpoints, Entries
  <1>2. Past(b) => Past(b)'
    <2>1. /\ cp.lp \in Nat /\ cp'.lp \in Nat /\ PathTime(b) \in Nat /\ RevisitWindow \in Nat
          /\ cp.lp <= cp'.lp
      BY PollingAssumption, Numbers DEF IInv, Typed, Shapes, Checkpoints, Same
    <2> QED
      BY <2>1 DEF Past
  <1>3. Original(b)' => Original(b)
    BY <1>1, OriginalBefore
  <1>4. Fresh(b, 0) => Fresh(b, 0)'
    BY FreshStays DEF Same
  <1>5. EntryOnce(b, cp.progress[b])'
    <2>1. PICK p : p = cp.progress[b]
      OBVIOUS
    <2>2. EntryOnce(b, p)'
      BY <1>1, <2>1, EntryStays DEF OnceAt
    <2> QED
      BY <2>1, <2>2
  <1>6. EntryOnce(b, aged[b])'
    <2>1. PICK p : p = aged[b]
      OBVIOUS
    <2>2. EntryOnce(b, p)'
      BY <1>1, <2>1, EntryStays DEF OnceAt
    <2> QED
      BY <2>1, <2>2
  <1>7. \A j \in {job[b]}' : JobOnce(b, j)'
    <2>1. PICK j : j = job[b]
      OBVIOUS
    <2>2. JobOnce(b, j)'
      BY <1>1, <2>1, JobOnceStays DEF OnceAt
    <2> QED
      BY <2>1, <2>2
  <1> QED
    BY <1>2, <1>3, <1>4, <1>5, <1>6, <1>7 DEF OnceAt

\* An entry is no missing entry.
LEMMA EntryThere == \A p \in Progress : p # None
  <1>1. Ends = {"none", "open", "cut"} /\ Units = [gen : Nat, pos : Nat, end : Ends]
    BY DEF Ends, Units
  <1> QED
    BY <1>1, NoneAssumption DEF Progress, Units, Ends

\* A step keeps OnceInv when it keeps what it says of the blobs it is about.
LEMMA OnceFrame ==
    ASSUME IInv, Typed', Once, isIncrementalFormat, Modes', \A r \in twice' : r[2] > 1,
           \A b \in Blobs : Steady(b),
           \A b \in Blobs :
                \/ OnceAt(b)'
                \/ /\ Same(b) /\ cp'.progress[b] = cp.progress[b]
                   /\ aged'[b] = aged[b] /\ job'[b] = job[b]
    PROVE  OnceInv'
  <1>1. ASSUME NEW b \in Blobs PROVE OnceAt(b)'
    <2>1. OnceAt(b) /\ Steady(b)
      BY DEF Once
    <2> QED
      BY <2>1, OnceStays
  <1> QED
    BY <1>1 DEF OnceInv, Once

\* A step of the work on a blob.
LEMMA OnceJob ==
    ASSUME IInv, Typed', Once, isIncrementalFormat,
           NEW b \in Blobs, job[b].pc # "none", NEW j \in JobStates, UNCHANGED jobless,
           job' = [job EXCEPT ![b] = j], \A i \in {j} : JobOnce(b, i)',
           delivered \subseteq delivered', \A r \in delivered' : r[1] = b \/ r \in delivered,
           \A r \in twice' : r[2] > 1,
           \/ UNCHANGED <<cp, delivered>>
           \/ \E p \in Progress : saveProgress(b, p) /\ EntryOnce(b, p)'
    PROVE  OnceInv'
  <1>1. Typed /\ Modes /\ OnceAt(b)
    BY DEF IInv, Typed, Once
  <1>2. /\ UNCHANGED <<cfg, now, blob, gone, saved, since, forgot, poll, todo, lastBlob, aged,
                       phase>>
    BY DEF jobless, container, store, polling
  <1>3. poll.pc = "listing" /\ phase # "down" /\ aged[b] = None
    <2>1. job[b] # NoJob
      BY DEF NoJob
    <2>2. ~Idle
      BY <2>1 DEF Idle
    <2>3. poll.pc = "listing"
      BY <1>1, <2>2 DEF Modes
    <2> QED
      BY <1>1, <2>3 DEF Modes
  <1>4. cp'.lp = cp.lp /\ \A c \in Blobs : c # b => cp'.progress[c] = cp.progress[c]
    <2>1. CASE UNCHANGED <<cp, delivered>>
      BY <2>1
    <2>2. ASSUME NEW p \in Progress, saveProgress(b, p)
          PROVE  cp'.lp = cp.lp /\ \A c \in Blobs : c # b => cp'.progress[c] = cp.progress[c]
      BY <1>1, <2>2, SaveShape
    <2> QED
      BY <2>1, <2>2
  <1>5. \A c \in Blobs : job'[c] = (IF c = b THEN j ELSE job[c])
    BY <1>1 DEF Typed, Shapes
  <1>6. \A c \in Blobs : Steady(c)
    BY <1>1, <1>2, Still
  <1>7. Modes'
    BY <1>1, <1>2, <1>3, <1>4 DEF Modes
  <1>8. OnceAt(b)'
    <2>1. \A i \in {job[b]}' : JobOnce(b, i)'
      BY <1>5
    <2>2. aged'[b] = None
      BY <1>2, <1>3
    <2>3. EntryOnce(b, aged[b])'
      BY <2>2 DEF EntryOnce
    <2>4. CASE UNCHANGED <<cp, delivered>>
      <3>1. EntryOnce(b, cp.progress[b])'
        BY <1>1, <1>2, <2>4 DEF OnceAt, EntryOnce, Fits, Fresh, First, Original
      <3>2. Original(b)' /\ cp'.progress[b] = None => Past(b)' \/ Fresh(b, 0)'
        BY <1>1, <1>2, <2>4 DEF OnceAt, Fresh, Original, Past
      <3> QED
        BY <2>1, <2>2, <2>3, <3>1, <3>2 DEF OnceAt
    <2>5. ASSUME NEW p \in Progress, saveProgress(b, p), EntryOnce(b, p)'
          PROVE  OnceAt(b)'
      <3>1. cp'.progress[b] = p /\ p # None
        BY <1>1, <2>5, SaveShape, EntryThere
      <3>2. EntryOnce(b, cp.progress[b])'
        BY <2>5, <3>1
      <3> QED
        BY <2>1, <2>2, <2>3, <3>1, <3>2 DEF OnceAt
    <2> QED
      BY <2>4, <2>5
  <1>9. ASSUME NEW c \in Blobs, c # b
        PROVE  /\ Same(c) /\ cp'.progress[c] = cp.progress[c]
               /\ aged'[c] = aged[c] /\ job'[c] = job[c]
    <2>1. \A r \in delivered' : r[1] = c => r \in delivered
      BY <1>9
    <2>2. cp.lp <= cp'.lp
      BY <1>1, <1>4 DEF Typed, Shapes, Checkpoints
    <2> QED
      BY <1>2, <1>4, <1>5, <1>9, <2>1, <2>2 DEF Same, Dated
  <1> QED
    BY <1>6, <1>7, <1>8, <1>9, OnceFrame

LEMMA NoJobOnce == \A b \in Blobs : \A j \in {NoJob} : JobOnce(b, j)
  <1>1. /\ NoJob.pc = "none" /\ Len(NoJob.data) = 0
    BY DEF NoJob
  <1> QED
    BY <1>1 DEF JobOnce

\* A step that only moves the work on.
LEMMA OnceMoves ==
    ASSUME IInv, Typed', Once, isIncrementalFormat,
           NEW b \in Blobs, job[b].pc # "none", NEW j \in JobStates, UNCHANGED jobless,
           job' = [job EXCEPT ![b] = j], JobOnce(b, j), UNCHANGED <<cp, delivered, twice>>
    PROVE  OnceInv'
  <1>1. \A i \in {j} : JobOnce(b, i)'
    BY DEF JobOnce, Fits, Fresh, First, Original, jobless, container
  <1>2. \A r \in twice' : r[2] > 1
    BY DEF Once
  <1> QED
    BY <1>1, <1>2, OnceJob

\* The work ends with an entry, or with none.
LEMMA OnceLeaves ==
    ASSUME IInv, Typed', Once, isIncrementalFormat,
           NEW b \in Blobs, job[b].pc # "none", UNCHANGED jobless, Leave(b),
           delivered \subseteq delivered', \A r \in delivered' : r[1] = b \/ r \in delivered,
           \A r \in twice' : r[2] > 1,
           \/ UNCHANGED <<cp, delivered>>
           \/ \E p \in Progress : saveProgress(b, p) /\ EntryOnce(b, p)'
    PROVE  OnceInv'
  <1>1. NoJob \in JobStates /\ job' = [job EXCEPT ![b] = NoJob]
    BY NoJobSound DEF Leave
  <1>2. \A j \in {NoJob} : JobOnce(b, j)'
    <2>1. /\ NoJob.pc = "none" /\ Len(NoJob.data) = 0
      BY DEF NoJob
    <2> QED
      BY <2>1 DEF JobOnce
  <1> QED
    BY <1>1, <1>2, OnceJob

\* What the entry a goroutine starts from says of the original blob.
LEMMA ProgressOnce ==
    ASSUME IInv, Once, isIncrementalFormat, NEW b \in Blobs, job[b].pc # "none", Original(b)
    PROVE  /\ Gzip(b) => Fresh(b, 0) /\ job[b].lm = blob[b].mtime
           /\ ~Gzip(b) => Fits(b, ProgressOf(b).off, ProgressOf(b).fp)
  <1>1. /\ cp.progress[b] = None => Fresh(b, 0)
        /\ Gzip(b) => Fresh(b, 0) /\ job[b].lm = blob[b].mtime
        /\ EntryOnce(b, cp.progress[b])
    BY DEF Once, OnceAt, JobOnce
  <1>2. CASE cp.progress[b] = None
    <2>1. /\ ProgressOf(b).off = 0 /\ ProgressOf(b).fp = <<>> /\ Len(<<>>) = 0
      BY <1>2 DEF ProgressOf, NewProgress
    <2> QED
      BY <1>1, <1>2, <2>1 DEF Fits
  <1>3. CASE cp.progress[b] # None
    BY <1>1, <1>3 DEF ProgressOf, EntryOnce
  <1> QED
    BY <1>2, <1>3

LEMMA OnceQuarantine ==
    ASSUME IInv, Typed', Once, isIncrementalFormat, NEW b \in Blobs, job[b].pc # "none",
           quarantineBlob(b), Leave(b), UNCHANGED jobless
    PROVE  OnceInv'
  <1>1. PICK q, p : /\ q = ProgressOf(b)
                    /\ p = [q EXCEPT !.lm = job[b].lm, !.quarantined = TRUE, !.err = FALSE]
    OBVIOUS
  <1>2. q \in Progress /\ job[b].lm \in Nat
    BY <1>1, ProgressFacts, JobFacts
  <1>3. /\ p \in Progress /\ p.off = q.off /\ p.fp = q.fp /\ p.lm = job[b].lm /\ ~p.err
    BY <1>1, <1>2 DEF Progress
  <1>4. saveProgress(b, p) /\ UNCHANGED <<delivered, twice>>
    BY <1>1 DEF quarantineBlob
  <1>5. EntryOnce(b, p)
    BY <1>1, <1>3, ProgressOnce DEF EntryOnce
  <1>6. EntryOnce(b, p)'
    BY <1>4, <1>5 DEF EntryOnce, Fits, Fresh, First, Original, jobless, container
  <1>7. \A r \in twice' : r[2] > 1
    BY <1>4 DEF Once
  <1> QED
    BY <1>3, <1>4, <1>6, <1>7, OnceLeaves

\* Nothing of the blob was delivered yet.
LEMMA OnceTracks ==
    ASSUME IInv, Typed', Once, isIncrementalFormat, NEW b \in Blobs, job[b].pc # "none",
           trackNeverReadFailure(b), Leave(b), UNCHANGED jobless, Original(b) => Fresh(b, 0)
    PROVE  OnceInv'
  <1>1. PICK p : p = [NewProgress EXCEPT !.quarantined = ProgressOf(b).quarantined,
                                         !.lm = job[b].lm, !.err = TRUE]
    OBVIOUS
  <1>2. ProgressOf(b).quarantined \in BOOLEAN /\ job[b].lm \in Nat
    BY ProgressFacts, JobFacts DEF Progress
  <1>3. p \in Progress /\ p.off = 0 /\ p.fp = <<>> /\ Len(<<>>) = 0
    BY <1>1, <1>2, NewProgressSound DEF Progress, NewProgress
  <1>4. saveProgress(b, p) /\ UNCHANGED <<delivered, twice>>
    BY <1>1 DEF trackNeverReadFailure, sink
  <1>5. EntryOnce(b, p)
    BY <1>3 DEF EntryOnce, Fits
  <1>6. EntryOnce(b, p)'
    BY <1>4, <1>5 DEF EntryOnce, Fits, Fresh, First, Original, jobless, container
  <1>7. \A r \in twice' : r[2] > 1
    BY <1>4 DEF Once
  <1> QED
    BY <1>3, <1>4, <1>6, <1>7, OnceLeaves

\* The original blob passes the identity check of an entry that fits it.
LEMMA NeverReset ==
    ASSUME Typed, NEW b \in Blobs, blob[b].gen > 0, Original(b),
           NEW off \in Nat, NEW fp \in Seq(Units), fp # <<>>, Len(fp) <= FpSize,
           Covers(b, off, fp), Fits(b, off, fp)
    PROVE  ~needsReset(off, fp, Content(b))
  <1>1. PICK c, f : c = Content(b) /\ f = Fingerprint(Content(b))
    OBVIOUS
  <1>2. /\ blob[b] \in BlobStates /\ blob[b].len \in Nat /\ blob[b].gen = 1
        /\ FpSize \in Nat /\ blob[b].tail \in Ends
    BY Numbers DEF Original
  <1>3. /\ c \in Seq(Units) /\ Len(c) \in Nat
        /\ Len(c) = blob[b].len + (IF blob[b].tail = "none" THEN 0 ELSE 1)
        /\ \A i \in 1 .. Len(c) : c[i] = First(b, i)
    <2>1. /\ c \in Seq(Units)
          /\ Len(c) = blob[b].len + (IF blob[b].tail = "none" THEN 0 ELSE 1)
          /\ \A i \in 1 .. Len(c) :
                c[i] = Unit(blob[b].gen, i, IF i <= blob[b].len THEN "none" ELSE blob[b].tail)
      BY <1>1, <1>2, ContentFacts
    <2> QED
      BY <1>2, <2>1, LenProperties DEF First
  <1>4. Within(b, off) /\ off <= Len(c)
    <2>1. Within(b, off)
      BY FitsWithin
    <2> QED
      BY <1>2, <1>3, <2>1 DEF Within, TailIsRecord
  <1>5. /\ Len(fp) \in Nat /\ Len(fp) <= off /\ \A i \in 1 .. Len(fp) : fp[i] = First(b, i)
    BY LenProperties DEF Fits
  <1>6. /\ f \in Seq(Units) /\ Len(f) = (IF FpSize < Len(c) THEN FpSize ELSE Len(c))
        /\ \A i \in 1 .. Len(f) : f[i] = c[i]
    BY <1>1, <1>2, <1>3, PrefixFacts DEF Fingerprint
  <1>7. Len(fp) <= Len(f) /\ Len(f) <= Len(c) /\ Len(f) \in Nat
    BY <1>2, <1>3, <1>4, <1>5, <1>6
  <1>8. Prefix(f, Len(fp)) = fp
    <2>1. PICK g : g = Prefix(f, Len(fp))
      OBVIOUS
    <2>2. /\ g \in Seq(Units) /\ Len(g) = (IF Len(fp) < Len(f) THEN Len(fp) ELSE Len(f))
          /\ \A i \in 1 .. Len(g) : g[i] = f[i]
      BY <1>5, <1>6, <2>1, PrefixFacts
    <2>3. Len(g) = Len(fp)
      BY <1>5, <1>7, <2>2
    <2>4. ASSUME NEW i \in 1 .. Len(g) PROVE g[i] = fp[i]
      <3>1. i \in 1 .. Len(fp) /\ i \in 1 .. Len(f) /\ i \in 1 .. Len(c)
        BY <1>3, <1>5, <1>7, <2>3
      <3> QED
        BY <1>3, <1>5, <1>6, <2>2, <3>1
    <2> QED
      BY <2>1, <2>2, <2>3, <2>4, SeqEqual
  <1> QED
    BY <1>1, <1>3, <1>4, <1>5, <1>7, <1>8 DEF needsReset, SameBlob

LEMMA StartOnce ==
    ASSUME IInv, Typed', Once, isIncrementalFormat, NEW b \in Blobs, Start(b)
    PROVE  OnceInv'
  <1>1. PICK i, p : i = job[b] /\ p = ProgressOf(b)
    OBVIOUS
  <1>2. /\ i.pc = "start" /\ UNCHANGED <<jobless, sink, cp>>
    BY <1>1 DEF Start
  <1>3. CASE Leave(b)
    <2>1. delivered' = delivered /\ twice' = twice
      BY <1>2 DEF sink
    <2> QED
      BY <1>1, <1>2, <1>3, <2>1, OnceLeaves DEF Once
  <1>4. CASE ~Leave(b)
    <2> DEFINE q == IF ~useIncremental(b) THEN "whole"
                    ELSE IF p.off > 0 /\ p.fp # <<>> THEN "head" ELSE "tail"
    <2>1. PICK j : j = [i EXCEPT !.pc = q, !.off = p.off, !.fp = p.fp]
      OBVIOUS
    <2>2. job' = [job EXCEPT ![b] = j]
      BY <1>1, <1>4, <2>1 DEF Start
    <2>3. /\ i \in JobStates /\ i.head = <<>> /\ i.data = <<>>
          /\ p \in Progress /\ p.off \in 0 .. MaxLen + 1 /\ p.fp \in Seq(Units)
      BY <1>1, <1>2, JobFacts, ProgressFacts DEF JobSound, Progress
    <2>4. q \in {"whole", "head", "tail"} /\ (q = "whole" <=> ~useIncremental(b))
      BY PollingAssumption
    <2> HIDE DEF q
    <2>5. /\ j \in JobStates /\ j.pc = q /\ j.off = p.off /\ j.fp = p.fp /\ j.lm = i.lm
          /\ j.head = <<>> /\ j.data = <<>>
      BY <2>1, <2>3, <2>4 DEF JobStates
    <2>6. Original(b) =>
            /\ cp.progress[b] = None => Fresh(b, 0)
            /\ Gzip(b) => Fresh(b, 0) /\ i.lm = blob[b].mtime
            /\ ~Gzip(b) => Fits(b, p.off, p.fp)
      BY <1>1, <1>2, ProgressOnce DEF Once, OnceAt, JobOnce
    <2>7. JobOnce(b, j)
      <3>1. Len(<<>>) = 0
        OBVIOUS
      <3> QED
        BY <2>4, <2>5, <2>6, <3>1 DEF JobOnce, useIncremental
    <2> QED
      BY <1>1, <1>2, <2>2, <2>5, <2>7, OnceMoves DEF sink
  <1> QED
    BY <1>3, <1>4

LEMMA ReadHeadOnce ==
    ASSUME IInv, Typed', Once, isIncrementalFormat, NEW b \in Blobs, ReadHead(b)
    PROVE  OnceInv'
  <1>1. PICK i, c : i = job[b] /\ c = Content(b)
    OBVIOUS
  <1>2. /\ i.pc = "head" /\ UNCHANGED <<jobless, sink, cp>>
    BY <1>1 DEF ReadHead
  <1>3. CASE ~Exists(b)
    <2>1. delivered' = delivered /\ twice' = twice /\ Leave(b)
      BY <1>2, <1>3 DEF sink, ReadHead
    <2> QED
      BY <1>1, <1>2, <1>3, <2>1, OnceLeaves DEF Once
  <1>4. CASE Exists(b)
    <2> DEFINE o == IF needsReset(i.off, i.fp, c) THEN 0 ELSE i.off
    <2>1. PICK j : j = [i EXCEPT !.pc = "tail", !.head = Fingerprint(c), !.off = o]
      OBVIOUS
    <2>2. /\ i \in JobStates /\ Typed /\ i.off \in 0 .. MaxLen + 1 /\ i.off \in Nat
          /\ i.fp \in Seq(Units) /\ i.fp # <<>> /\ Len(i.fp) <= FpSize /\ i.data = <<>>
          /\ Covers(b, i.off, i.fp) /\ blob[b].gen > 0 /\ JobOnce(b, i)
      BY <1>1, <1>2, JobFacts, PollingAssumption DEF JobSound, Once, OnceAt
    <2>3. job' = [job EXCEPT ![b] = j]
      BY <1>1, <1>4, <2>1, <2>2 DEF ReadHead, JobStates
    <2>4. c \in Seq(Units) /\ blob[b] \in BlobStates /\ FpSize \in Nat /\ MaxLen \in Nat
      BY <1>1, <2>2, Numbers, ContentFacts
    <2>5. /\ Fingerprint(c) \in Seq(Units)
          /\ \A k \in 1 .. Len(Fingerprint(c)) : k \in 1 .. Len(c) /\ Fingerprint(c)[k] = c[k]
      <3>1. /\ Fingerprint(c) \in Seq(Units) /\ Len(c) \in Nat
            /\ Len(Fingerprint(c)) = (IF FpSize < Len(c) THEN FpSize ELSE Len(c))
            /\ \A k \in 1 .. Len(Fingerprint(c)) : Fingerprint(c)[k] = c[k]
        BY <2>4, PrefixFacts, LenProperties DEF Fingerprint
      <3>2. \A k \in 1 .. Len(Fingerprint(c)) : k \in 1 .. Len(c)
        BY <2>4, <3>1
      <3> QED
        BY <3>1, <3>2
    <2>6. o \in 0 .. MaxLen + 1
      BY <2>2, <2>4
    <2>7. Original(b) => o = i.off
      BY <1>1, <1>2, <2>2, NeverReset DEF JobOnce
    <2> HIDE DEF o
    <2>8. /\ j \in JobStates /\ j.pc = "tail" /\ j.fp = i.fp /\ j.lm = i.lm
          /\ j.head = Fingerprint(c) /\ j.data = <<>> /\ j.off = o
      BY <2>1, <2>2, <2>5, <2>6 DEF JobStates
    <2>9. Original(b) => \A k \in 1 .. Len(j.head) : j.head[k] = First(b, k)
      <3>1. blob[b].gen \in Nat
        BY <2>2, Numbers
      <3>2. Original(b) => \A k \in 1 .. Len(c) : c[k] = First(b, k)
        BY <1>1, <2>2, <2>4, <3>1, ContentFacts DEF Original, First
      <3> QED
        BY <2>5, <2>8, <3>2
    <2>10. JobOnce(b, j)
      <3>1. Len(<<>>) = 0
        OBVIOUS
      <3> QED
        BY <1>2, <2>2, <2>7, <2>8, <2>9, <3>1 DEF JobOnce
    <2> QED
      BY <1>1, <1>2, <2>3, <2>8, <2>10, OnceMoves DEF sink
  <1> QED
    BY <1>3, <1>4

LEMMA ReadTailOnce ==
    ASSUME IInv, Typed', Once, isIncrementalFormat, NEW b \in Blobs, ReadTail(b)
    PROVE  OnceInv'
  <1>1. PICK i, d : i = job[b] /\ d = Delta(b, i.off)
    OBVIOUS
  <1>2. /\ i.pc = "tail" /\ UNCHANGED <<jobless, sink, cp>>
    BY <1>1 DEF ReadTail
  <1>3. CASE ~Exists(b)
    <2>1. delivered' = delivered /\ twice' = twice /\ Leave(b)
      BY <1>2, <1>3 DEF sink, ReadTail
    <2> QED
      BY <1>1, <1>2, <1>3, <2>1, OnceLeaves DEF Once
  <1>4. CASE Exists(b)
    <2>1. PICK j : j = [i EXCEPT !.pc = "consume", !.data = d]
      OBVIOUS
    <2>2. /\ i \in JobStates /\ Typed /\ i.off \in 0 .. MaxLen + 1 /\ JobOnce(b, i)
          /\ blob[b] \in BlobStates /\ blob[b].gen \in Nat
      BY <1>1, JobFacts, Numbers DEF Once, OnceAt
    <2>3. job' = [job EXCEPT ![b] = j]
      BY <1>1, <1>4, <2>1, <2>2 DEF ReadTail, JobStates, Delta
    <2>4. /\ d \in Seq(Units) /\ \A k \in 1 .. Len(d) : d[k].gen = blob[b].gen
      <3>1. PICK o \in 0 .. MaxLen + 1 : o = i.off
        BY <2>2
      <3>2. /\ Delta(b, o) \in Seq(Units) /\ Tidy(Delta(b, o))
            /\ o + Len(Delta(b, o)) <= MaxLen + 1
            /\ \A k \in 1 .. Len(Delta(b, o)) :
                 /\ o + k <= Len(Content(b)) /\ Delta(b, o)[k] = Content(b)[o + k]
                 /\ Delta(b, o)[k].gen = blob[b].gen /\ Delta(b, o)[k].pos = o + k
                 /\ Delta(b, o)[k].end =
                      (IF o + k <= blob[b].len THEN "none" ELSE blob[b].tail)
        BY <2>2, DeltaFacts
      <3>3. d = Delta(b, o)
        BY <1>1, <3>1
      <3> QED
        BY <3>2, <3>3
    <2>5. /\ j \in JobStates /\ j.pc = "consume" /\ j.fp = i.fp /\ j.lm = i.lm
          /\ j.head = i.head /\ j.data = d /\ j.off = i.off
      BY <2>1, <2>2, <2>4 DEF JobStates
    <2>6. \A k \in 1 .. Len(j.data) : j.data[k].gen = 1 => Fresh(b, j.off)
      BY <1>2, <2>2, <2>4, <2>5 DEF JobOnce, Original, Fits
    <2>7. JobOnce(b, j)
      BY <1>2, <2>2, <2>5, <2>6 DEF JobOnce
    <2> QED
      BY <1>1, <1>2, <2>3, <2>5, <2>7, OnceMoves DEF sink
  <1> QED
    BY <1>3, <1>4

\* A failure before anything of the blob was consumed.
LEMMA ErrorOnce ==
    ASSUME IInv, Typed', Once, isIncrementalFormat, NEW b \in Blobs,
           \/ PermanentReadError(b) \/ TransientReadError(b)
           \/ DeltaStuck(b) \/ ConsumeFails(b)
           \/ WholeTransientError(b) \/ WholePermanentError(b)
    PROVE  OnceInv'
  <1>1. PICK i : i = job[b]
    OBVIOUS
  <1>2. i.pc \in {"head", "tail", "consume", "whole"} /\ Leave(b) /\ UNCHANGED jobless
    BY <1>1 DEF PermanentReadError, TransientReadError, DeltaStuck, ConsumeFails,
                WholeTransientError, WholePermanentError
  <1>3. JobOnce(b, i) /\ JobSound(b, i)
    BY <1>1, JobFacts DEF Once, OnceAt
  <1>4. CASE quarantineBlob(b)
    BY <1>1, <1>2, <1>4, OnceQuarantine
  <1>5. CASE UNCHANGED <<cp, sink>>
    <2>1. delivered' = delivered /\ twice' = twice /\ cp' = cp
      BY <1>5 DEF sink
    <2> QED
      BY <1>1, <1>2, <2>1, OnceLeaves DEF Once
  <1>6. CASE trackNeverReadFailure(b) /\ (i.pc = "whole" \/ i.off = 0)
    <2>1. i.pc = "whole" => Gzip(b)
      BY <1>3 DEF JobSound, useIncremental
    <2>2. Original(b) => Fresh(b, 0)
      BY <1>2, <1>3, <1>6, <2>1 DEF JobOnce, Fits
    <2> QED
      BY <1>1, <1>2, <1>6, <2>2, OnceTracks
  <1> QED
    BY <1>1, <1>4, <1>5, <1>6
       DEF PermanentReadError, TransientReadError, DeltaStuck, ConsumeFails,
           WholeTransientError, WholePermanentError

LEMMA RecordsOfContent ==
    ASSUME NEW b \in Blobs, blob[b] \in BlobStates
    PROVE  \A r \in RecordsOf(b, Content(b)) :
                r[1] = b /\ r[2] = blob[b].gen /\ r[3] \in Nat /\ r[3] > 0
  <1>1. PICK c : c = Content(b)
    OBVIOUS
  <1>2. /\ c \in Seq(Units)
        /\ \A k \in 1 .. Len(c) :
              c[k] = Unit(blob[b].gen, k, IF k <= blob[b].len THEN "none" ELSE blob[b].tail)
    BY <1>1, ContentFacts
  <1>3. \A g, k, e : Unit(g, k, e).gen = g /\ Unit(g, k, e).pos = k
    BY DEF Unit
  <1>4. DOMAIN c = 1 .. Len(c) /\ Len(c) \in Nat
    BY <1>2, LenProperties
  <1>5. \A k \in DOMAIN c : c[k].gen = blob[b].gen /\ c[k].pos = k
    BY <1>2, <1>3, <1>4
  <1> QED
    BY <1>1, <1>4, <1>5 DEF RecordsOf

LEMMA ProcessWholeOnce ==
    ASSUME IInv, Typed', Once, isIncrementalFormat, NEW b \in Blobs, ProcessWhole(b)
    PROVE  OnceInv'
  <1>1. PICK i, c : i = job[b] /\ c = Content(b)
    OBVIOUS
  <1>2. /\ i.pc = "whole" /\ i \in JobStates /\ i.lm \in Nat /\ Gzip(b) /\ blob[b].gen > 0
        /\ blob[b] \in BlobStates /\ blob[b].gen \in Nat /\ JobOnce(b, i)
    <2>1. i.pc = "whole"
      BY <1>1 DEF ProcessWhole
    <2>2. Typed /\ i \in JobStates /\ i.lm \in Nat /\ JobSound(b, i) /\ JobOnce(b, i)
      BY <1>1, JobFacts DEF Once, OnceAt
    <2> QED
      BY <2>1, <2>2, Numbers DEF JobSound, useIncremental
  <1>3. /\ delivered' = delivered \cup RecordsOf(b, c)
        /\ twice' = twice \cup (RecordsOf(b, c) \cap delivered)
        /\ UNCHANGED jobless /\ Leave(b)
        /\ saveProgress(b, [NewProgress EXCEPT !.off = MaxLen, !.lm = i.lm])
    BY <1>1 DEF ProcessWhole, Deliver
  <1>4. \A r \in RecordsOf(b, c) :
            r[1] = b /\ r[2] = blob[b].gen /\ r[3] \in Nat /\ r[3] > 0
    BY <1>1, <1>2, RecordsOfContent
  <1>5. \A r \in twice' : r[2] > 1
    <2> SUFFICES ASSUME NEW r \in RecordsOf(b, c), r \in delivered, blob[b].gen = 1
                 PROVE  FALSE
      BY <1>2, <1>3, <1>4 DEF Once
    <2>1. Fresh(b, 0)
      BY <1>2 DEF JobOnce, Original
    <2>2. r[1] = b /\ r[2] = 1 /\ r[3] \in Nat /\ r[3] > 0
      BY <1>4
    <2>3. r[3] \in 1 .. 0
      BY <2>1, <2>2 DEF Fresh
    <2> QED
      BY <2>2, <2>3
  <1>6. PICK p : p = [NewProgress EXCEPT !.off = MaxLen, !.lm = i.lm]
    OBVIOUS
  <1>7. p \in Progress /\ p.lm = i.lm /\ ~p.err
    <2>1. MaxLen \in 0 .. MaxLen + 1
      BY PollingAssumption
    <2> QED
      BY <1>2, <1>6, <2>1, NewProgressSound DEF Progress, NewProgress
  <1>8. EntryOnce(b, p)'
    <2>1. UNCHANGED blob
      BY <1>3 DEF jobless, container
    <2> QED
      BY <1>2, <1>7, <2>1 DEF EntryOnce, JobOnce, Original
  <1>9. delivered \subseteq delivered' /\ \A r \in delivered' : r[1] = b \/ r \in delivered
    BY <1>3, <1>4
  <1>10. saveProgress(b, p)
    BY <1>3, <1>6
  <1>11. job[b].pc # "none"
    BY <1>1, <1>2
  <1> QED
    BY <1>3, <1>5, <1>7, <1>8, <1>9, <1>10, <1>11, OnceLeaves

LEMMA FingerprintPrefix ==
    ASSUME NEW s \in Seq(Units)
    PROVE  /\ Len(Fingerprint(s)) \in Nat /\ Len(Fingerprint(s)) <= Len(s)
           /\ \A i \in 1 .. Len(Fingerprint(s)) : i \in 1 .. Len(s) /\ Fingerprint(s)[i] = s[i]
  <1>1. FpSize \in Nat /\ Len(s) \in Nat
    BY PollingAssumption, LenProperties
  <1>2. /\ Len(Fingerprint(s)) = (IF FpSize < Len(s) THEN FpSize ELSE Len(s))
        /\ \A i \in 1 .. Len(Fingerprint(s)) : Fingerprint(s)[i] = s[i]
    BY <1>1, PrefixFacts DEF Fingerprint
  <1>3. Len(Fingerprint(s)) \in Nat /\ Len(Fingerprint(s)) <= Len(s)
    BY <1>1, <1>2
  <1> QED
    BY <1>1, <1>2, <1>3

\* The fingerprint of a committed prefix of the original blob is one of it.
LEMMA NewFingerprintFits ==
    ASSUME NEW b \in Blobs, NEW j \in JobStates, NEW n \in 0 .. Len(j.data),
           Fits(b, j.off, j.fp),
           \A i \in 1 .. Len(j.head) : i <= j.off => j.head[i] = First(b, i),
           \A i \in 1 .. n : j.data[i] = First(b, j.off + i)
    PROVE  /\ Len(NewFingerprint(j, n)) <= j.off + n
           /\ \A i \in 1 .. Len(NewFingerprint(j, n)) : NewFingerprint(j, n)[i] = First(b, i)
  <1>1. /\ j.data \in Seq(Units) /\ j.head \in Seq(Units) /\ j.fp \in Seq(Units)
        /\ j.off \in Nat /\ n \in Nat
    <2>1. /\ j.data \in Seq(Units) /\ j.head \in Seq(Units) /\ j.fp \in Seq(Units)
          /\ j.off \in 0 .. MaxLen + 1
      BY DEF JobStates
    <2> QED
      BY <2>1, PollingAssumption, LenProperties
  <1>2. Len(j.fp) \in Nat /\ Len(j.head) \in Nat /\ Len(j.fp) <= j.off
        /\ \A i \in 1 .. Len(j.fp) : j.fp[i] = First(b, i)
    BY <1>1, LenProperties DEF Fits
  <1>3. PICK d : d = SubSeq(j.data, 1, n)
    OBVIOUS
  <1>4. d \in Seq(Units) /\ Len(d) = n /\ \A i \in 1 .. n : d[i] = First(b, j.off + i)
    BY <1>1, <1>3, HeadOf
  <1>5. CASE j.off = 0
    <2>1. NewFingerprint(j, n) = Fingerprint(d)
      BY <1>3, <1>5 DEF NewFingerprint
    <2>2. \A i \in 1 .. n : d[i] = First(b, i)
      <3> SUFFICES ASSUME NEW i \in 1 .. n PROVE d[i] = First(b, i)
        OBVIOUS
      <3>1. j.off + i = i
        BY <1>5
      <3> QED
        BY <1>4, <3>1
    <2> QED
      BY <1>1, <1>4, <1>5, <2>1, <2>2, FingerprintPrefix
  <1>6. CASE j.off > 0 /\ ~(Len(j.fp) < FpSize /\ j.head # <<>>)
    <2>1. NewFingerprint(j, n) = j.fp
      BY <1>1, <1>6 DEF NewFingerprint
    <2> QED
      BY <1>1, <1>2, <2>1
  <1>7. CASE j.off > 0 /\ Len(j.fp) < FpSize /\ j.head # <<>> /\ j.off <= Len(j.head)
    <2>1. PICK h : h = SubSeq(j.head, 1, j.off)
      OBVIOUS
    <2>2. j.off \in 0 .. Len(j.head)
      <3>1. PICK l, m : l = Len(j.head) /\ m = j.off
        OBVIOUS
      <3>2. l \in Nat /\ m \in Nat /\ m <= l
        BY <1>1, <1>2, <1>7, <3>1
      <3>3. m \in 0 .. l
        BY <3>2
      <3> QED
        BY <3>1, <3>3
    <2>3. h \in Seq(Units) /\ Len(h) = j.off /\ \A i \in 1 .. j.off : h[i] = j.head[i]
      BY <1>1, <2>1, <2>2, HeadOf
    <2>4. \A i \in 1 .. j.off : h[i] = First(b, i)
      <3> SUFFICES ASSUME NEW i \in 1 .. j.off PROVE h[i] = First(b, i)
        OBVIOUS
      <3>1. i \in 1 .. Len(j.head) /\ i <= j.off
        BY <1>1, <1>2, <1>7
      <3>2. j.head[i] = First(b, i)
        BY <3>1
      <3> QED
        BY <2>3, <3>2
    <2>5. PICK g : g = h \o d
      OBVIOUS
    <2>6. NewFingerprint(j, n) = Fingerprint(g)
      BY <1>1, <1>3, <1>7, <2>1, <2>5 DEF NewFingerprint
    <2>7. /\ g \in Seq(Units) /\ Len(g) = Len(h) + Len(d)
          /\ \A i \in 1 .. Len(h) + Len(d) : g[i] = IF i <= Len(h) THEN h[i] ELSE d[i - Len(h)]
      BY <1>4, <2>3, <2>5, ConcatProperties
    <2>8. ASSUME NEW i \in 1 .. Len(g) PROVE g[i] = First(b, i)
      <3>1. i \in 1 .. j.off + n /\ i \in Nat /\ i > 0
            /\ g[i] = IF i <= j.off THEN h[i] ELSE d[i - j.off]
        BY <1>1, <1>4, <2>3, <2>7
      <3>2. CASE i <= j.off
        <4>1. i \in 1 .. j.off
          BY <1>1, <3>1, <3>2
        <4> QED
          BY <2>4, <3>1, <3>2, <4>1
      <3>3. CASE ~(i <= j.off)
        <4>1. i - j.off \in 1 .. n /\ j.off + (i - j.off) = i
          BY <1>1, <3>1, <3>3
        <4>2. d[i - j.off] = First(b, i)
          BY <1>4, <4>1
        <4> QED
          BY <3>1, <3>3, <4>2
      <3> QED
        BY <3>2, <3>3
    <2>9. PICK f : f = Fingerprint(g)
      OBVIOUS
    <2>10. /\ Len(f) \in Nat /\ Len(f) <= Len(g)
           /\ \A i \in 1 .. Len(f) : i \in 1 .. Len(g) /\ f[i] = g[i]
      BY <2>7, <2>9, FingerprintPrefix
    <2>11. Len(f) <= j.off + n
      BY <1>1, <1>4, <2>3, <2>7, <2>10
    <2>12. \A i \in 1 .. Len(f) : f[i] = First(b, i)
      BY <2>8, <2>10
    <2> QED
      BY <2>6, <2>9, <2>11, <2>12
  <1>8. CASE j.off > 0 /\ Len(j.fp) < FpSize /\ j.head # <<>> /\ ~(j.off <= Len(j.head))
    <2>1. NewFingerprint(j, n) = Fingerprint(j.head)
      BY <1>1, <1>8 DEF NewFingerprint
    <2>2. PICK g : g = Fingerprint(j.head)
      OBVIOUS
    <2>3. /\ Len(g) \in Nat /\ Len(g) <= Len(j.head)
          /\ \A i \in 1 .. Len(g) : i \in 1 .. Len(j.head) /\ g[i] = j.head[i]
      BY <1>1, <2>2, FingerprintPrefix
    <2>4. Len(g) <= j.off + n /\ \A i \in 1 .. Len(j.head) : i <= j.off
      BY <1>1, <1>2, <1>8, <2>3
    <2>5. \A i \in 1 .. Len(g) : g[i] = First(b, i)
      BY <2>3, <2>4
    <2> QED
      BY <2>1, <2>2, <2>4, <2>5
  <1> QED
    BY <1>1, <1>5, <1>6, <1>7, <1>8

\* The records of a delta, its complete units.
LEMMA RecordsOfDelta ==
    ASSUME NEW b \in Blobs, NEW s \in Seq(Units), NEW n \in 0 .. Len(s),
           NEW r \in RecordsOf(b, SubSeq(s, 1, n))
    PROVE  \E k \in 1 .. n : r = <<b, s[k].gen, s[k].pos>>
  <1>1. PICK t : t = SubSeq(s, 1, n)
    OBVIOUS
  <1>2. t \in Seq(Units) /\ Len(t) = n /\ \A k \in 1 .. n : t[k] = s[k]
    BY <1>1, HeadOf
  <1>3. DOMAIN t = 1 .. n
    BY <1>2, LenProperties
  <1>4. PICK k \in DOMAIN t : r = <<b, t[k].gen, t[k].pos>>
    BY <1>1 DEF RecordsOf
  <1> QED
    BY <1>2, <1>3, <1>4

LEMMA ConsumeDeltaOnce ==
    ASSUME IInv, Typed', Once, isIncrementalFormat, NEW b \in Blobs, ConsumeDelta(b)
    PROVE  OnceInv'
  <1>1. PICK j, n, fp, R : /\ j = job[b] /\ n = Complete(j.data) /\ fp = NewFingerprint(j, n)
                           /\ R = RecordsOf(b, SubSeq(j.data, 1, n))
    OBVIOUS
  <1>2. /\ Typed /\ j \in JobStates /\ JobSound(b, j) /\ j.pc = "consume" /\ JobOnce(b, j)
        /\ j.off \in Nat /\ j.data \in Seq(Units) /\ Len(j.data) \in Nat /\ j.lm \in Nat
        /\ Tidy(j.data) /\ j.off + Len(j.data) <= MaxLen + 1 /\ MaxLen \in Nat
    <2>1. /\ Typed /\ j \in JobStates /\ JobSound(b, j) /\ j.data \in Seq(Units)
          /\ j.off \in 0 .. MaxLen + 1 /\ j.lm \in Nat /\ JobOnce(b, j)
      BY <1>1, JobFacts DEF Once, OnceAt
    <2>2. Len(j.data) \in Nat /\ MaxLen \in Nat
      BY <2>1, LenProperties, PollingAssumption
    <2>3. j.pc = "consume"
      BY <1>1 DEF ConsumeDelta
    <2>4. Tidy(j.data) /\ j.off + Len(j.data) <= MaxLen + 1
      BY <2>1 DEF JobSound
    <2>5. j.off \in Nat
      BY <2>1, <2>2
    <2> QED
      BY <2>1, <2>2, <2>3, <2>4, <2>5
  <1>3. n \in 0 .. Len(j.data) /\ n \in Nat /\ \A k \in 1 .. n : j.data[k].end = "none"
    BY <1>1, <1>2, CompleteFacts
  <1>4. /\ delivered' = delivered \cup R /\ twice' = twice \cup (R \cap delivered)
        /\ UNCHANGED jobless /\ Leave(b) /\ UNCHANGED <<cfg, now, blob>>
    BY <1>1 DEF ConsumeDelta, Deliver, jobless, container
  <1>5. PICK p : p = [NewProgress EXCEPT !.off = j.off + n, !.lm = j.lm, !.fp = fp]
    OBVIOUS
  <1>6. saveProgress(b, p)
    BY <1>1, <1>5 DEF ConsumeDelta
  <1>7. fp \in Seq(Units)
    BY <1>1, <1>2, <1>3, NewFingerprintFacts DEF JobSound
  <1>8. p \in Progress /\ p.off = j.off + n /\ p.fp = fp
    <2>1. j.off + n \in 0 .. MaxLen + 1
      BY <1>2, <1>3
    <2> QED
      BY <1>2, <1>5, <1>7, <2>1, NewProgressSound DEF Progress, NewProgress
  <1>9. PICK d \in 1 .. blob[b].gen :
            /\ \A i \in 1 .. Len(j.data) : j.data[i].gen = d /\ j.data[i].pos = j.off + i
            /\ j.off > 0 => IF j.fp = <<>> THEN d = blob[b].gen ELSE j.fp[1].gen <= d
            /\ d = blob[b].gen =>
                \A i \in 1 .. Len(j.data) :
                    j.data[i].end = "none" => j.off + i <= blob[b].len
    BY <1>2 DEF JobSound, DataSound
  <1>10. blob[b].gen \in Nat /\ blob[b].len \in Nat /\ ~Gzip(b) /\ d \in Nat /\ d > 0
    BY <1>2, <1>9, Numbers DEF JobSound, useIncremental
  <1>11. ASSUME NEW r \in R
         PROVE  r[1] = b /\ r[2] = d /\ \E k \in 1 .. n : r[3] = j.off + k
    <2>1. PICK k \in 1 .. n : r = <<b, j.data[k].gen, j.data[k].pos>>
      BY <1>1, <1>2, <1>3, RecordsOfDelta
    <2>2. k \in 1 .. Len(j.data)
      BY <1>2, <1>3
    <2> QED
      BY <1>9, <2>1, <2>2
  <1>12. \A r \in twice' : r[2] > 1
    <2> SUFFICES ASSUME NEW r \in R, r \in delivered, d = 1 PROVE FALSE
      BY <1>4, <1>10, <1>11 DEF Once
    <2>1. PICK k \in 1 .. n : r[3] = j.off + k
      BY <1>11
    <2>2. k \in 1 .. Len(j.data) /\ k \in Nat /\ k > 0
      BY <1>2, <1>3
    <2>3. Fresh(b, j.off)
      BY <1>2, <1>9, <2>2 DEF JobOnce
    <2>4. r[3] \in 1 .. j.off
      BY <1>11, <2>3 DEF Fresh
    <2> QED
      BY <1>2, <2>1, <2>2, <2>4
  <1>13. EntryOnce(b, p)'
    <2> SUFFICES ASSUME Original(b)
                 PROVE  Fits(b, j.off + n, fp)'
      BY <1>4, <1>8, <1>10 DEF EntryOnce, Original
    <2>1. d = 1 /\ blob[b].gen = 1
      BY <1>9, <1>10 DEF Original
    <2>2. /\ Fits(b, j.off, j.fp)
          /\ \A i \in 1 .. Len(j.head) : i <= j.off => j.head[i] = First(b, i)
      BY <1>2 DEF JobOnce
    <2>3. ASSUME NEW i \in 1 .. n PROVE j.data[i] = First(b, j.off + i)
      <3>1. i \in 1 .. Len(j.data)
        BY <1>2, <1>3
      <3>2. j.data[i].gen = 1 /\ j.data[i].pos = j.off + i /\ j.data[i].end = "none"
        BY <1>3, <1>9, <2>1, <3>1
      <3>5. j.off + i <= blob[b].len
        BY <1>9, <2>1, <3>1, <3>2
      <3>3. j.data[i] \in Units
        BY <1>2, <3>1, ElementOfSeq
      <3>4. First(b, j.off + i) = [gen |-> 1, pos |-> j.off + i, end |-> "none"]
        BY <3>5 DEF First, Unit
      <3>6. j.data[i] = [gen |-> 1, pos |-> j.off + i, end |-> "none"]
        BY <3>2, <3>3 DEF Units
      <3> QED
        BY <3>4, <3>6
    <2>4. Len(fp) <= j.off + n /\ \A i \in 1 .. Len(fp) : fp[i] = First(b, i)
      BY <1>1, <1>2, <1>3, <2>2, <2>3, NewFingerprintFits
    <2>5. ASSUME NEW r \in delivered', r[1] = b, r[2] = 1 PROVE r[3] \in 1 .. j.off + n
      <3>1. CASE r \in R
        <4>1. PICK k \in 1 .. n : r[3] = j.off + k
          BY <1>11, <3>1
        <4> QED
          BY <1>2, <1>3, <4>1
      <3>2. CASE r \notin R
        <4>1. r[3] \in 1 .. j.off
          BY <1>4, <2>2, <2>5, <3>2 DEF Fits, Fresh
        <4> QED
          BY <1>2, <1>3, <4>1
      <3> QED
        BY <3>1, <3>2
    <2>6. Fresh(b, j.off + n)'
      BY <2>5 DEF Fresh
    <2> QED
      BY <1>4, <2>4, <2>6 DEF Fits, First
  <1>14. delivered \subseteq delivered' /\ \A r \in delivered' : r[1] = b \/ r \in delivered
    BY <1>4, <1>11
  <1>15. job[b].pc # "none"
    BY <1>1, <1>2
  <1> QED
    BY <1>4, <1>6, <1>8, <1>12, <1>13, <1>14, <1>15, OnceLeaves

LEMMA ListOnce ==
    ASSUME IInv, Typed', Once, isIncrementalFormat, NEW b \in Blobs, List(b)
    PROVE  OnceInv'
  <1>1. PICK j : j = [NoJob EXCEPT !.pc = "start", !.lm = blob[b].mtime]
    OBVIOUS
  <1>2. /\ UNCHANGED <<cfg, now, blob, gone, delivered, twice, warned, cp, saved, poll, aged,
                       phase>>
        /\ poll.pc = "listing"
        /\ job' = job \/ (shouldProcessBlob(b) /\ job' = [job EXCEPT ![b] = j])
    BY <1>1 DEF List, container, sink, store
  <1>3. Typed /\ Modes /\ OnceAt(b) /\ blob[b].mtime \in Nat
    BY Numbers DEF IInv, Typed, Once
  <1>4. \A c \in Blobs : Steady(c)
    BY <1>2, <1>3, Still
  <1>5. Modes'
    <2>1. poll.pc = "listing" /\ phase # "down" => Modes'
      BY <1>2, <1>3 DEF Modes
    <2> QED
      BY <1>2, <2>1 DEF List
  <1>6. cp.lp <= cp'.lp
    BY <1>2, <1>3 DEF Typed, Shapes, Checkpoints
  <1>7. ASSUME NEW c \in Blobs
        PROVE  Same(c) /\ cp'.progress[c] = cp.progress[c] /\ aged'[c] = aged[c]
    BY <1>2, <1>6 DEF Same, Dated
  <1>8. CASE job' = job
    BY <1>2, <1>4, <1>5, <1>7, <1>8, OnceFrame DEF Once
  <1>9. CASE shouldProcessBlob(b) /\ job' = [job EXCEPT ![b] = j]
    <2>1. \A c \in Blobs : job'[c] = (IF c = b THEN j ELSE job[c])
      BY <1>3, <1>9 DEF Typed, Shapes
    <2>2. /\ j.pc = "start" /\ j.lm = blob[b].mtime /\ j.data = <<>> /\ Len(<<>>) = 0
      BY <1>1, <1>3 DEF NoJob
    <2>3. PICK p : p = cp.progress[b]
      OBVIOUS
    <2>4. PathTime(b) >= poll.start /\ (p = None \/ p.err \/ p.lm # blob[b].mtime)
      <3>1. poll.start \in Int /\ poll.end \in Int /\ PathTime(b) \in Nat
        BY <1>3, Numbers DEF Typed, Scalars
      <3> QED
        BY <1>9, <2>3, <3>1 DEF shouldProcessBlob, shouldParseBlob
    <2>5. ~Past(b)
      <3>1. /\ cp.lp \in Nat /\ RevisitWindow \in Nat /\ PathTime(b) \in Nat
            /\ poll.start \in Int
        BY <1>3, Numbers DEF Typed, Scalars, Shapes, Checkpoints
      <3>2. cp.lp > 0 => poll.start >= cp.lp - RevisitWindow
        BY <1>2, <1>3 DEF Modes
      <3> QED
        BY <2>4, <3>1, <3>2 DEF Past
    <2>6. Original(b) =>
            /\ cp.progress[b] = None => Fresh(b, 0)
            /\ Gzip(b) => Fresh(b, 0)
      BY <1>3, <2>3, <2>4, <2>5 DEF OnceAt, EntryOnce
    <2>7. \A i \in {job[b]}' : JobOnce(b, i)'
      BY <1>2, <2>1, <2>2, <2>6 DEF JobOnce, Original, Fresh
    <2>8. OnceAt(b)'
      <3>1. EntryOnce(b, cp.progress[b])' /\ EntryOnce(b, aged[b])'
        BY <1>2, <1>3 DEF OnceAt, EntryOnce, Fits, Fresh, First, Original
      <3> QED
        BY <1>2, <1>3, <2>7, <3>1 DEF OnceAt, Original, Past, Fresh
    <2> QED
      BY <1>2, <1>4, <1>5, <1>7, <2>1, <2>8, OnceFrame DEF Once
  <1> QED
    BY <1>2, <1>8, <1>9

\* Time and the writers of the blobs.
LEMMA ContainerOnce ==
    ASSUME IInv, Typed', Once, isIncrementalFormat,
           UNCHANGED <<cfg, sink, cp, store, polling, aged, job, phase>>,
           \A b \in Blobs : Steady(b) /\ Dated(b)
    PROVE  OnceInv'
  <1>1. Typed
    BY DEF IInv, Typed
  <1>2. Modes'
    BY DEF Once, Modes, Idle, store, polling
  <1>3. cp.lp <= cp'.lp
    BY <1>1 DEF Typed, Shapes, Checkpoints
  <1>4. \A b \in Blobs : Same(b)
    BY <1>3 DEF Same, sink
  <1> QED
    BY <1>2, <1>4, OnceFrame DEF Once, sink

LEMMA WriteOnce ==
    ASSUME IInv, Typed', Once, isIncrementalFormat,
           \/ Tick
           \/ \E b \in Blobs :
                \/ \E n \in 0 .. MaxLen : Put(b, n)
                \/ \E k \in {"none", "open", "cut"} : Extend(b, k)
                \/ Remove(b)
    PROVE  OnceInv'
  <1>1. \A b \in Blobs : Steady(b) /\ Dated(b)
    BY TickStep, WriteStep
  <1>2. UNCHANGED <<cfg, sink, cp, store, polling, aged, job, phase>>
    BY DEF Tick, Put, Extend, Remove, receiver
  <1> QED
    BY <1>1, <1>2, ContainerOnce

-----------------------------------------------------------------------------
(* The poll and the life of the process.                                   *)

\* A step that changes no blob, and entries only by forgetting them.
LEMMA OncePoll ==
    ASSUME IInv, Typed', Once, isIncrementalFormat, Modes', UNCHANGED <<cfg, now, blob>>,
           UNCHANGED <<delivered, twice, job>>, cp.lp <= cp'.lp,
           cp'.progress = cp.progress, aged' = aged
    PROVE  OnceInv'
  <1>1. Typed
    BY DEF IInv, Typed
  <1>2. \A b \in Blobs : Steady(b)
    BY <1>1, Still
  <1>3. \A b \in Blobs : Same(b)
    BY DEF Same, Dated
  <1> QED
    BY <1>2, <1>3, OnceFrame DEF Once

LEMMA RunPollOnce ==
    ASSUME IInv, Typed', Once, isIncrementalFormat, RunPoll
    PROVE  OnceInv'
  <1>1. /\ UNCHANGED <<cfg, now, blob, delivered, twice, cp, saved, aged, job, phase>>
        /\ poll.pc = "idle" /\ phase # "down"
    BY DEF RunPoll, container, sink, store
  <1>2. /\ cp.lp \in Nat /\ cp.lp <= now /\ now \in Nat /\ RevisitWindow \in Nat
        /\ InitialLookback \in Nat
    BY PollingAssumption DEF IInv, Scalars, Shapes, Checkpoints
  <1>3. PICK s : s = incrementalHorizonStart(IF cp.lp = 0 THEN now - InitialLookback ELSE cp.lp)
    OBVIOUS
  <1>4. cp.lp > 0 => s >= cp.lp - RevisitWindow
    BY <1>2, <1>3 DEF incrementalHorizonStart
  <1>5. poll' = [pc |-> "listing", end |-> now, start |-> s]
    BY <1>3 DEF RunPoll
  <1>6. Modes'
    BY <1>1, <1>2, <1>4, <1>5 DEF Once, Modes
  <1>7. cp.lp <= cp'.lp
    BY <1>1, <1>2
  <1> QED
    BY <1>1, <1>6, <1>7, OncePoll

LEMMA PollAbortsOnce ==
    ASSUME IInv, Typed', Once, isIncrementalFormat, PollAborts
    PROVE  OnceInv'
  <1>1. /\ UNCHANGED <<cfg, now, blob, delivered, twice, cp, saved, aged, job, phase>>
        /\ poll.pc = "listing" /\ phase # "down" /\ Idle
        /\ poll' = [poll EXCEPT !.pc = "idle", !.start = 0]
    BY DEF PollAborts, container, sink, store
  <1>2. cp.lp \in Nat /\ cp.lp <= cp'.lp /\ Typed
    BY <1>1 DEF IInv, Typed, Shapes, Checkpoints
  <1>3. poll'.pc = "idle"
    BY <1>1, <1>2, PollEnds
  <1>4. Modes'
    BY <1>1, <1>3 DEF Once, Modes, Idle
  <1> QED
    BY <1>1, <1>2, <1>4, OncePoll

LEMMA SaveOnce ==
    ASSUME IInv, Typed', Once, isIncrementalFormat, NEW ok \in BOOLEAN,
           SavePoll(ok) \/ (ShutdownCompletes(ok) /\ ~forgot')
    PROVE  OnceInv'
  <1>1. /\ UNCHANGED <<cfg, now, blob, delivered, twice, aged, job>> /\ makeCheckpoint(ok)
    BY DEF SavePoll, ShutdownCompletes, container, sink, polling
  <1>2. Typed /\ cp.lp \in Nat
    BY DEF IInv, Typed, Shapes, Checkpoints
  <1>3. /\ cp'.lp = cp.lp /\ cp'.progress = cp.progress /\ (ok => saved' = cp')
    BY <1>1, <1>2, WatermarkFacts
  <1>4. Modes'
    <2>1. CASE SavePoll(ok)
      <3>1. /\ poll.pc = "finalize" /\ phase # "down" /\ phase' = phase
            /\ \A b \in Blobs : aged[b] = None
            /\ poll' = [poll EXCEPT !.pc = "idle", !.start = 0]
        BY <2>1 DEF SavePoll
      <3>2. poll'.pc = "idle"
        BY <1>2, <3>1, PollEnds
      <3> QED
        BY <1>1, <3>1, <3>2 DEF Once, Modes, Idle
    <2>2. CASE ShutdownCompletes(ok) /\ ~forgot'
      <3>1. ok /\ poll.pc = "idle" /\ poll' = poll
        BY <2>2 DEF ShutdownCompletes, polling
      <3> QED
        BY <1>1, <1>3, <3>1 DEF Once, Modes, Idle
    <2> QED
      BY <2>1, <2>2
  <1>5. cp.lp <= cp'.lp
    BY <1>2, <1>3
  <1> QED
    BY <1>1, <1>3, <1>4, <1>5, OncePoll

LEMMA ProcessOnce ==
    ASSUME IInv, Typed', Once, isIncrementalFormat, Shutdown \/ Restart \/ UNCHANGED vars
    PROVE  OnceInv'
  <1>1. /\ UNCHANGED <<cfg, now, blob, delivered, twice, saved, aged, job>>
        /\ phase' = "down" => phase = "down" /\ UNCHANGED <<poll, cp>>
        /\ \/ UNCHANGED <<poll, cp>>
           \/ phase = "down" /\ cp' = saved /\ poll' = NoPoll
    BY DEF Shutdown, Restart, vars, container, sink, store, polling
  <1>2. Modes /\ cp.lp \in Nat
    BY DEF Once, IInv, Shapes, Checkpoints
  <1>3. cp' = cp
    BY <1>1, <1>2 DEF Modes
  <1>4. poll' = poll \/ (poll'.pc = "idle" /\ poll.pc = "idle")
    BY <1>1, <1>2 DEF Modes, NoPoll
  <1>5. Modes'
    BY <1>1, <1>2, <1>3, <1>4 DEF Modes, Idle
  <1>6. cp.lp <= cp'.lp
    BY <1>2, <1>3
  <1> QED
    BY <1>1, <1>3, <1>5, <1>6, OncePoll

LEMMA FinalizePollOnce ==
    ASSUME IInv, Typed', Once, isIncrementalFormat, FinalizePoll
    PROVE  OnceInv'
  <1>1. /\ Typed /\ cp \in Checkpoints /\ cp.progress \in [Blobs -> Progress \cup {None}]
        /\ cp.lp \in Nat
    BY DEF IInv, Typed, Shapes, Checkpoints
  <1> DEFINE cutoff == poll.start - SealSkewTolerance
             Drop == {b \in Blobs : cp.progress[b] # None /\
                    (Pruned(cp.progress[b], poll.end) \/ AgedOut(cp.progress[b], cutoff))}
             GiveUp == {b \in Drop : GivenUp(cp.progress[b], cutoff)}
             Aged == {b \in Drop \ GiveUp : AgedOut(cp.progress[b], cutoff)}
             kept == [b \in Blobs |-> IF b \in Drop THEN None ELSE cp.progress[b]]
  <1>2. /\ UNCHANGED <<cfg, now, blob, delivered, twice, saved, job, phase>>
        /\ poll.pc = "listing" /\ poll' = [poll EXCEPT !.pc = "finalize"] /\ Idle
        /\ phase # "down"
        /\ aged' = [b \in Blobs |-> IF b \in Aged THEN cp.progress[b] ELSE None]
    BY DEF FinalizePoll, container
  <1>3. cp' = [cp EXCEPT !.lp = poll.end, !.progress = kept]
    BY <1>1 DEF FinalizePoll, Checkpoints
  <1>4. \A b \in Blobs : kept[b] = IF b \in Drop THEN None ELSE cp.progress[b]
    OBVIOUS
  <1>5. /\ Aged \subseteq Drop
        /\ \A b \in Drop : cp.progress[b] # None /\
                (Pruned(cp.progress[b], poll.end) \/ AgedOut(cp.progress[b], cutoff))
    OBVIOUS
  <1>6. kept \in [Blobs -> Progress \cup {None}]
    BY <1>1
  <1> HIDE DEF Drop, GiveUp, Aged, kept
  <1>7. cp'.lp = poll.end /\ cp'.progress = kept
    BY <1>1, <1>3 DEF Checkpoints
  <1>8. /\ poll \in [pc : {"idle", "listing", "finalize"}, start : Int, end : Nat]
        /\ poll.start <= poll.end - RevisitWindow /\ cp.lp <= poll.end
        /\ \A b \in Blobs : aged[b] = None
    BY <1>1, <1>2 DEF Typed, Scalars, Once, Modes
  <1>9. poll'.pc = "finalize"
    BY <1>2, <1>8
  <1>10. Modes'
    BY <1>2, <1>9 DEF Modes, Idle
  <1>11. \A b \in Blobs : Steady(b) /\ Same(b)
    BY <1>1, <1>2, <1>7, <1>8, Still DEF Same, Dated
  <1>12. ASSUME NEW b \in Blobs, b \notin Drop
         PROVE  cp'.progress[b] = cp.progress[b] /\ aged'[b] = aged[b]
    BY <1>2, <1>4, <1>5, <1>7, <1>8, <1>12
  <1>13. ASSUME NEW b \in Blobs, b \in Drop
         PROVE  OnceAt(b)'
    <2>1. PICK p : p = cp.progress[b]
      OBVIOUS
    <2>2. /\ p # None /\ p \in Progress /\ Sound(b, p) /\ EntryOnce(b, p)
          /\ Pruned(p, poll.end) \/ AgedOut(p, cutoff)
      BY <1>1, <1>5, <1>13, <2>1 DEF IInv, Entries, Once, OnceAt
    <2>3. Past(b)'
      <3>1. /\ p.lm \in Nat /\ PathTime(b) \in Nat /\ PathTime(b) > 0 /\ PathTime(b) <= p.lm
            /\ now \in Nat /\ poll.start \in Int /\ poll.end \in Nat
        BY <1>1, <1>8, <2>2, Numbers DEF Progress, Sound
      <3>2. /\ RevisitWindow \in Nat /\ QuarantineRetention \in Nat /\ SealSkewTolerance \in Nat
        BY PollingAssumption
      <3>3. Greater(QuarantineRetention, RevisitWindow) \in Nat
            /\ Greater(QuarantineRetention, RevisitWindow) >= RevisitWindow
        BY <3>2 DEF Greater
      <3>4. p.lm < poll.end - RevisitWindow
        <4>1. CASE Pruned(p, poll.end)
          BY <3>1, <3>2, <3>3, <4>1 DEF Pruned
        <4>2. CASE AgedOut(p, cutoff)
          BY <1>8, <3>1, <3>2, <4>2 DEF AgedOut
        <4> QED
          BY <2>2, <4>1, <4>2
      <3>5. poll.end > 0 /\ PathTime(b) < poll.end - RevisitWindow
        BY <3>1, <3>2, <3>4
      <3> QED
        BY <1>7, <3>5 DEF Past
    <2>4. cp'.progress[b] = None
      BY <1>4, <1>7, <1>13
    <2>5. EntryOnce(b, cp.progress[b])'
      BY <2>4 DEF EntryOnce
    <2>6. EntryOnce(b, aged[b])'
      <3>1. EntryOnce(b, p)'
        BY <1>2, <2>2 DEF EntryOnce, Fits, Fresh, First, Original
      <3>2. aged'[b] = p \/ aged'[b] = None
        BY <1>2, <2>1
      <3>3. CASE aged'[b] = p
        BY <3>1, <3>3
      <3>4. CASE aged'[b] = None
        BY <3>4 DEF EntryOnce
      <3> QED
        BY <3>2, <3>3, <3>4
    <2>7. \A j \in {job[b]}' : JobOnce(b, j)'
      <3>1. job'[b] = NoJob /\ NoJob.pc = "none" /\ NoJob.data = <<>> /\ Len(<<>>) = 0
        BY <1>2 DEF Idle, NoJob
      <3> QED
        BY <3>1 DEF JobOnce
    <2> QED
      BY <2>3, <2>4, <2>5, <2>6, <2>7 DEF OnceAt
  <1> QED
    BY <1>2, <1>10, <1>11, <1>12, <1>13, OnceFrame DEF Once

-----------------------------------------------------------------------------
(* The seal.                                                               *)

\* A step of the finalization of a blob.
LEMMA OnceAged ==
    ASSUME IInv, Typed', Once, isIncrementalFormat,
           NEW b \in Blobs, Finalizing(b), UNCHANGED finalizing, Done(b),
           UNCHANGED blob \/ blob' = [blob EXCEPT ![b].there = FALSE],
           delivered \subseteq delivered', \A r \in delivered' : r[1] = b \/ r \in delivered,
           \A r \in twice' : r[2] > 1,
           cp' = cp \/ \E p \in Progress : saveProgress(b, p) /\ EntryOnce(b, p)'
    PROVE  OnceInv'
  <1>1. Typed /\ Modes /\ OnceAt(b) /\ cp.lp \in Nat
    BY DEF IInv, Typed, Once, Shapes, Checkpoints
  <1>2. UNCHANGED <<cfg, now, saved, poll, job, phase>>
    BY DEF finalizing, store, polling
  <1>3. poll.pc = "finalize" /\ phase # "down" /\ aged[b] # None
    BY DEF Finalizing
  <1>4. Idle /\ Past(b) /\ cp.progress[b] = None
    BY <1>1, <1>3 DEF Modes, OnceAt
  <1>5. cp'.lp = cp.lp /\ \A c \in Blobs : c # b => cp'.progress[c] = cp.progress[c]
    <2>1. ASSUME NEW p \in Progress, saveProgress(b, p)
          PROVE  cp'.lp = cp.lp /\ \A c \in Blobs : c # b => cp'.progress[c] = cp.progress[c]
      BY <1>1, <2>1, SaveShape
    <2> QED
      BY <2>1
  <1>6. \A c \in Blobs : aged'[c] = (IF c = b THEN None ELSE aged[c])
    BY <1>1 DEF Typed, Shapes, Done
  <1>7. \A c \in Blobs : Steady(c) /\ blob'[c].mtime = blob[c].mtime
    BY <1>1, <1>2, Still
  <1>8. Modes'
    BY <1>2, <1>3, <1>4 DEF Modes, Idle
  <1>9. Past(b)'
    BY <1>4, <1>5 DEF Past
  <1>10. OnceAt(b)'
    <2>1. EntryOnce(b, aged[b])'
      BY <1>6 DEF EntryOnce
    <2>2. \A j \in {job[b]}' : JobOnce(b, j)'
      <3>1. job'[b] = NoJob /\ NoJob.pc = "none" /\ NoJob.data = <<>> /\ Len(<<>>) = 0
        BY <1>2, <1>4 DEF Idle, NoJob
      <3> QED
        BY <3>1 DEF JobOnce
    <2>3. EntryOnce(b, cp.progress[b])'
      <3>1. CASE cp' = cp
        BY <1>4, <3>1 DEF EntryOnce
      <3>2. ASSUME NEW p \in Progress, saveProgress(b, p), EntryOnce(b, p)'
            PROVE  EntryOnce(b, cp.progress[b])'
        <4>1. cp'.progress[b] = p
          BY <1>1, <3>2, SaveShape
        <4> QED
          BY <3>2, <4>1
      <3> QED
        BY <3>1, <3>2
    <2> QED
      BY <1>6, <1>9, <2>1, <2>2, <2>3 DEF OnceAt
  <1>11. ASSUME NEW c \in Blobs, c # b
         PROVE  /\ Same(c) /\ cp'.progress[c] = cp.progress[c]
                /\ aged'[c] = aged[c] /\ job'[c] = job[c]
    <2>1. \A r \in delivered' : r[1] = c => r \in delivered
      BY <1>11
    <2>2. cp.lp <= cp'.lp
      BY <1>1, <1>5
    <2> QED
      BY <1>2, <1>5, <1>6, <1>7, <1>11, <2>1, <2>2 DEF Same, Dated
  <1> QED
    BY <1>7, <1>8, <1>10, <1>11, OnceFrame

\* A flush of the original blob resumes from the entry.
LEMMA ResumedOnce ==
    ASSUME IInv, Once, isIncrementalFormat, NEW b \in Blobs, aged[b] # None,
           useIncremental(b), Original(b)
    PROVE  Resumed(b) = aged[b] /\ Fits(b, aged[b].off, aged[b].fp)
  <1>1. PICK p : p = aged[b]
    OBVIOUS
  <1>2. /\ Typed /\ p \in Progress /\ Sound(b, p) /\ p.off \in Nat /\ p.fp \in Seq(Units)
        /\ Len(p.fp) <= FpSize /\ blob[b].gen > 0 /\ Covers(b, p.off, p.fp) /\ p # None
    <2>1. Typed /\ p \in Progress /\ Sound(b, p) /\ p.off \in 0 .. MaxLen + 1
          /\ p.fp \in Seq(Units) /\ p # None
      BY <1>1, AgedFacts
    <2> QED
      BY <2>1, PollingAssumption DEF Sound, useIncremental
  <1>3. Fits(b, p.off, p.fp)
    BY <1>1, <1>2 DEF Once, OnceAt, EntryOnce, useIncremental
  <1>4. p.fp # <<>> => ~needsReset(p.off, p.fp, Content(b))
    BY <1>2, <1>3, NeverReset
  <1>5. Resumed(b) = p
    BY <1>1, <1>4 DEF Resumed
  <1> QED
    BY <1>1, <1>3, <1>5

\* n records past the offset are delivered, none of them for a second time.
LEMMA FlushOnce ==
    ASSUME IInv, Once, isIncrementalFormat, NEW b \in Blobs, aged[b] # None,
           useIncremental(b), NEW n \in Nat, NEW R,
           \A r \in R : r[1] = b /\ r[2] = blob[b].gen /\ \E k \in 1 .. n : r[3] = Resumed(b).off + k,
           Deliver(R),
           blob'[b].gen = blob[b].gen, blob'[b].len = blob[b].len, blob'[b].tail = blob[b].tail
    PROVE  /\ \A r \in twice' : r[2] > 1
           /\ delivered \subseteq delivered'
           /\ \A r \in delivered' : r[1] = b \/ r \in delivered
           /\ \A q \in Progress : q.off = Resumed(b).off + n /\ q.fp = Resumed(b).fp
                                    => EntryOnce(b, q)'
  <1>1. PICK o, fp : o = Resumed(b).off /\ fp = Resumed(b).fp
    OBVIOUS
  <1>2. /\ blob[b].gen \in Nat /\ blob[b].gen > 0 /\ ~Gzip(b) /\ o \in Nat
        /\ fp \in Seq(Units) /\ Len(fp) \in Nat
    <2>1. Typed /\ Sound(b, aged[b]) /\ MaxLen \in Nat
      BY AgedFacts, PollingAssumption
    <2>2. Resumed(b) \in Progress /\ o \in 0 .. MaxLen + 1
      BY <1>1, ResumedFacts
    <2>3. fp \in Seq(Units)
      BY <1>1, <2>2 DEF Progress
    <2> QED
      BY <2>1, <2>2, <2>3, Numbers, LenProperties DEF Sound, useIncremental
  <1>3. delivered' = delivered \cup R /\ twice' = twice \cup (R \cap delivered)
    BY DEF Deliver
  <1>4. blob[b].gen = 1 => Fits(b, o, fp)
    BY <1>1, ResumedOnce DEF Original
  <1>5. \A r \in twice' : r[2] > 1
    <2> SUFFICES ASSUME NEW r \in R, r \in delivered, blob[b].gen = 1 PROVE FALSE
      BY <1>2, <1>3 DEF Once
    <2>1. r[1] = b /\ r[2] = 1 /\ \E k \in 1 .. n : r[3] = o + k
      BY <1>1
    <2>2. r[3] \in 1 .. o
      BY <1>4, <2>1 DEF Fits, Fresh
    <2> QED
      BY <1>2, <2>1, <2>2
  <1>6. ASSUME NEW q \in Progress, q.off = o + n, q.fp = fp PROVE EntryOnce(b, q)'
    <2> SUFFICES ASSUME blob[b].gen = 1 PROVE Fits(b, o + n, fp)'
      BY <1>2, <1>6 DEF EntryOnce, Original
    <2>1. Fresh(b, o) /\ Len(fp) <= o /\ \A i \in 1 .. Len(fp) : fp[i] = First(b, i)
      BY <1>4 DEF Fits
    <2>2. ASSUME NEW r \in delivered', r[1] = b, r[2] = 1 PROVE r[3] \in 1 .. o + n
      <3>1. CASE r \in R
        <4>1. PICK k \in 1 .. n : r[3] = o + k
          BY <1>1, <3>1
        <4> QED
          BY <1>2, <4>1
      <3>2. CASE r \in delivered
        <4>1. r[3] \in 1 .. o
          BY <2>1, <2>2, <3>2 DEF Fresh
        <4> QED
          BY <1>2, <4>1
      <3> QED
        BY <1>3, <3>1, <3>2
    <2>3. Fresh(b, o + n)'
      BY <2>2 DEF Fresh
    <2>4. \A i \in 1 .. Len(fp) : fp[i] = First(b, i)'
      BY <2>1 DEF First
    <2>5. Len(fp) <= o + n
      BY <1>2, <2>1
    <2> QED
      BY <2>3, <2>4, <2>5 DEF Fits
  <1>7. delivered \subseteq delivered' /\ \A r \in delivered' : r[1] = b \/ r \in delivered
    BY <1>3
  <1> QED
    BY <1>1, <1>5, <1>6, <1>7

\* An entry put back after a failure, or quarantined.
LEMMA RetrackedOnce ==
    ASSUME NEW b \in Blobs, NEW p \in Progress, NEW quarantinable \in BOOLEAN,
           retrackOrQuarantine(b, p, quarantinable),
           \A q \in Progress : q.off = p.off /\ q.fp = p.fp /\ q.lm = p.lm /\ q.err = p.err
                                => EntryOnce(b, q)'
    PROVE  \E q \in Progress : saveProgress(b, q) /\ EntryOnce(b, q)'
  <1>1. CASE Cancelled
    BY <1>1 DEF retrackOrQuarantine
  <1>2. CASE ~Cancelled
    <2> DEFINE n == p.fails + 1
               quarantine == quarantinable /\ n >= MaxFinalizeFailures
    <2>1. PICK q : q = [p EXCEPT !.fails = n, !.quarantined = quarantine]
      OBVIOUS
    <2>2. n \in Nat /\ quarantine \in BOOLEAN
      BY DEF Progress
    <2>3. saveProgress(b, q)
      BY <1>2, <2>1 DEF retrackOrQuarantine
    <2> HIDE DEF n, quarantine
    <2>4. /\ q \in Progress /\ q.off = p.off /\ q.fp = p.fp /\ q.lm = p.lm /\ q.err = p.err
      BY <2>1, <2>2 DEF Progress
    <2> QED
      BY <2>3, <2>4
  <1> QED
    BY <1>1, <1>2

\* An entry that is put back as it was, but for its flags and failures.
LEMMA KeptOnce ==
    ASSUME IInv, Once, isIncrementalFormat, NEW b \in Blobs, aged[b] # None,
           UNCHANGED blob, delivered' = delivered
    PROVE  \A q \in Progress : q.off = aged[b].off /\ q.fp = aged[b].fp
                /\ q.lm = aged[b].lm /\ q.err = aged[b].err => EntryOnce(b, q)'
  <1>1. PICK p : p = aged[b]
    OBVIOUS
  <1>2. EntryOnce(b, p) /\ p # None
    BY <1>1 DEF Once, OnceAt
  <1>3. ASSUME NEW q \in Progress, q.off = p.off, q.fp = p.fp, q.lm = p.lm, q.err = p.err
        PROVE  EntryOnce(b, q)'
    BY <1>2, <1>3 DEF EntryOnce, Original, Fits, Fresh, First
  <1> QED
    BY <1>1, <1>3

\* The records of the tail are those that a flush counts.
LEMMA TailRecordsOnce ==
    ASSUME IInv, NEW b \in Blobs, aged[b] # None, useIncremental(b)
    PROVE  /\ Emitted(SealTail(b)) \in Nat
           /\ \A r \in RecordsOf(b, SealTail(b)) :
                /\ r[1] = b /\ r[2] = blob[b].gen
                /\ \E k \in 1 .. Emitted(SealTail(b)) : r[3] = Resumed(b).off + k
  <1>1. PICK s, o, e : s = SealTail(b) /\ o = Resumed(b).off /\ e = Emitted(SealTail(b))
    OBVIOUS
  <1>2. /\ s \in Seq(Units) /\ Tidy(s) /\ Len(s) \in Nat /\ DOMAIN s = 1 .. Len(s)
        /\ \A k \in 1 .. Len(s) : s[k].gen = blob[b].gen /\ s[k].pos = o + k
    BY <1>1, SealTailFacts, LenProperties
  <1>3. /\ e \in Nat /\ e <= Len(s)
        /\ e = Len(s) \/ (e = Len(s) - 1 /\ s[Len(s)].end # "none" /\ ~TailIsRecord(s[Len(s)].end))
    <2>1. PICK c : c = Complete(s)
      OBVIOUS
    <2>2. /\ e = (IF EndOf(s) # "none" /\ TailIsRecord(EndOf(s)) THEN Len(s) ELSE c)
          /\ e \in c .. Len(s)
      BY <1>1, <1>2, <2>1, EmittedFacts DEF Emitted
    <2>3. /\ c = (IF EndOf(s) = "none" THEN Len(s) ELSE Len(s) - 1) /\ c \in 0 .. Len(s)
          /\ EndOf(s) # "none" => s[Len(s)].end = EndOf(s)
      BY <1>2, <2>1, CompleteFacts
    <2>4. Len(s) \in Nat
      BY <1>2
    <2>5. CASE EndOf(s) # "none" /\ TailIsRecord(EndOf(s))
      BY <2>2, <2>4, <2>5
    <2>6. CASE EndOf(s) = "none"
      BY <2>2, <2>3, <2>4, <2>6
    <2>7. CASE EndOf(s) # "none" /\ ~TailIsRecord(EndOf(s))
      BY <2>2, <2>3, <2>4, <2>7
    <2> QED
      BY <2>5, <2>6, <2>7
  <1>4. ASSUME NEW k \in 1 .. Len(s), s[k].end = "none" \/ TailIsRecord(s[k].end)
        PROVE  k \in 1 .. e
    <2>1. e = Len(s) \/ k # Len(s)
      BY <1>3, <1>4
    <2>2. Len(s) \in Nat /\ e \in Nat /\ (e = Len(s) \/ e = Len(s) - 1)
      BY <1>2, <1>3
    <2> QED
      BY <2>1, <2>2
  <1>5. ASSUME NEW r \in RecordsOf(b, s)
        PROVE  r[1] = b /\ r[2] = blob[b].gen /\ \E k \in 1 .. e : r[3] = o + k
    <2>1. PICK k \in DOMAIN s : /\ s[k].end = "none" \/ TailIsRecord(s[k].end)
                                /\ r = <<b, s[k].gen, s[k].pos>>
      BY DEF RecordsOf
    <2>2. k \in 1 .. Len(s) /\ k \in 1 .. e
      BY <1>2, <1>4, <2>1
    <2> QED
      BY <1>2, <2>1, <2>2
  <1>6. e \in Nat
    BY <1>3
  <1> QED
    BY <1>1, <1>5, <1>6

LEMMA DropNeverReadOnce ==
    ASSUME IInv, Typed', Once, isIncrementalFormat, NEW b \in Blobs, DropNeverRead(b)
    PROVE  OnceInv'
  <1>1. Finalizing(b) /\ UNCHANGED finalizing /\ Done(b)
        /\ UNCHANGED blob /\ UNCHANGED <<delivered, twice, cp>>
    BY DEF DropNeverRead
  <1>2. \A r \in twice' : r[2] > 1
    BY <1>1 DEF Once
  <1> QED
    BY <1>1, <1>2, OnceAged

LEMMA UnparseableOnce ==
    ASSUME IInv, Typed', Once, isIncrementalFormat, NEW b \in Blobs, Unparseable(b)
    PROVE  OnceInv'
  <1>1. PICK R, n, f, q : /\ R = RecordsOf(b, SealTail(b)) /\ n = Emitted(SealTail(b))
                          /\ f = Flushed(b) /\ q = [f EXCEPT !.quarantined = TRUE]
    OBVIOUS
  <1>2. /\ Finalizing(b) /\ UNCHANGED finalizing /\ Done(b) /\ UNCHANGED blob
        /\ aged[b] # None /\ useIncremental(b) /\ Deliver(R) /\ saveProgress(b, q)
    BY <1>1 DEF Unparseable, Finalizable, Finalizing
  <1>3. /\ n \in Nat
        /\ \A r \in R : r[1] = b /\ r[2] = blob[b].gen
                        /\ \E k \in 1 .. n : r[3] = Resumed(b).off + k
    BY <1>1, <1>2, TailRecordsOnce
  <1>4. /\ \A r \in twice' : r[2] > 1
        /\ delivered \subseteq delivered' /\ \A r \in delivered' : r[1] = b \/ r \in delivered
        /\ \A x \in Progress : x.off = Resumed(b).off + n /\ x.fp = Resumed(b).fp
                                    => EntryOnce(b, x)'
    BY <1>2, <1>3, FlushOnce
  <1>5. f \in Progress /\ f.off = Resumed(b).off + n /\ f.fp = Resumed(b).fp
    BY <1>1, <1>2, FlushedFacts
  <1>6. q \in Progress /\ q.off = f.off /\ q.fp = f.fp
    BY <1>1, <1>5 DEF Progress
  <1> QED
    BY <1>2, <1>4, <1>5, <1>6, OnceAged

LEMMA FlushReadFailsOnce ==
    ASSUME IInv, Typed', Once, isIncrementalFormat, NEW b \in Blobs,
           NEW afterHead \in BOOLEAN, NEW permanent \in BOOLEAN,
           FlushReadFails(b, afterHead, permanent)
    PROVE  OnceInv'
  <1>1. PICK p : p = IF afterHead THEN Resumed(b) ELSE aged[b]
    OBVIOUS
  <1>2. /\ Finalizing(b) /\ UNCHANGED finalizing /\ Done(b)
        /\ UNCHANGED blob /\ UNCHANGED <<delivered, twice>>
        /\ aged[b] # None /\ useIncremental(b) /\ retrackOrQuarantine(b, p, permanent)
    BY <1>1 DEF FlushReadFails, Finalizable, Finalizing
  <1>3. /\ p \in Progress
        /\ \A q \in Progress : q.off = p.off /\ q.fp = p.fp /\ q.lm = p.lm /\ q.err = p.err
                                => EntryOnce(b, q)'
    <2>1. CASE afterHead
      <3>1. p = Resumed(b) /\ p \in Progress /\ p.off \in Nat
        <4>1. Resumed(b) \in Progress /\ Resumed(b).off \in 0 .. MaxLen + 1 /\ MaxLen \in Nat
          BY <1>2, ResumedFacts, PollingAssumption
        <4> QED
          BY <1>1, <2>1, <4>1
      <3>2. Deliver({})
        BY <1>2 DEF Deliver
      <3>3. \A x \in Progress : x.off = Resumed(b).off + 0 /\ x.fp = Resumed(b).fp
                                    => EntryOnce(b, x)'
        BY <1>2, <3>2, FlushOnce
      <3> QED
        BY <3>1, <3>3
    <2>2. CASE ~afterHead
      <3>1. p = aged[b] /\ p \in Progress
        BY <1>1, <1>2, <2>2, AgedFacts
      <3> QED
        BY <1>2, <3>1, KeptOnce
    <2> QED
      BY <2>1, <2>2
  <1>4. \E q \in Progress : saveProgress(b, q) /\ EntryOnce(b, q)'
    BY <1>2, <1>3, RetrackedOnce
  <1>5. \A r \in twice' : r[2] > 1
    BY <1>2 DEF Once
  <1> QED
    BY <1>2, <1>4, <1>5, OnceAged

LEMMA FlushConsumeFailsOnce ==
    ASSUME IInv, Typed', Once, isIncrementalFormat, NEW b \in Blobs,
           NEW n \in 0 .. MaxLen, FlushConsumeFails(b, n)
    PROVE  OnceInv'
  <1>1. PICK s, r, p, R : /\ s = SealTail(b) /\ r = Resumed(b)
                          /\ p = [Resumed(b) EXCEPT !.off = Resumed(b).off + n]
                          /\ R = RecordsOf(b, SubSeq(s, 1, n))
    OBVIOUS
  <1>2. aged[b] # None /\ useIncremental(b)
    BY DEF FlushConsumeFails, Finalizable, Finalizing
  <1>3. /\ r \in Progress /\ r.off \in 0 .. MaxLen + 1 /\ MaxLen \in Nat
    BY <1>1, <1>2, ResumedFacts, PollingAssumption
  <1>4. p = [Resumed(b) EXCEPT !.off = @ + n]
    BY <1>1, <1>3 DEF Progress
  <1>5. /\ Finalizing(b) /\ UNCHANGED finalizing /\ Done(b) /\ UNCHANGED blob
        /\ n = 0 \/ n = Complete(s)
        /\ Deliver(R) /\ retrackOrQuarantine(b, p, FALSE)
    BY <1>1, <1>4 DEF FlushConsumeFails, Finalizable
  <1>6. /\ s \in Seq(Units) /\ Tidy(s) /\ Len(s) \in Nat /\ r.off + Len(s) <= MaxLen + 1
        /\ \A k \in 1 .. Len(s) : s[k].gen = blob[b].gen /\ s[k].pos = r.off + k
    BY <1>1, <1>2, SealTailFacts, LenProperties
  <1>7. n \in Nat /\ n \in 0 .. Len(s)
    BY <1>5, <1>6, CompleteFacts
  <1>8. \A x \in R : x[1] = b /\ x[2] = blob[b].gen
                     /\ \E k \in 1 .. n : x[3] = Resumed(b).off + k
    <2>1. ASSUME NEW x \in R
          PROVE  x[1] = b /\ x[2] = blob[b].gen /\ \E k \in 1 .. n : x[3] = r.off + k
      <3>1. PICK k \in 1 .. n : x = <<b, s[k].gen, s[k].pos>>
        BY <1>1, <1>6, <1>7, RecordsOfDelta
      <3>2. k \in 1 .. Len(s)
        BY <1>6, <1>7
      <3> QED
        BY <1>6, <3>1, <3>2
    <2> QED
      BY <1>1, <2>1
  <1>9. /\ \A x \in twice' : x[2] > 1
        /\ delivered \subseteq delivered' /\ \A x \in delivered' : x[1] = b \/ x \in delivered
        /\ \A x \in Progress : x.off = Resumed(b).off + n /\ x.fp = Resumed(b).fp
                                    => EntryOnce(b, x)'
    BY <1>2, <1>5, <1>7, <1>8, FlushOnce
  <1>10. r.off + n \in 0 .. MaxLen + 1
    BY <1>3, <1>6, <1>7
  <1>11. p \in Progress /\ p.off = r.off + n /\ p.fp = r.fp
    BY <1>1, <1>3, <1>10 DEF Progress
  <1>12. \E q \in Progress : saveProgress(b, q) /\ EntryOnce(b, q)'
    <2>1. \A q \in Progress : q.off = p.off /\ q.fp = p.fp /\ q.lm = p.lm /\ q.err = p.err
                                => EntryOnce(b, q)'
      BY <1>1, <1>9, <1>11
    <2> QED
      BY <1>5, <1>11, <2>1, RetrackedOnce
  <1> QED
    BY <1>5, <1>9, <1>12, OnceAged

LEMMA RetireOnce ==
    ASSUME IInv, Typed', Once, isIncrementalFormat, NEW b \in Blobs, NEW ok \in BOOLEAN,
           Retire(b, ok)
    PROVE  OnceInv'
  <1>1. PICK p, R : /\ p = IF useIncremental(b) THEN Flushed(b) ELSE aged[b]
                    /\ R = IF useIncremental(b) THEN RecordsOf(b, SealTail(b)) ELSE {}
    OBVIOUS
  <1>2. /\ Finalizing(b) /\ UNCHANGED finalizing /\ Done(b) /\ aged[b] # None /\ Deliver(R)
    BY <1>1 DEF Retire, Finalizable, Finalizing
  <1>3. \/ /\ saveProgress(b, [p EXCEPT !.sealed = TRUE]) /\ UNCHANGED blob
        \/ /\ blob' = [blob EXCEPT ![b].there = FALSE] /\ cp' = cp
        \/ /\ retrackOrQuarantine(b, p, TRUE) /\ UNCHANGED blob
    BY <1>1 DEF Retire
  <1>4. UNCHANGED blob \/ blob' = [blob EXCEPT ![b].there = FALSE]
    BY <1>3
  <1>5. /\ blob'[b].gen = blob[b].gen /\ blob'[b].len = blob[b].len
        /\ blob'[b].tail = blob[b].tail
    <2>1. blob \in [Blobs -> BlobStates] /\ blob[b] \in BlobStates
      BY DEF IInv, Shapes
    <2> QED
      BY <1>4, <2>1 DEF BlobStates
  <1>6. p \in Progress
    BY <1>1, <1>2, FlushedFacts, AgedFacts
  <1>7. /\ \A r \in twice' : r[2] > 1
        /\ delivered \subseteq delivered' /\ \A r \in delivered' : r[1] = b \/ r \in delivered
        /\ UNCHANGED blob =>
            \A q \in Progress : q.off = p.off /\ q.fp = p.fp /\ q.lm = p.lm /\ q.err = p.err
                                    => EntryOnce(b, q)'
    <2>1. CASE useIncremental(b)
      <3>1. PICK n : n = Emitted(SealTail(b))
        OBVIOUS
      <3>2. /\ n \in Nat
            /\ \A r \in R : r[1] = b /\ r[2] = blob[b].gen
                            /\ \E k \in 1 .. n : r[3] = Resumed(b).off + k
        BY <1>1, <1>2, <2>1, <3>1, TailRecordsOnce
      <3>3. /\ \A r \in twice' : r[2] > 1
            /\ delivered \subseteq delivered'
            /\ \A r \in delivered' : r[1] = b \/ r \in delivered
            /\ \A x \in Progress : x.off = Resumed(b).off + n /\ x.fp = Resumed(b).fp
                                    => EntryOnce(b, x)'
        BY <1>2, <1>5, <2>1, <3>2, FlushOnce
      <3>4. p.off = Resumed(b).off + n /\ p.fp = Resumed(b).fp
        BY <1>1, <1>2, <2>1, <3>1, FlushedFacts
      <3> QED
        BY <3>3, <3>4
    <2>2. CASE ~useIncremental(b)
      <3>1. p = aged[b] /\ delivered' = delivered /\ twice' = twice
        BY <1>1, <1>2, <2>2 DEF Deliver
      <3> QED
        BY <1>2, <3>1, KeptOnce DEF Once
    <2> QED
      BY <2>1, <2>2
  <1>8. cp' = cp \/ \E q \in Progress : saveProgress(b, q) /\ EntryOnce(b, q)'
    <2>1. CASE saveProgress(b, [p EXCEPT !.sealed = TRUE]) /\ UNCHANGED blob
      <3>1. PICK q : q = [p EXCEPT !.sealed = TRUE]
        OBVIOUS
      <3>2. q \in Progress /\ q.off = p.off /\ q.fp = p.fp /\ q.lm = p.lm /\ q.err = p.err
        BY <1>6, <3>1 DEF Progress
      <3> QED
        BY <1>7, <2>1, <3>1, <3>2
    <2>2. CASE retrackOrQuarantine(b, p, TRUE) /\ UNCHANGED blob
      BY <1>6, <1>7, <2>2, RetrackedOnce
    <2> QED
      BY <1>3, <2>1, <2>2
  <1> QED
    BY <1>2, <1>4, <1>7, <1>8, OnceAged

-----------------------------------------------------------------------------
(* The invariant of exactly once and what follows from it.                 *)

LEMMA OnceInit == Init => OnceInv
  <1> SUFFICES ASSUME Init PROVE Once
    BY DEF OnceInv
  <1>1. ASSUME NEW b \in Blobs PROVE OnceAt(b)
    <2>1. cp.progress[b] = None /\ aged[b] = None /\ delivered = {} /\ job[b] = NoJob
      BY DEF Init, NewPollingCheckpoint
    <2>2. Fresh(b, 0)
      BY <2>1 DEF Fresh
    <2>3. EntryOnce(b, cp.progress[b]) /\ EntryOnce(b, aged[b])
      BY <2>1 DEF EntryOnce
    <2>4. \A j \in {job[b]} : JobOnce(b, j)
      BY <2>1, NoJobOnce
    <2> QED
      BY <2>1, <2>2, <2>3, <2>4 DEF OnceAt
  <1>2. Modes
    BY DEF Init, Modes, Idle, NoPoll
  <1> QED
    BY <1>1, <1>2 DEF Once, Init

\* No step changes the scenario, and a lost checkpoint stays lost.
LEMMA NextSettled ==
    ASSUME [Next]_vars
    PROVE  cfg' = cfg /\ (forgot => forgot')
  <1>1. CASE Tick \/ RunPoll \/ PollAborts \/ FinalizePoll \/ Shutdown \/ Crash \/ Restart
             \/ UNCHANGED vars
    <2>1. Tick \/ UNCHANGED vars => cfg' = cfg /\ forgot' = forgot
      BY DEF Tick, receiver, vars, store
    <2>2. RunPoll \/ PollAborts \/ Shutdown \/ Restart => cfg' = cfg /\ forgot' = forgot
      BY DEF RunPoll, PollAborts, Shutdown, Restart, store
    <2>3. FinalizePoll => cfg' = cfg /\ forgot' = forgot
      BY DEF FinalizePoll
    <2>4. Crash => cfg' = cfg /\ forgot' = TRUE
      BY DEF Crash
    <2> QED
      BY <1>1, <2>1, <2>2, <2>3, <2>4
  <1>2. CASE \E ok \in BOOLEAN : SavePoll(ok) \/ ShutdownCompletes(ok)
    <2>1. PICK ok \in BOOLEAN : SavePoll(ok) \/ ShutdownCompletes(ok)
      BY <1>2
    <2>2. cfg' = cfg
      BY <2>1 DEF SavePoll, ShutdownCompletes
    <2>3. CASE forgot' = forgot
      BY <2>2, <2>3
    <2>4. CASE forgot' = (forgot \/ ~ok)
      <3>1. CASE ok
        BY <2>2, <2>4, <3>1
      <3>2. CASE ~ok
        BY <2>2, <2>4, <3>2
      <3> QED
        BY <3>1, <3>2
    <2> QED
      BY <2>1, <2>3, <2>4 DEF SavePoll, ShutdownCompletes
  <1>3. ASSUME NEW b \in Blobs,
               \/ \E n \in 0 .. MaxLen : Put(b, n)
               \/ \E k \in {"none", "open", "cut"} : Extend(b, k)
               \/ Remove(b) \/ List(b)
        PROVE  cfg' = cfg /\ forgot' = forgot
    BY <1>3 DEF Put, Extend, Remove, List, receiver, store
  <1>4. ASSUME NEW b \in Blobs,
               \/ Start(b) \/ ReadHead(b) \/ ReadTail(b)
               \/ PermanentReadError(b) \/ TransientReadError(b)
               \/ ConsumeDelta(b) \/ DeltaStuck(b) \/ ConsumeFails(b)
               \/ ProcessWhole(b) \/ WholeTransientError(b) \/ WholePermanentError(b)
        PROVE  cfg' = cfg /\ forgot' = forgot
    <2>1. UNCHANGED jobless
      BY <1>4 DEF Start, ReadHead, ReadTail, PermanentReadError, TransientReadError,
                  ConsumeDelta, DeltaStuck, ConsumeFails, ProcessWhole,
                  WholeTransientError, WholePermanentError
    <2> QED
      BY <2>1 DEF jobless, store
  <1>5. ASSUME NEW b \in Blobs,
               \/ DropNeverRead(b) \/ Unparseable(b)
               \/ \E afterHead, permanent \in BOOLEAN :
                    FlushReadFails(b, afterHead, permanent)
               \/ \E n \in 0 .. MaxLen : FlushConsumeFails(b, n)
               \/ \E ok \in BOOLEAN : AfterWhole(b, ok) \/ Retire(b, ok)
        PROVE  cfg' = cfg /\ forgot' = forgot
    BY <1>5 DEF DropNeverRead, Unparseable, FlushReadFails, FlushConsumeFails, AfterWhole,
                Retire, finalizing, store
  <1> QED
    BY <1>1, <1>2, <1>3, <1>4, <1>5 DEF Next

LEMMA OnceNext ==
    ASSUME IInv, IInv', OnceInv, [Next]_vars
    PROVE  OnceInv'
  <1>1. cfg' = cfg
    BY NextSettled
  <1>2. forgot => forgot'
    BY NextSettled
  <1> SUFFICES ASSUME isIncrementalFormat', ~forgot' PROVE OnceInv'
    BY DEF OnceInv
  <1>3. Once /\ isIncrementalFormat /\ Typed'
    BY <1>1, <1>2 DEF OnceInv, isIncrementalFormat, IInv, Typed
  <1>4. CASE Tick \/ RunPoll \/ PollAborts \/ FinalizePoll \/ Shutdown \/ Restart
             \/ UNCHANGED vars
    BY <1>3, <1>4, ContainerOnce, WriteOnce, RunPollOnce, PollAbortsOnce, FinalizePollOnce,
       ProcessOnce
  <1>5. CASE Crash
    BY <1>5 DEF Crash
  <1>6. CASE \E ok \in BOOLEAN : SavePoll(ok) \/ ShutdownCompletes(ok)
    BY <1>3, <1>6, SaveOnce
  <1>7. ASSUME NEW b \in Blobs,
               \/ \E n \in 0 .. MaxLen : Put(b, n)
               \/ \E k \in {"none", "open", "cut"} : Extend(b, k)
               \/ Remove(b)
        PROVE  OnceInv'
    BY <1>3, <1>7, WriteOnce
  <1>8. ASSUME NEW b \in Blobs,
               \/ List(b) \/ Start(b) \/ ReadHead(b) \/ ReadTail(b)
               \/ PermanentReadError(b) \/ TransientReadError(b)
               \/ ConsumeDelta(b) \/ DeltaStuck(b) \/ ConsumeFails(b)
               \/ ProcessWhole(b) \/ WholeTransientError(b) \/ WholePermanentError(b)
        PROVE  OnceInv'
    BY <1>3, <1>8, ListOnce, StartOnce, ReadHeadOnce, ReadTailOnce, ErrorOnce,
       ConsumeDeltaOnce, ProcessWholeOnce
  <1>9. ASSUME NEW b \in Blobs,
               \/ DropNeverRead(b) \/ Unparseable(b)
               \/ \E afterHead, permanent \in BOOLEAN :
                    FlushReadFails(b, afterHead, permanent)
               \/ \E n \in 0 .. MaxLen : FlushConsumeFails(b, n)
               \/ \E ok \in BOOLEAN : Retire(b, ok)
        PROVE  OnceInv'
    BY <1>3, <1>9, DropNeverReadOnce, UnparseableOnce, FlushReadFailsOnce,
       FlushConsumeFailsOnce, RetireOnce
  <1>10. ASSUME NEW b \in Blobs, NEW ok \in BOOLEAN, AfterWhole(b, ok)
         PROVE  FALSE
    <2>1. job[b].pc = "read" /\ JobSound(b, job[b])
      BY <1>10 DEF AfterWhole, IInv
    <2> QED
      BY <1>3, <2>1 DEF JobSound
  <1> QED
    BY <1>4, <1>5, <1>6, <1>7, <1>8, <1>9, <1>10 DEF Next

\* While no checkpoint is lost, no record of a blob that was never replaced
\* reaches the next consumer twice, whatever reads, flushes, deletions and
\* saves of a poll fail, and however writes come between the reads of a blob:
\* the offset of its entry is exactly what was delivered of it, and its
\* fingerprint never makes a resume start over.
THEOREM ExactlyOnceCorrect == Spec => []ExactlyOnce
  <1>1. OnceInv => ExactlyOnce
    BY DEF OnceInv, Once, ExactlyOnce
  <1>2. IInv /\ IInv' /\ OnceInv /\ [Next]_vars => OnceInv'
    BY OnceNext
  <1> QED
    BY <1>1, <1>2, OnceInit, Invariant, PTL DEF Spec

-----------------------------------------------------------------------------
(* No silent loss.  A blob that has an entry is flushed, was sealed with   *)
(* all it holds, or is quarantined and warned of.  A blob that has none is *)
(* in the window of the next poll, as long as the work on every blob a     *)
(* poll lists ends with an entry or the poll moves no window.              *)

\* The blob holds a record that was not delivered, and the log does not say so.
Lost(b) == Exists(b) /\ ~Read(b) /\ b \notin warned

\* A blob is sealed with all it holds, and is not written to any more.
SealedSound(b, p) == p # None /\ p.sealed => Closed(b) /\ (Exists(b) => Read(b))

\* A poll that begins with the checkpoint c lists the blob.
Listed(b, c) ==
    c.lp > 0 /\ PathTime(b) >= since /\ c.progress[b] = None =>
        PathTime(b) >= c.lp - RevisitWindow

\* The poll under way has listed the blob and done with it, and left no entry;
\* once it is finalized the window begins at its end.
Passed(b) ==
    /\ poll.pc = "listing" /\ ~Cancelled /\ b \notin todo /\ job[b].pc = "none"
    /\ PathTime(b) >= poll.start /\ cp.progress[b] = None

LossAt(b) ==
    /\ Exists(b) => b \in cfg.written
    /\ SealedSound(b, cp.progress[b]) /\ SealedSound(b, saved.progress[b])
    /\ aged[b] # None => ~aged[b].sealed
    /\ cp.progress[b] # None /\ cp.progress[b].quarantined => b \in warned
    /\ job[b].pc # "none" => PathTime(b) >= poll.start
    /\ job[b].pc = "head" \/ job[b].off > 0 => cp.progress[b] # None
    /\ Lost(b) =>
        /\ phase # "down" /\ aged[b] = None => Listed(b, cp)
        /\ Listed(b, saved)
        /\ Passed(b) => PathTime(b) >= poll.end - RevisitWindow

\* Goroutines work during the listing and flushes come after it; what is stored
\* is not ahead of what is in memory; a window begins where the last one ended
\* less the revisit window.
Turns ==
    /\ poll.pc # "listing" => Idle
    /\ poll.pc # "finalize" => \A b \in Blobs : aged[b] = None
    /\ phase = "down" => poll.pc = "idle"
    /\ phase # "down" => saved.lp <= cp.lp
    /\ poll.pc = "listing" => cp.lp <= poll.end
    /\ poll.pc = "listing" /\ cp.lp > 0 => poll.start = cp.lp - RevisitWindow

Kept == Turns /\ \A b \in Blobs : LossAt(b)

LossInv == isIncrementalFormat => Kept

\* The content of the blob is as it was.
SameContent(b) ==
    /\ blob'[b].gen = blob[b].gen /\ blob'[b].len = blob[b].len
    /\ blob'[b].tail = blob[b].tail /\ (blob'[b].there => blob[b].there)

LEMMA ReadSame ==
    ASSUME NEW b \in Blobs, SameContent(b), cfg' = cfg, delivered \subseteq delivered', Read(b)
    PROVE  Read(b)'
  <1>1. Content(b)' = Content(b)
    BY ContentSame DEF SameContent
  <1>2. \A k : TailIsRecord(k)' <=> TailIsRecord(k)
    BY DEF TailIsRecord
  <1> QED
    BY <1>1, <1>2 DEF Read, RecordsOf

LEMMA SealedStays ==
    ASSUME Typed, Typed', NEW b \in Blobs, SameContent(b), cfg' = cfg, now <= now',
           delivered \subseteq delivered', NEW p, SealedSound(b, p)
    PROVE  SealedSound(b, p)'
  <1>1. Closed(b) => Closed(b)'
    BY PollingAssumption DEF Typed, Scalars, Closed
  <1>2. Exists(b)' => Exists(b)
    BY DEF Exists, SameContent
  <1>3. Read(b) => Read(b)'
    BY ReadSame
  <1> QED
    BY <1>1, <1>2, <1>3 DEF SealedSound

LEMMA LostBefore ==
    ASSUME NEW b \in Blobs, SameContent(b), cfg' = cfg, delivered \subseteq delivered',
           b \in warned => b \in warned', Lost(b)'
    PROVE  Lost(b)
  <1>1. Exists(b)' => Exists(b)
    BY DEF Exists, SameContent
  <1>2. Read(b) => Read(b)'
    BY ReadSame
  <1> QED
    BY <1>1, <1>2 DEF Lost

\* What a step keeps of a blob it is not about.
Apart(b) ==
    /\ SameContent(b) /\ (b \in warned => b \in warned') /\ (b \in todo => b \in todo')
    /\ cp'.progress[b] = cp.progress[b] /\ aged'[b] = aged[b] /\ job'[b] = job[b]

LEMMA LossStays ==
    ASSUME Typed, Typed', NEW b \in Blobs, LossAt(b), Apart(b), cfg' = cfg, now <= now',
           delivered \subseteq delivered', UNCHANGED <<saved, since, poll, phase>>,
           cp'.lp = cp.lp
    PROVE  LossAt(b)'
  <1>1. Lost(b)' => Lost(b)
    BY LostBefore DEF Apart
  <1>2. Exists(b)' => Exists(b)
    BY DEF Exists, Apart, SameContent
  <1>3. SealedSound(b, cp.progress[b])' /\ SealedSound(b, saved.progress[b])'
    <2>1. PICK p, q : p = cp.progress[b] /\ q = saved.progress[b]
      OBVIOUS
    <2>2. SealedSound(b, p)' /\ SealedSound(b, q)'
      BY <2>1, SealedStays DEF LossAt, Apart
    <2>3. cp'.progress[b] = p /\ saved'.progress[b] = q
      BY <2>1 DEF Apart
    <2> QED
      BY <2>2, <2>3 DEF SealedSound
  <1>4. Listed(b, cp) => Listed(b, cp)'
    BY DEF Listed, Apart
  <1>5. Listed(b, saved) => Listed(b, saved)'
    BY DEF Listed
  <1>6. Passed(b)' => Passed(b)
    BY DEF Passed, Cancelled, Apart
  <1> QED
    BY <1>1, <1>2, <1>3, <1>4, <1>5, <1>6 DEF LossAt, Apart

\* A step keeps LossInv when it keeps what it says of the blobs it is about.
LEMMA LossFrame ==
    ASSUME Typed, Typed', Kept, Turns', cfg' = cfg, now <= now', delivered \subseteq delivered',
           UNCHANGED <<saved, since, poll, phase>>, cp'.lp = cp.lp,
           \A b \in Blobs : LossAt(b)' \/ Apart(b)
    PROVE  LossInv'
  <1>1. ASSUME NEW b \in Blobs PROVE LossAt(b)'
    BY LossStays DEF Kept
  <1> QED
    BY <1>1 DEF LossInv, Kept

\* A blob that is worked on lies in the window of the poll, and so in that of
\* the next one and of the one after a restart.
LEMMA WorkedFacts ==
    ASSUME IInv, Kept, NEW b \in Blobs, job[b].pc # "none"
    PROVE  /\ poll.pc = "listing" /\ phase # "down" /\ Typed
           /\ PathTime(b) \in Nat /\ PathTime(b) >= poll.start
           /\ cp.lp > 0 => PathTime(b) >= cp.lp - RevisitWindow
           /\ saved.lp > 0 => PathTime(b) >= saved.lp - RevisitWindow
           /\ \A c \in Blobs : aged[c] = None
  <1>1. poll.pc = "listing"
    BY DEF Kept, Turns, Idle, NoJob
  <1>2. phase # "down" /\ \A c \in Blobs : aged[c] = None
    BY <1>1 DEF Kept, Turns
  <1>3. /\ Typed /\ PathTime(b) \in Nat /\ cp.lp \in Nat /\ saved.lp \in Nat
        /\ RevisitWindow \in Nat
    BY Numbers DEF IInv, Typed, Shapes, Checkpoints
  <1>4. PathTime(b) >= poll.start /\ saved.lp <= cp.lp
        /\ (cp.lp > 0 => poll.start = cp.lp - RevisitWindow)
    BY <1>1, <1>2 DEF Kept, Turns, LossAt
  <1>5. cp.lp > 0 => PathTime(b) >= cp.lp - RevisitWindow
    BY <1>4
  <1> QED
    BY <1>1, <1>2, <1>3, <1>4, <1>5

\* A step of the work on a blob.  When it ends without an entry the poll is not
\* finalized, or the blob is not there.
LEMMA LossJob ==
    ASSUME IInv, Typed', Kept, NEW b \in Blobs, job[b].pc # "none", NEW j \in JobStates,
           UNCHANGED jobless, job' = [job EXCEPT ![b] = j], delivered \subseteq delivered',
           \A c \in Blobs : c # b /\ c \in warned => c \in warned',
           \/ /\ cp' = cp /\ (b \in warned => b \in warned')
              /\ j.pc = "none" => cp.progress[b] # None \/ Cancelled \/ ~Exists(b)
              /\ j.pc = "head" \/ j.off > 0 => cp.progress[b] # None
           \/ \E p \in Progress : saveProgress(b, p) /\ SealedSound(b, p)
                                  /\ (p.quarantined => b \in warned')
    PROVE  LossInv'
  <1>1. /\ UNCHANGED <<cfg, now, blob, gone, saved, since, poll, todo, aged, phase>>
    BY DEF jobless, container, store, polling
  <1>2. /\ poll.pc = "listing" /\ phase # "down" /\ Typed
        /\ PathTime(b) >= poll.start
        /\ cp.lp > 0 => PathTime(b) >= cp.lp - RevisitWindow
        /\ saved.lp > 0 => PathTime(b) >= saved.lp - RevisitWindow
        /\ \A c \in Blobs : aged[c] = None
    BY WorkedFacts
  <1>3. \A c \in Blobs : job'[c] = (IF c = b THEN j ELSE job[c])
    BY <1>2 DEF Typed, Shapes
  <1>4. cp'.lp = cp.lp /\ \A c \in Blobs : c # b => cp'.progress[c] = cp.progress[c]
    <2>1. ASSUME NEW p \in Progress, saveProgress(b, p)
          PROVE  cp'.lp = cp.lp /\ \A c \in Blobs : c # b => cp'.progress[c] = cp.progress[c]
      BY <1>2, <2>1, SaveShape
    <2> QED
      BY <2>1
  <1>5. Turns'
    BY <1>1, <1>2, <1>4 DEF Kept, Turns
  <1>6. ASSUME NEW c \in Blobs, c # b PROVE Apart(c)
    BY <1>1, <1>3, <1>4, <1>6 DEF Apart, SameContent
  <1>7. \A p : SealedSound(b, p) => SealedSound(b, p)'
    BY <1>1, <1>2, SealedStays DEF SameContent, Typed, Scalars
  <1>8. LossAt(b)'
    <2>1. LossAt(b)
      BY DEF Kept
    <2>2. SealedSound(b, saved.progress[b])'
      <3>1. PICK q : q = saved.progress[b]
        OBVIOUS
      <3>2. SealedSound(b, q)' /\ saved'.progress[b] = q
        BY <1>1, <1>7, <2>1, <3>1 DEF LossAt
      <3> QED
        BY <3>2 DEF SealedSound
    <2>3. Listed(b, cp)' /\ Listed(b, saved)'
      BY <1>1, <1>2, <1>4 DEF Listed
    <2>4. Exists(b)' = Exists(b) /\ Cancelled' = Cancelled
      BY <1>1 DEF Exists, Cancelled
    <2>5. CASE /\ cp' = cp /\ (b \in warned => b \in warned')
               /\ j.pc = "none" => cp.progress[b] # None \/ Cancelled \/ ~Exists(b)
               /\ j.pc = "head" \/ j.off > 0 => cp.progress[b] # None
      <3>1. SealedSound(b, cp.progress[b])'
        <4>1. PICK q : q = cp.progress[b]
          OBVIOUS
        <4>2. SealedSound(b, q)' /\ cp'.progress[b] = q
          BY <1>7, <2>1, <2>5, <4>1 DEF LossAt
        <4> QED
          BY <4>2 DEF SealedSound
      <3>2. Lost(b)' => ~Passed(b)'
        BY <1>3, <2>4, <2>5 DEF Lost, Passed
      <3> QED
        BY <1>1, <1>2, <1>3, <2>1, <2>2, <2>3, <2>4, <2>5, <3>1, <3>2 DEF LossAt
    <2>6. ASSUME NEW p \in Progress, saveProgress(b, p), SealedSound(b, p),
                 p.quarantined => b \in warned'
          PROVE  LossAt(b)'
      <3>1. cp'.progress[b] = p /\ p # None
        BY <1>2, <2>6, SaveShape, EntryThere
      <3>2. SealedSound(b, cp.progress[b])'
        <4>1. SealedSound(b, p)'
          BY <1>7, <2>6
        <4> QED
          BY <3>1, <4>1 DEF SealedSound
      <3>3. ~Passed(b)'
        BY <3>1 DEF Passed
      <3> QED
        BY <1>1, <1>2, <2>1, <2>2, <2>3, <2>4, <2>6, <3>1, <3>2, <3>3 DEF LossAt
    <2> QED
      BY <2>5, <2>6
  <1> QED
    BY <1>1, <1>2, <1>4, <1>5, <1>6, <1>8, LossFrame DEF Typed, Scalars

\* The work on a blob ends.
LEMMA LossLeaves ==
    ASSUME IInv, Typed', Kept, NEW b \in Blobs, job[b].pc # "none",
           UNCHANGED jobless, Leave(b), delivered \subseteq delivered',
           \A c \in Blobs : c # b /\ c \in warned => c \in warned',
           \/ /\ cp' = cp /\ (b \in warned => b \in warned')
              /\ cp.progress[b] # None \/ Cancelled \/ ~Exists(b)
           \/ \E p \in Progress : saveProgress(b, p) /\ SealedSound(b, p)
                                  /\ (p.quarantined => b \in warned')
    PROVE  LossInv'
  <1>1. PICK j : j = NoJob
    OBVIOUS
  <1>2. j.pc = "none" /\ j.off = 0 /\ j \in JobStates
    BY <1>1, NoJobSound DEF NoJob
  <1>3. job' = [job EXCEPT ![b] = j]
    BY <1>1 DEF Leave
  <1>4. CASE /\ cp' = cp /\ (b \in warned => b \in warned')
             /\ cp.progress[b] # None \/ Cancelled \/ ~Exists(b)
    <2>1. /\ j.pc = "none" => cp.progress[b] # None \/ Cancelled \/ ~Exists(b)
          /\ ~(j.pc = "head" \/ j.off > 0)
      BY <1>2, <1>4
    <2> QED
      BY <1>2, <1>3, <1>4, <2>1, LossJob
  <1>5. CASE \E p \in Progress : saveProgress(b, p) /\ SealedSound(b, p)
                                 /\ (p.quarantined => b \in warned')
    BY <1>2, <1>3, <1>5, LossJob
  <1> QED
    BY <1>4, <1>5

LEMMA StartKeeps ==
    ASSUME IInv, Typed', Kept, isIncrementalFormat, NEW b \in Blobs, Start(b)
    PROVE  LossInv'
  <1>1. /\ job[b].pc = "start" /\ job[b] \in JobStates /\ UNCHANGED jobless
        /\ cp' = cp /\ delivered' = delivered /\ warned' = warned
    BY JobFacts DEF Start, sink
  <1>2. CASE Cancelled /\ Leave(b)
    BY <1>1, <1>2, LossLeaves
  <1>3. CASE ~(Cancelled /\ Leave(b))
    <2>1. PICK p, i : p = ProgressOf(b) /\ i = job[b]
      OBVIOUS
    <2>2. PICK q : q = IF ~useIncremental(b) THEN "whole"
                       ELSE IF p.off > 0 /\ p.fp # <<>> THEN "head" ELSE "tail"
      OBVIOUS
    <2>3. PICK j : j = [i EXCEPT !.pc = q, !.off = p.off, !.fp = p.fp]
      OBVIOUS
    <2>4. job' = [job EXCEPT ![b] = j]
      BY <1>3, <2>1, <2>2, <2>3 DEF Start
    <2>5. p \in Progress
      BY <2>1, ProgressFacts
    <2>6. j \in JobStates /\ j.pc = q /\ j.off = p.off
      BY <1>1, <2>1, <2>2, <2>3, <2>5 DEF JobStates, Progress
    <2>7. p.off > 0 => cp.progress[b] # None
      BY <2>1 DEF ProgressOf, NewProgress
    <2> QED
      BY <1>1, <2>2, <2>4, <2>6, <2>7, LossJob
  <1> QED
    BY <1>2, <1>3

LEMMA ReadHeadKeeps ==
    ASSUME IInv, Typed', Kept, isIncrementalFormat, NEW b \in Blobs, ReadHead(b)
    PROVE  LossInv'
  <1>1. PICK i, o, h : /\ i = job[b] /\ h = Fingerprint(Content(b))
                       /\ o = IF needsReset(i.off, i.fp, Content(b)) THEN 0 ELSE i.off
    OBVIOUS
  <1>2. /\ i.pc = "head" /\ i \in JobStates /\ UNCHANGED jobless
        /\ cp' = cp /\ delivered' = delivered /\ warned' = warned
        /\ job \in [Blobs -> JobStates] /\ cp.progress[b] # None
    BY <1>1, JobFacts DEF ReadHead, sink, IInv, Shapes, Kept, LossAt
  <1>3. CASE Leave(b)
    BY <1>1, <1>2, <1>3, LossLeaves
  <1>4. CASE ~Leave(b)
    <2>1. PICK j : j = [i EXCEPT !.pc = "tail", !.head = h, !.off = o]
      OBVIOUS
    <2>2. job' = [job EXCEPT ![b] = j]
      BY <1>1, <1>2, <1>4, <2>1 DEF ReadHead
    <2>3. job'[b] = j
      BY <1>2, <2>2
    <2>4. j \in JobStates
      BY <2>3 DEF Typed, Shapes
    <2> QED
      BY <1>1, <1>2, <2>2, <2>4, LossJob
  <1> QED
    BY <1>3, <1>4

LEMMA ReadTailKeeps ==
    ASSUME IInv, Typed', Kept, isIncrementalFormat, NEW b \in Blobs, ReadTail(b)
    PROVE  LossInv'
  <1>1. PICK i, d : /\ i = job[b]
                    /\ d = SubSeq(Content(b), job[b].off + 1, Len(Content(b)))
    OBVIOUS
  <1>2. /\ i.pc = "tail" /\ i \in JobStates /\ UNCHANGED jobless
        /\ cp' = cp /\ delivered' = delivered /\ warned' = warned
        /\ job \in [Blobs -> JobStates] /\ (i.off > 0 => cp.progress[b] # None)
    BY <1>1, JobFacts DEF ReadTail, sink, IInv, Shapes, Kept, LossAt
  <1>3. CASE Exists(b)
    <2>1. PICK j : j = [i EXCEPT !.pc = "consume", !.data = d]
      OBVIOUS
    <2>2. job' = [job EXCEPT ![b] = j]
      BY <1>1, <1>2, <1>3, <2>1 DEF ReadTail
    <2>3. job'[b] = j
      BY <1>2, <2>2
    <2>4. j \in JobStates /\ j.pc = "consume" /\ j.off = i.off
      BY <1>2, <2>1, <2>3 DEF Typed, Shapes, JobStates
    <2> QED
      BY <1>1, <1>2, <2>2, <2>4, LossJob
  <1>4. CASE ~Exists(b)
    <2>1. Leave(b)
      BY <1>4 DEF ReadTail
    <2> QED
      BY <1>1, <1>2, <1>4, <2>1, LossLeaves
  <1> QED
    BY <1>3, <1>4

\* The flags of the entry of a blob.
LEMMA ProgressKept ==
    ASSUME IInv, Kept, NEW b \in Blobs
    PROVE  /\ ProgressOf(b) \in Progress /\ SealedSound(b, ProgressOf(b))
           /\ ProgressOf(b).quarantined => b \in warned
           /\ ProgressOf(b).off > 0 => cp.progress[b] # None
  <1>1. LossAt(b)
    BY DEF Kept
  <1> QED
    BY <1>1, ProgressFacts DEF ProgressOf, NewProgress, LossAt, SealedSound

LEMMA QuarantineKeeps ==
    ASSUME IInv, Typed', Kept, NEW b \in Blobs, job[b].pc # "none",
           UNCHANGED jobless, Leave(b), quarantineBlob(b)
    PROVE  LossInv'
  <1>1. PICK q, p : q = ProgressOf(b)
                    /\ p = [q EXCEPT !.lm = job[b].lm, !.quarantined = TRUE, !.err = FALSE]
    OBVIOUS
  <1>2. /\ q \in Progress /\ SealedSound(b, q) /\ (q.quarantined => b \in warned)
    BY <1>1, ProgressKept
  <1>3. /\ saveProgress(b, p) /\ delivered' = delivered
        /\ warned' = IF q.quarantined THEN warned ELSE warned \cup {b}
    BY <1>1 DEF quarantineBlob
  <1>4. job[b].lm \in Nat
    BY JobFacts
  <1>5. p \in Progress /\ p.sealed = q.sealed
    BY <1>1, <1>2, <1>4 DEF Progress
  <1>6. SealedSound(b, p)
    BY <1>2, <1>5, EntryThere DEF SealedSound
  <1>7. b \in warned' /\ warned \subseteq warned'
    BY <1>2, <1>3
  <1> QED
    BY <1>3, <1>5, <1>6, <1>7, LossLeaves

LEMMA TracksKeeps ==
    ASSUME IInv, Typed', Kept, NEW b \in Blobs, job[b].pc # "none",
           UNCHANGED jobless, Leave(b), trackNeverReadFailure(b)
    PROVE  LossInv'
  <1>1. PICK q, p : q = ProgressOf(b)
                    /\ p = [NewProgress EXCEPT !.quarantined = q.quarantined,
                                               !.lm = job[b].lm, !.err = TRUE]
    OBVIOUS
  <1>2. /\ q \in Progress /\ (q.quarantined => b \in warned) /\ q.quarantined \in BOOLEAN
    BY <1>1, ProgressKept DEF Progress
  <1>3. saveProgress(b, p) /\ delivered' = delivered /\ warned' = warned
    BY <1>1 DEF trackNeverReadFailure, sink
  <1>4. job[b].lm \in Nat
    BY JobFacts
  <1>5. p \in Progress /\ p.sealed = FALSE /\ p.quarantined = q.quarantined
    BY <1>1, <1>2, <1>4, NewProgressSound DEF Progress, NewProgress
  <1> QED
    BY <1>2, <1>3, <1>5, LossLeaves DEF SealedSound

LEMMA ErrorKeeps ==
    ASSUME IInv, Typed', Kept, isIncrementalFormat, NEW b \in Blobs,
           \/ PermanentReadError(b) \/ TransientReadError(b)
           \/ DeltaStuck(b) \/ ConsumeFails(b)
           \/ WholeTransientError(b) \/ WholePermanentError(b)
    PROVE  LossInv'
  <1>1. PICK i : i = job[b]
    OBVIOUS
  <1>2. i.pc \in {"head", "tail", "consume", "whole"} /\ Leave(b) /\ UNCHANGED jobless
        /\ i.off \in Nat
    <2>1. i.off \in Nat
      BY <1>1, JobFacts, PollingAssumption
    <2> QED
      BY <1>1, <2>1 DEF PermanentReadError, TransientReadError, DeltaStuck, ConsumeFails,
                WholeTransientError, WholePermanentError
  <1>3. CASE quarantineBlob(b)
    BY <1>1, <1>2, <1>3, QuarantineKeeps
  <1>4. CASE trackNeverReadFailure(b)
    BY <1>1, <1>2, <1>4, TracksKeeps
  <1>5. CASE UNCHANGED <<cp, sink>> /\ (\/ i.pc = "head" \/ i.off > 0
                                        \/ ProgressOf(b).off > 0)
    <2>1. cp' = cp /\ delivered' = delivered /\ warned' = warned
      BY <1>5 DEF sink
    <2>2. cp.progress[b] # None
      BY <1>1, <1>5, ProgressKept DEF Kept, LossAt
    <2> QED
      BY <1>1, <1>2, <2>1, <2>2, LossLeaves
  <1>6. ProgressOf(b).off \in Nat
    BY ProgressFacts, PollingAssumption DEF Progress
  <1> QED
    BY <1>1, <1>2, <1>3, <1>4, <1>5, <1>6
       DEF PermanentReadError, TransientReadError, DeltaStuck, ConsumeFails,
           WholeTransientError, WholePermanentError

LEMMA ConsumeDeltaKeeps ==
    ASSUME IInv, Typed', Kept, isIncrementalFormat, NEW b \in Blobs, ConsumeDelta(b)
    PROVE  LossInv'
  <1>1. PICK j, n, fp : j = job[b] /\ n = Complete(j.data) /\ fp = NewFingerprint(j, n)
    OBVIOUS
  <1>2. /\ j \in JobStates /\ JobSound(b, j) /\ j.pc = "consume" /\ Typed
        /\ j.off \in Nat /\ j.data \in Seq(Units) /\ Len(j.data) \in Nat /\ j.lm \in Nat
        /\ Tidy(j.data) /\ j.off + Len(j.data) <= MaxLen + 1 /\ MaxLen \in Nat
    <2>1. /\ j \in JobStates /\ JobSound(b, j) /\ j.data \in Seq(Units) /\ Typed
          /\ j.off \in 0 .. MaxLen + 1 /\ j.lm \in Nat
      BY <1>1, JobFacts
    <2>2. Len(j.data) \in Nat /\ MaxLen \in Nat
      BY <2>1, LenProperties, PollingAssumption
    <2>3. j.pc = "consume"
      BY <1>1 DEF ConsumeDelta
    <2>4. Tidy(j.data) /\ j.off + Len(j.data) <= MaxLen + 1
      BY <2>1 DEF JobSound
    <2>5. j.off \in Nat
      BY <2>1, <2>2
    <2> QED
      BY <2>1, <2>2, <2>3, <2>4, <2>5
  <1>3. n \in 0 .. Len(j.data) /\ n \in Nat
    BY <1>1, <1>2, CompleteFacts
  <1>4. fp \in Seq(Units)
    BY <1>1, <1>2, <1>3, NewFingerprintFacts DEF JobSound
  <1>5. PICK p : p = [NewProgress EXCEPT !.off = j.off + n, !.lm = j.lm, !.fp = fp]
    OBVIOUS
  <1>6. p \in Progress /\ p.sealed = FALSE /\ p.quarantined = FALSE
    <2>1. j.off + n \in 0 .. MaxLen + 1
      BY <1>2, <1>3
    <2> QED
      BY <1>2, <1>4, <1>5, <2>1, NewProgressSound DEF Progress, NewProgress
  <1>7. /\ saveProgress(b, p) /\ delivered \subseteq delivered' /\ warned' = warned \ {b}
        /\ Leave(b) /\ UNCHANGED jobless
    BY <1>1, <1>5 DEF ConsumeDelta, Deliver
  <1>8. SealedSound(b, p)
    BY <1>6 DEF SealedSound
  <1> QED
    BY <1>1, <1>2, <1>6, <1>7, <1>8, LossLeaves

LEMMA ProcessWholeKeeps ==
    ASSUME IInv, Typed', Kept, isIncrementalFormat, NEW b \in Blobs, ProcessWhole(b)
    PROVE  LossInv'
  <1>1. PICK p : p = [NewProgress EXCEPT !.off = MaxLen, !.lm = job[b].lm]
    OBVIOUS
  <1>2. /\ saveProgress(b, p) /\ delivered \subseteq delivered' /\ warned' = warned \ {b}
        /\ Leave(b) /\ UNCHANGED jobless /\ job[b].pc # "none"
    BY <1>1 DEF ProcessWhole, Deliver
  <1>3. MaxLen \in 0 .. MaxLen + 1 /\ job[b].lm \in Nat
    BY JobFacts, PollingAssumption
  <1>4. p \in Progress /\ p.sealed = FALSE /\ p.quarantined = FALSE
    BY <1>1, <1>3, NewProgressSound DEF Progress, NewProgress
  <1>5. SealedSound(b, p)
    BY <1>4 DEF SealedSound
  <1> QED
    BY <1>2, <1>4, <1>5, LossLeaves

\* The listing comes to a blob: it is not there, or it is not in the window, or
\* it has an entry, or it is worked on.
LEMMA ListKeeps ==
    ASSUME IInv, Typed', Kept, isIncrementalFormat, NEW b \in Blobs, List(b)
    PROVE  LossInv'
  <1>1. PICK j : j = [NoJob EXCEPT !.pc = "start", !.lm = blob[b].mtime]
    OBVIOUS
  <1>2. /\ UNCHANGED <<cfg, now, blob, gone, delivered, twice, warned, cp, saved, since,
                       poll, aged, phase>>
        /\ poll.pc = "listing" /\ phase # "down" /\ todo' = todo \ {b}
        /\ job' = IF shouldProcessBlob(b) THEN [job EXCEPT ![b] = j] ELSE job
    BY <1>1 DEF List, container, sink, store
  <1>3. /\ Typed /\ Turns /\ LossAt(b) /\ PathTime(b) \in Nat /\ poll.start \in Int
        /\ poll.end \in Nat /\ RevisitWindow \in Nat
    BY Numbers DEF IInv, Typed, Scalars, Kept
  <1>4. \A c \in Blobs : job'[c] = (IF c = b /\ shouldProcessBlob(b) THEN j ELSE job[c])
    BY <1>2, <1>3 DEF Typed, Shapes
  <1>5. j.pc = "start" /\ j.off = 0
    BY <1>1 DEF NoJob
  <1>6. Turns'
    BY <1>2, <1>3 DEF Turns
  <1>7. ASSUME NEW c \in Blobs, c # b PROVE Apart(c)
    BY <1>2, <1>4, <1>7 DEF Apart, SameContent
  <1>8. LossAt(b)'
    <2>1. SealedSound(b, cp.progress[b])' /\ SealedSound(b, saved.progress[b])'
      <3>1. PICK p, q : p = cp.progress[b] /\ q = saved.progress[b]
        OBVIOUS
      <3>2. SameContent(b) /\ now <= now'
        BY <1>2, <1>3 DEF SameContent, Typed, Scalars
      <3>3. SealedSound(b, p)' /\ SealedSound(b, q)'
        BY <1>2, <1>3, <3>1, <3>2, SealedStays DEF LossAt
      <3>4. cp'.progress[b] = p /\ saved'.progress[b] = q
        BY <1>2, <3>1
      <3> QED
        BY <3>3, <3>4 DEF SealedSound
    <2>2. /\ Exists(b)' = Exists(b) /\ Lost(b)' = Lost(b)
          /\ Listed(b, cp)' = Listed(b, cp) /\ Listed(b, saved)' = Listed(b, saved)
      BY <1>2 DEF Exists, Lost, Read, RecordsOf, Content, TailIsRecord, Listed
    <2>3. CASE shouldProcessBlob(b)
      <3>1. PathTime(b) >= poll.start
        BY <1>3, <2>3 DEF shouldProcessBlob
      <3>2. ~Passed(b)' /\ job'[b] = j
        BY <1>4, <1>5, <2>3 DEF Passed
      <3> QED
        BY <1>2, <1>3, <1>5, <2>1, <2>2, <3>1, <3>2 DEF LossAt
    <2>4. CASE ~shouldProcessBlob(b)
      <3>1. job'[b] = job[b]
        BY <1>4, <2>4
      <3>2. Lost(b)' /\ Passed(b)' => PathTime(b) >= poll.end
        BY <1>2, <1>3, <2>4 DEF Lost, Passed, shouldProcessBlob, shouldParseBlob, Exists
      <3>3. Lost(b)' /\ Passed(b)' => PathTime(b) >= poll'.end - RevisitWindow
        BY <1>2, <1>3, <3>2
      <3> QED
        BY <1>2, <1>3, <2>1, <2>2, <3>1, <3>3 DEF LossAt
    <2> QED
      BY <2>3, <2>4
  <1> QED
    BY <1>2, <1>3, <1>6, <1>7, <1>8, LossFrame DEF Typed, Scalars

-----------------------------------------------------------------------------
(* No silent loss: the flush of what has aged out.                         *)

LEMMA LossAged ==
    ASSUME IInv, Typed', Kept, NEW b \in Blobs, Finalizing(b), UNCHANGED finalizing, Done(b),
           \A c \in Blobs : SameContent(c), delivered \subseteq delivered',
           warned \subseteq warned',
           \/ cp' = cp /\ (b \in warned' \/ ~Exists(b)')
           \/ \E p \in Progress : saveProgress(b, p) /\ SealedSound(b, p)'
                                  /\ (p.quarantined => b \in warned')
    PROVE  LossInv'
  <1>1. UNCHANGED <<cfg, now, saved, since, poll, todo, job, phase>>
    BY DEF finalizing, store, polling
  <1>2. /\ Typed /\ Turns /\ LossAt(b) /\ poll.pc = "finalize" /\ phase # "down"
        /\ aged[b] # None
    BY DEF IInv, Typed, Kept, Finalizing
  <1>3. cp'.lp = cp.lp /\ \A c \in Blobs : c # b => cp'.progress[c] = cp.progress[c]
    <2>1. ASSUME NEW p \in Progress, saveProgress(b, p)
          PROVE  cp'.lp = cp.lp /\ \A c \in Blobs : c # b => cp'.progress[c] = cp.progress[c]
      BY <1>2, <2>1, SaveShape
    <2> QED
      BY <2>1
  <1>4. \A c \in Blobs : aged'[c] = (IF c = b THEN None ELSE aged[c])
    BY <1>2 DEF Typed, Shapes, Done
  <1>5. Turns'
    BY <1>1, <1>2, <1>3 DEF Turns, Idle
  <1>6. ASSUME NEW c \in Blobs, c # b PROVE Apart(c)
    BY <1>1, <1>3, <1>4, <1>6 DEF Apart
  <1>7. now <= now'
    BY <1>1, <1>2 DEF Typed, Scalars
  <1>8. LossAt(b)'
    <2>1. SealedSound(b, saved.progress[b])'
      <3>1. PICK q : q = saved.progress[b]
        OBVIOUS
      <3>2. SealedSound(b, q)' /\ saved'.progress[b] = q
        BY <1>1, <1>2, <1>7, <3>1, SealedStays DEF LossAt
      <3> QED
        BY <3>2 DEF SealedSound
    <2>2. /\ Exists(b)' => b \in cfg'.written
          /\ job'[b].pc = "none" /\ job'[b].off = 0 /\ ~Passed(b)'
      BY <1>1, <1>2 DEF LossAt, Exists, SameContent, Turns, Idle, NoJob, Passed
    <2>3. Lost(b)' => Listed(b, saved)'
      BY <1>1, <1>2, LostBefore DEF LossAt, Listed
    <2>4. CASE cp' = cp /\ (b \in warned' \/ ~Exists(b)')
      <3>1. SealedSound(b, cp.progress[b])'
        <4>1. PICK q : q = cp.progress[b]
          OBVIOUS
        <4>2. SealedSound(b, q)' /\ cp'.progress[b] = q
          BY <1>1, <1>2, <1>7, <2>4, <4>1, SealedStays DEF LossAt
        <4> QED
          BY <4>2 DEF SealedSound
      <3>2. ~Lost(b)'
        BY <2>4 DEF Lost
      <3> QED
        BY <1>2, <1>4, <2>1, <2>2, <2>4, <3>1, <3>2 DEF LossAt
    <2>5. ASSUME NEW p \in Progress, saveProgress(b, p), SealedSound(b, p)',
                 p.quarantined => b \in warned'
          PROVE  LossAt(b)'
      <3>1. cp'.progress[b] = p /\ p # None
        BY <1>2, <2>5, SaveShape, EntryThere
      <3>2. SealedSound(b, cp.progress[b])'
        BY <2>5, <3>1 DEF SealedSound
      <3>3. Listed(b, cp)'
        BY <3>1 DEF Listed
      <3> QED
        BY <1>4, <2>1, <2>2, <2>3, <2>5, <3>1, <3>2, <3>3 DEF LossAt
    <2> QED
      BY <2>4, <2>5
  <1> QED
    BY <1>1, <1>2, <1>3, <1>5, <1>6, <1>7, <1>8, LossFrame

\* An aged entry is not sealed and not quarantined, nor is what a flush makes of it.
LEMMA AgedFlags ==
    ASSUME IInv, Kept, NEW b \in Blobs, aged[b] # None
    PROVE  /\ aged[b] \in Progress /\ aged[b].sealed = FALSE /\ aged[b].quarantined = FALSE
           /\ useIncremental(b) =>
                \A p \in {Resumed(b), Flushed(b)} :
                    p \in Progress /\ p.sealed = FALSE /\ p.quarantined = FALSE
  <1>1. PICK p : p = aged[b]
    OBVIOUS
  <1>2. p \in Progress /\ p.sealed = FALSE /\ p.quarantined = FALSE
    <2>1. LossAt(b)
      BY DEF Kept
    <2> QED
      BY <1>1, <2>1, AgedFacts DEF LossAt, Progress
  <1>3. ASSUME useIncremental(b)
        PROVE  /\ Resumed(b) \in Progress
               /\ Resumed(b).sealed = FALSE /\ Resumed(b).quarantined = FALSE
    <2>1. Resumed(b) \in Progress
      BY <1>3, ResumedFacts
    <2>2. PICK c : c = Content(b)
      OBVIOUS
    <2>3. Resumed(b) = p \/ Resumed(b) = [p EXCEPT !.off = 0, !.fp = Fingerprint(c)]
      BY <1>1, <2>2 DEF Resumed
    <2> QED
      BY <1>2, <2>1, <2>3 DEF Progress
  <1>4. ASSUME useIncremental(b)
        PROVE  /\ Flushed(b) \in Progress
               /\ Flushed(b).sealed = FALSE /\ Flushed(b).quarantined = FALSE
    <2>1. PICK r, n : r = Resumed(b) /\ n = r.off + Emitted(SealTail(b))
      OBVIOUS
    <2>2. Flushed(b) = [r EXCEPT !.off = n]
      BY <1>3, <1>4, <2>1 DEF Flushed, Progress
    <2>3. Flushed(b) \in Progress
      BY <1>4, FlushedFacts
    <2> QED
      BY <1>3, <1>4, <2>1, <2>2, <2>3 DEF Progress
  <1> QED
    BY <1>1, <1>2, <1>3, <1>4

LEMMA LossRetracked ==
    ASSUME NEW b \in Blobs, NEW p \in Progress, NEW quarantinable \in BOOLEAN,
           retrackOrQuarantine(b, p, quarantinable),
           p.sealed = FALSE, p.quarantined = FALSE
    PROVE  /\ warned \subseteq warned'
           /\ \E q \in Progress : saveProgress(b, q) /\ SealedSound(b, q)'
                                  /\ (q.quarantined => b \in warned')
  <1>1. CASE Cancelled
    BY <1>1 DEF retrackOrQuarantine, SealedSound
  <1>2. CASE ~Cancelled
    <2> DEFINE n == p.fails + 1
               quarantine == quarantinable /\ n >= MaxFinalizeFailures
    <2>1. PICK q : q = [p EXCEPT !.fails = n, !.quarantined = quarantine]
      OBVIOUS
    <2>2. n \in Nat /\ quarantine \in BOOLEAN
      BY DEF Progress
    <2>3. saveProgress(b, q) /\ warned' = (IF quarantine THEN warned \cup {b} ELSE warned)
      BY <1>2, <2>1 DEF retrackOrQuarantine
    <2> HIDE DEF n, quarantine
    <2>4. q \in Progress /\ q.sealed = FALSE /\ q.quarantined = quarantine
      BY <2>1, <2>2 DEF Progress
    <2>5. SealedSound(b, q)'
      BY <2>4 DEF SealedSound
    <2>6. warned \subseteq warned' /\ (q.quarantined => b \in warned')
      BY <2>3, <2>4
    <2> QED
      BY <2>3, <2>4, <2>5, <2>6
  <1> QED
    BY <1>1, <1>2

LEMMA DropNeverReadKeeps ==
    ASSUME IInv, Typed', Kept, isIncrementalFormat, NEW b \in Blobs, DropNeverRead(b)
    PROVE  LossInv'
  <1>1. Finalizing(b) /\ UNCHANGED finalizing /\ Done(b)
        /\ UNCHANGED blob /\ UNCHANGED <<delivered, cp>> /\ warned' = warned \cup {b}
    BY DEF DropNeverRead
  <1>2. \A c \in Blobs : SameContent(c)
    BY <1>1 DEF SameContent
  <1> QED
    BY <1>1, <1>2, LossAged

LEMMA UnparseableKeeps ==
    ASSUME IInv, Typed', Kept, isIncrementalFormat, NEW b \in Blobs, Unparseable(b)
    PROVE  LossInv'
  <1>1. PICK f, q : f = Flushed(b) /\ q = [f EXCEPT !.quarantined = TRUE]
    OBVIOUS
  <1>2. /\ Finalizing(b) /\ UNCHANGED finalizing /\ Done(b) /\ UNCHANGED blob
        /\ aged[b] # None /\ useIncremental(b) /\ saveProgress(b, q)
        /\ delivered \subseteq delivered' /\ warned' = warned \cup {b}
    BY <1>1 DEF Unparseable, Finalizable, Finalizing, Deliver
  <1>3. f \in Progress /\ f.sealed = FALSE
    BY <1>1, <1>2, AgedFlags
  <1>4. q \in Progress /\ q.sealed = FALSE
    BY <1>1, <1>3 DEF Progress
  <1>5. SealedSound(b, q)'
    BY <1>4 DEF SealedSound
  <1>6. \A c \in Blobs : SameContent(c)
    BY <1>2 DEF SameContent
  <1> QED
    BY <1>2, <1>4, <1>5, <1>6, LossAged

LEMMA FlushReadFailsKeeps ==
    ASSUME IInv, Typed', Kept, isIncrementalFormat, NEW b \in Blobs,
           NEW afterHead \in BOOLEAN, NEW permanent \in BOOLEAN,
           FlushReadFails(b, afterHead, permanent)
    PROVE  LossInv'
  <1>1. PICK p : p = IF afterHead THEN Resumed(b) ELSE aged[b]
    OBVIOUS
  <1>2. /\ Finalizing(b) /\ UNCHANGED finalizing /\ Done(b)
        /\ UNCHANGED blob /\ delivered' = delivered
        /\ aged[b] # None /\ useIncremental(b) /\ retrackOrQuarantine(b, p, permanent)
    BY <1>1 DEF FlushReadFails, Finalizable, Finalizing
  <1>3. p \in Progress /\ p.sealed = FALSE /\ p.quarantined = FALSE
    BY <1>1, <1>2, AgedFlags
  <1>4. /\ warned \subseteq warned'
        /\ \E q \in Progress : saveProgress(b, q) /\ SealedSound(b, q)'
                               /\ (q.quarantined => b \in warned')
    BY <1>2, <1>3, LossRetracked
  <1>5. \A c \in Blobs : SameContent(c)
    BY <1>2 DEF SameContent
  <1> QED
    BY <1>2, <1>4, <1>5, LossAged

LEMMA FlushConsumeFailsKeeps ==
    ASSUME IInv, Typed', Kept, isIncrementalFormat, NEW b \in Blobs,
           NEW n \in 0 .. MaxLen, FlushConsumeFails(b, n)
    PROVE  LossInv'
  <1>1. PICK s, r, p : /\ s = SealTail(b) /\ r = Resumed(b)
                       /\ p = [Resumed(b) EXCEPT !.off = Resumed(b).off + n]
    OBVIOUS
  <1>2. aged[b] # None /\ useIncremental(b)
    BY DEF FlushConsumeFails, Finalizable, Finalizing
  <1>3. /\ r \in Progress /\ r.off \in 0 .. MaxLen + 1 /\ MaxLen \in Nat
        /\ r.sealed = FALSE /\ r.quarantined = FALSE
    BY <1>1, <1>2, ResumedFacts, AgedFlags, PollingAssumption
  <1>4. p = [Resumed(b) EXCEPT !.off = @ + n]
    BY <1>1, <1>3 DEF Progress
  <1>5. /\ Finalizing(b) /\ UNCHANGED finalizing /\ Done(b) /\ UNCHANGED blob
        /\ n = 0 \/ n = Complete(s)
        /\ delivered \subseteq delivered' /\ retrackOrQuarantine(b, p, FALSE)
    BY <1>1, <1>4 DEF FlushConsumeFails, Finalizable, Deliver
  <1>6. /\ s \in Seq(Units) /\ Tidy(s) /\ Len(s) \in Nat /\ r.off + Len(s) <= MaxLen + 1
    BY <1>1, <1>2, SealTailFacts, LenProperties
  <1>7. n \in Nat /\ n \in 0 .. Len(s)
    BY <1>5, <1>6, CompleteFacts
  <1>8. r.off + n \in 0 .. MaxLen + 1
    BY <1>3, <1>6, <1>7
  <1>9. p \in Progress /\ p.sealed = FALSE /\ p.quarantined = FALSE
    BY <1>1, <1>3, <1>8 DEF Progress
  <1>10. /\ warned \subseteq warned'
         /\ \E q \in Progress : saveProgress(b, q) /\ SealedSound(b, q)'
                                /\ (q.quarantined => b \in warned')
    BY <1>5, <1>9, LossRetracked
  <1>11. \A c \in Blobs : SameContent(c)
    BY <1>5 DEF SameContent
  <1> QED
    BY <1>5, <1>10, <1>11, LossAged

LEMMA RetireKeeps ==
    ASSUME ~GzipRewritten,
           IInv, Typed', Kept, isIncrementalFormat, NEW b \in Blobs, NEW ok \in BOOLEAN,
           Retire(b, ok)
    PROVE  LossInv'
  <1>1. PICK p : p = IF useIncremental(b) THEN Flushed(b) ELSE aged[b]
    OBVIOUS
  <1>2. /\ Finalizing(b) /\ UNCHANGED finalizing /\ Done(b) /\ aged[b] # None
        /\ ~(aged[b].err /\ aged[b].off = 0)
        /\ useIncremental(b) => CleanSeal(SealTail(b))
        /\ Deliver(IF useIncremental(b) THEN RecordsOf(b, SealTail(b)) ELSE {})
    BY DEF Retire, Finalizable, Finalizing
  <1>3. /\ delivered \subseteq delivered' /\ cfg' = cfg /\ now' = now
        /\ useIncremental(b) => RecordsOf(b, SealTail(b)) \subseteq delivered'
    BY <1>2 DEF Deliver, finalizing
  <1>4. \/ saveProgress(b, [p EXCEPT !.sealed = TRUE]) /\ UNCHANGED <<blob, warned>>
        \/ /\ blob' = [blob EXCEPT ![b].there = FALSE] /\ UNCHANGED <<cp, warned>>
        \/ /\ retrackOrQuarantine(b, p, TRUE) /\ UNCHANGED blob
    BY <1>1 DEF Retire
  <1>5. /\ blob \in [Blobs -> BlobStates] /\ blob[b] \in BlobStates
    BY DEF IInv, Shapes
  <1>6. \A c \in Blobs : SameContent(c)
    <2>1. CASE UNCHANGED blob
      BY <2>1 DEF SameContent
    <2>2. CASE blob' = [blob EXCEPT ![b].there = FALSE]
      BY <1>5, <2>2 DEF SameContent, BlobStates
    <2> QED
      BY <1>4, <2>1, <2>2
  <1>7. p \in Progress /\ p.sealed = FALSE /\ p.quarantined = FALSE
    BY <1>1, <1>2, AgedFlags
  <1>8. CASE saveProgress(b, [p EXCEPT !.sealed = TRUE]) /\ UNCHANGED <<blob, warned>>
    <2>1. PICK q : q = [p EXCEPT !.sealed = TRUE]
      OBVIOUS
    <2>2. q \in Progress /\ q.quarantined = FALSE
      BY <1>7, <2>1 DEF Progress
    <2>3. Closed(b) /\ Sound(b, aged[b]) /\ ~aged[b].quarantined
      BY <1>2, AgedFacts
    <2>4. Closed(b)'
      BY <1>3, <2>3 DEF Closed
    <2>5. Exists(b) => Read(b)'
      <3>1. CASE Exists(b) /\ useIncremental(b)
        BY <1>2, <1>3, <1>8, <3>1, FlushedIsRead
      <3>2. CASE ~useIncremental(b)
        <4>1. Read(b)
          BY <1>2, <2>3, <3>2 DEF Sound, useIncremental
        <4> QED
          BY <1>3, <1>6, <4>1, ReadSame
      <3> QED
        BY <3>1, <3>2
    <2>6. Exists(b)' = Exists(b)
      BY <1>8 DEF Exists
    <2>7. SealedSound(b, q)'
      BY <2>4, <2>5, <2>6 DEF SealedSound
    <2> QED
      BY <1>2, <1>3, <1>6, <1>8, <2>1, <2>2, <2>7, LossAged
  <1>9. CASE blob' = [blob EXCEPT ![b].there = FALSE] /\ UNCHANGED <<cp, warned>>
    <2>1. ~Exists(b)'
      BY <1>5, <1>9 DEF Exists, BlobStates
    <2> QED
      BY <1>2, <1>3, <1>6, <1>9, <2>1, LossAged
  <1>10. CASE retrackOrQuarantine(b, p, TRUE) /\ UNCHANGED blob
    <2>1. /\ warned \subseteq warned'
          /\ \E q \in Progress : saveProgress(b, q) /\ SealedSound(b, q)'
                                 /\ (q.quarantined => b \in warned')
      BY <1>7, <1>10, LossRetracked
    <2> QED
      BY <1>2, <1>3, <1>6, <2>1, LossAged
  <1> QED
    BY <1>4, <1>8, <1>9, <1>10

-----------------------------------------------------------------------------
(* No silent loss: time and the writers of the blobs.                      *)

LEMMA TickKeeps ==
    ASSUME IInv, Typed', Kept, isIncrementalFormat, Tick
    PROVE  LossInv'
  <1>1. /\ UNCHANGED <<cfg, blob, delivered, warned, cp, saved, since, poll, todo, aged,
                       job, phase>>
        /\ now' = now + 1
    BY DEF Tick, receiver, sink, store, polling
  <1>2. Typed /\ now <= now'
    BY <1>1 DEF IInv, Typed, Scalars
  <1>3. Turns'
    BY <1>1 DEF Kept, Turns, Idle
  <1>4. \A c \in Blobs : Apart(c)
    BY <1>1 DEF Apart, SameContent
  <1> QED
    BY <1>1, <1>2, <1>3, <1>4, LossFrame

\* A blob that is being written to lies in the window of every poll to come.
LEMMA WriteKeeps ==
    ASSUME IInv, Typed', Kept, isIncrementalFormat, NEW b \in Blobs,
           \/ \E n \in 0 .. MaxLen : Put(b, n)
           \/ \E k \in {"none", "open", "cut"} : Extend(b, k)
           \/ Remove(b)
    PROVE  LossInv'
  <1>1. /\ UNCHANGED <<cfg, now, delivered, warned, cp, saved, since, poll, todo, aged,
                       job, phase>>
        /\ Writing(b)
        /\ b \in cfg.written \/ Exists(b)
    BY DEF Put, Extend, Remove, receiver, sink, store, polling
  <1>2. \A c \in Blobs : c # b => blob'[c] = blob[c]
    BY DEF Put, Extend, Remove, IInv, Shapes
  <1>3. /\ Typed /\ Turns /\ LossAt(b) /\ now <= now' /\ now \in Nat
        /\ PathTime(b) \in Nat /\ Period \in Nat /\ RevisitWindow \in Nat
        /\ Period <= RevisitWindow /\ cp.lp \in Nat /\ saved.lp \in Nat /\ poll.end \in Nat
        /\ cp.lp <= now /\ saved.lp <= now /\ poll.end <= now
    <2>1. Typed /\ Turns /\ LossAt(b) /\ now \in Nat
      BY Numbers DEF IInv, Typed, Kept
    <2>2. PathTime(b) \in Nat /\ Period \in Nat /\ RevisitWindow \in Nat
          /\ Period <= RevisitWindow
      BY PollingAssumption
    <2>3. cp.lp \in Nat /\ saved.lp \in Nat /\ poll.end \in Nat
          /\ cp.lp <= now /\ saved.lp <= now /\ poll.end <= now
      BY <2>1 DEF Typed, Scalars, Shapes, Checkpoints
    <2> QED
      BY <1>1, <2>1, <2>2, <2>3
  <1>4. Turns'
    BY <1>1, <1>3 DEF Turns, Idle
  <1>5. ASSUME NEW c \in Blobs, c # b PROVE Apart(c)
    BY <1>1, <1>2, <1>5 DEF Apart, SameContent
  <1>6. PathTime(b) >= now - RevisitWindow /\ ~Closed(b)
    BY <1>1, <1>3 DEF Writing, Closed
  <1>7. LossAt(b)'
    <2>1. b \in cfg'.written
      BY <1>1, <1>3 DEF LossAt
    <2>2. SealedSound(b, cp.progress[b])' /\ SealedSound(b, saved.progress[b])'
      <3>1. PICK p, q : p = cp.progress[b] /\ q = saved.progress[b]
        OBVIOUS
      <3>2. ~(p # None /\ p.sealed) /\ ~(q # None /\ q.sealed)
        BY <1>3, <1>6, <3>1 DEF LossAt, SealedSound
      <3>3. cp'.progress[b] = p /\ saved'.progress[b] = q
        BY <1>1, <3>1
      <3> QED
        BY <3>2, <3>3 DEF SealedSound
    <2>3. /\ PathTime(b) >= cp.lp - RevisitWindow /\ PathTime(b) >= saved.lp - RevisitWindow
          /\ PathTime(b) >= poll.end - RevisitWindow
      BY <1>3, <1>6
    <2>4. Listed(b, cp)' /\ Listed(b, saved)' /\ PathTime(b) >= poll'.end - RevisitWindow
      BY <1>1, <2>3 DEF Listed
    <2> QED
      BY <1>1, <1>3, <2>1, <2>2, <2>4 DEF LossAt
  <1> QED
    BY <1>1, <1>3, <1>4, <1>5, <1>7, LossFrame

-----------------------------------------------------------------------------
(* No silent loss: the poll and the life of the process.                   *)

\* A step of the poll leaves the blobs alone, is not taken while one is worked
\* on, and puts no other entry for a blob than those it has.
LEMMA LossSettles ==
    ASSUME Typed, Typed', NEW b \in Blobs, LossAt(b), UNCHANGED <<cfg, now, blob, delivered>>,
           b \in warned => b \in warned',
           cp'.progress[b] \in {None, cp.progress[b], saved.progress[b]},
           saved'.progress[b] \in {cp.progress[b], saved.progress[b]},
           aged'[b] # None => ~aged'[b].sealed,
           cp'.progress[b] # None /\ cp'.progress[b].quarantined => b \in warned',
           job'[b] = NoJob,
           Exists(b) /\ ~Read(b) /\ b \notin warned' =>
                /\ phase' # "down" /\ aged'[b] = None => Listed(b, cp)'
                /\ Listed(b, saved)'
                /\ ~Passed(b)'
    PROVE  LossAt(b)'
  <1>1. SameContent(b) /\ now <= now'
    BY DEF SameContent, Typed, Scalars
  <1>2. PICK p, q, u, v : /\ p = cp.progress[b] /\ q = saved.progress[b]
                          /\ u = cp'.progress[b] /\ v = saved'.progress[b]
    OBVIOUS
  <1>3. SealedSound(b, p)' /\ SealedSound(b, q)' /\ SealedSound(b, None)'
    BY <1>1, <1>2, SealedStays DEF LossAt, SealedSound
  <1>4. SealedSound(b, cp.progress[b])' /\ SealedSound(b, saved.progress[b])'
    <2>1. u \in {None, p, q} /\ v \in {p, q}
      BY <1>2
    <2>2. SealedSound(b, u)' /\ SealedSound(b, v)'
      BY <1>3, <2>1
    <2> QED
      BY <1>2, <2>2 DEF SealedSound
  <1>5. job'[b].pc = "none" /\ job'[b].off = 0
    BY DEF NoJob
  <1>6. Exists(b)' => b \in cfg'.written
    BY DEF LossAt, Exists
  <1>7. Lost(b)' => Exists(b) /\ ~Read(b) /\ b \notin warned'
    <2>1. Read(b) => Read(b)'
      BY <1>1, ReadSame
    <2> QED
      BY <2>1 DEF Lost, Exists
  <1>8. Lost(b)' => /\ phase' # "down" /\ aged'[b] = None => Listed(b, cp)'
                    /\ Listed(b, saved)'
                    /\ Passed(b)' => PathTime(b) >= poll'.end - RevisitWindow
    BY <1>7
  <1>9. /\ aged'[b] # None => ~aged'[b].sealed
        /\ cp'.progress[b] # None /\ cp'.progress[b].quarantined => b \in warned'
        /\ job'[b].pc # "none" => PathTime(b) >= poll'.start
        /\ job'[b].pc = "head" \/ job'[b].off > 0 => cp'.progress[b] # None
    BY <1>5
  <1> QED
    BY <1>4, <1>6, <1>8, <1>9 DEF LossAt

\* What LossAt says of an entry and of a blob that has no job, in parts.
LEMMA LossParts ==
    ASSUME Kept, NEW b \in Blobs
    PROVE  /\ LossAt(b) /\ Turns
           /\ cp.progress[b] # None /\ cp.progress[b].quarantined => b \in warned
           /\ aged[b] # None => ~aged[b].sealed
           /\ Exists(b) /\ ~Read(b) /\ b \notin warned =>
                /\ b \in cfg.written
                /\ phase # "down" /\ aged[b] = None => Listed(b, cp)
                /\ Listed(b, saved)
                /\ Passed(b) => PathTime(b) >= poll.end - RevisitWindow
                /\ cp.progress[b] # None => ~cp.progress[b].sealed
  <1>1. LossAt(b) /\ Turns
    BY DEF Kept
  <1> QED
    BY <1>1 DEF LossAt, Lost, SealedSound

LEMMA RunPollKeeps ==
    ASSUME IInv, Typed', Kept, isIncrementalFormat, RunPoll
    PROVE  LossInv'
  <1>1. /\ UNCHANGED <<cfg, now, blob, delivered, warned, cp, saved, since, aged, job, phase>>
        /\ poll.pc = "idle" /\ phase # "down" /\ todo' = cfg.written
    BY DEF RunPoll, container, sink, store
  <1>2. /\ cp.lp \in Nat /\ cp.lp <= now /\ now \in Nat /\ RevisitWindow \in Nat
        /\ InitialLookback \in Nat /\ Typed /\ Turns
    BY PollingAssumption DEF IInv, Typed, Scalars, Shapes, Checkpoints, Kept
  <1>3. PICK s : s = incrementalHorizonStart(IF cp.lp = 0 THEN now - InitialLookback ELSE cp.lp)
    OBVIOUS
  <1>4. cp.lp > 0 => s = cp.lp - RevisitWindow
    BY <1>2, <1>3 DEF incrementalHorizonStart
  <1>5. poll' = [pc |-> "listing", end |-> now, start |-> s]
    BY <1>3 DEF RunPoll
  <1>6. Turns'
    BY <1>1, <1>2, <1>4, <1>5 DEF Turns, Idle
  <1>7. Idle
    BY <1>1, <1>2 DEF Turns
  <1>8. ASSUME NEW b \in Blobs PROVE LossAt(b)'
    <2>1. /\ LossAt(b)
          /\ cp.progress[b] # None /\ cp.progress[b].quarantined => b \in warned
          /\ aged[b] # None => ~aged[b].sealed
          /\ Exists(b) /\ ~Read(b) /\ b \notin warned =>
                /\ b \in cfg.written /\ (aged[b] = None => Listed(b, cp)) /\ Listed(b, saved)
      BY <1>1, LossParts
    <2>2. job'[b] = NoJob
      BY <1>1, <1>7 DEF Idle
    <2>3. b \in cfg.written => ~Passed(b)'
      BY <1>1 DEF Passed
    <2>4. Listed(b, cp)' = Listed(b, cp) /\ Listed(b, saved)' = Listed(b, saved)
      BY <1>1 DEF Listed
    <2> QED
      BY <1>1, <1>2, <2>1, <2>2, <2>3, <2>4, LossSettles
  <1> QED
    BY <1>6, <1>8 DEF LossInv, Kept

LEMMA PollAbortsKeeps ==
    ASSUME IInv, Typed', Kept, isIncrementalFormat, PollAborts
    PROVE  LossInv'
  <1>1. /\ UNCHANGED <<cfg, now, blob, delivered, warned, cp, saved, since, aged, job, phase>>
        /\ poll.pc = "listing" /\ phase # "down" /\ Idle
        /\ poll' = [poll EXCEPT !.pc = "idle", !.start = 0]
    BY DEF PollAborts, container, sink, store
  <1>2. Typed /\ Turns
    BY DEF IInv, Typed, Kept
  <1>3. poll'.pc = "idle"
    BY <1>1, <1>2, PollEnds
  <1>4. Turns'
    BY <1>1, <1>2, <1>3 DEF Turns, Idle
  <1>5. ASSUME NEW b \in Blobs PROVE LossAt(b)'
    <2>1. /\ LossAt(b)
          /\ cp.progress[b] # None /\ cp.progress[b].quarantined => b \in warned
          /\ aged[b] # None => ~aged[b].sealed
          /\ Exists(b) /\ ~Read(b) /\ b \notin warned =>
                (aged[b] = None => Listed(b, cp)) /\ Listed(b, saved)
      BY <1>1, LossParts
    <2>2. job'[b] = NoJob /\ ~Passed(b)'
      BY <1>1, <1>3 DEF Idle, Passed
    <2>3. Listed(b, cp)' = Listed(b, cp) /\ Listed(b, saved)' = Listed(b, saved)
      BY <1>1 DEF Listed
    <2> QED
      BY <1>1, <1>2, <2>1, <2>2, <2>3, LossSettles
  <1> QED
    BY <1>4, <1>5 DEF LossInv, Kept

\* The checkpoint is saved once nothing has aged out of it.
LEMMA SaveKeepsLoss ==
    ASSUME IInv, Typed', Kept, isIncrementalFormat, NEW ok \in BOOLEAN,
           SavePoll(ok) \/ ShutdownCompletes(ok)
    PROVE  LossInv'
  <1>1. /\ UNCHANGED <<cfg, now, blob, delivered, warned, since, aged, job>>
        /\ makeCheckpoint(ok)
    BY DEF SavePoll, ShutdownCompletes, container, sink, polling
  <1>2. Typed /\ Turns
    BY DEF IInv, Typed, Kept
  <1>3. /\ cp'.lp = cp.lp /\ cp'.progress = cp.progress
        /\ \/ saved' = saved
           \/ saved'.lp = cp.lp /\ saved'.progress = cp.progress
    BY <1>1, <1>2, WatermarkFacts
  <1>4. /\ phase # "down" /\ Idle /\ poll'.pc = "idle" /\ \A b \in Blobs : aged[b] = None
    <2>1. CASE SavePoll(ok)
      <3>1. /\ poll.pc = "finalize" /\ phase # "down" /\ \A b \in Blobs : aged[b] = None
            /\ poll' = [poll EXCEPT !.pc = "idle", !.start = 0]
        BY <2>1 DEF SavePoll
      <3>2. poll'.pc = "idle"
        BY <1>2, <3>1, PollEnds
      <3> QED
        BY <1>2, <3>1, <3>2 DEF Turns
    <2>2. CASE ShutdownCompletes(ok)
      <3>1. phase = "stopping" /\ poll.pc = "idle" /\ poll' = poll /\ Idle
        BY <2>2 DEF ShutdownCompletes, polling
      <3> QED
        BY <1>2, <3>1 DEF Turns
    <2> QED
      BY <2>1, <2>2
  <1>5. Turns'
    <2>1. saved.lp <= cp.lp /\ cp.lp <= cp.lp
      BY <1>2, <1>4 DEF Turns, Typed, Shapes, Checkpoints
    <2>2. saved'.lp <= cp'.lp
      BY <1>3, <2>1
    <2> QED
      BY <1>1, <1>4, <2>2 DEF Turns, Idle
  <1>6. ASSUME NEW b \in Blobs PROVE LossAt(b)'
    <2>1. /\ LossAt(b)
          /\ cp.progress[b] # None /\ cp.progress[b].quarantined => b \in warned
          /\ Exists(b) /\ ~Read(b) /\ b \notin warned => Listed(b, cp) /\ Listed(b, saved)
      BY <1>4, LossParts
    <2>2. job'[b] = NoJob /\ ~Passed(b)' /\ aged'[b] = None
      BY <1>1, <1>4 DEF Idle, Passed
    <2>3. Listed(b, cp) => Listed(b, cp)'
      BY <1>1, <1>3 DEF Listed
    <2>4. Listed(b, cp) /\ Listed(b, saved) => Listed(b, saved)'
      BY <1>1, <1>3 DEF Listed
    <2>5. /\ cp'.progress[b] = cp.progress[b]
          /\ saved'.progress[b] \in {cp.progress[b], saved.progress[b]}
      BY <1>3
    <2> QED
      BY <1>1, <1>2, <2>1, <2>2, <2>3, <2>4, <2>5, LossSettles
  <1> QED
    BY <1>5, <1>6 DEF LossInv, Kept

LEMMA ShutdownKeeps ==
    ASSUME IInv, Typed', Kept, isIncrementalFormat, Shutdown \/ UNCHANGED vars
    PROVE  LossInv'
  <1>1. /\ UNCHANGED <<cfg, now, blob, delivered, warned, cp, saved, since, poll, todo, aged,
                       job>>
        /\ \/ phase' = phase
           \/ phase = "running" /\ phase' = "stopping"
    BY DEF Shutdown, vars, container, sink, store, polling
  <1>2. Typed /\ Turns /\ now <= now'
    BY <1>1 DEF IInv, Typed, Kept, Scalars
  <1>3. Turns'
    BY <1>1, <1>2 DEF Turns, Idle
  <1>4. ASSUME NEW b \in Blobs PROVE LossAt(b)'
    <2>1. LossAt(b) /\ SameContent(b)
      BY <1>1 DEF Kept, SameContent
    <2>2. Lost(b)' => Lost(b)
      BY <1>1, <2>1, LostBefore
    <2>3. SealedSound(b, cp.progress[b])' /\ SealedSound(b, saved.progress[b])'
      <3>1. PICK p, q : p = cp.progress[b] /\ q = saved.progress[b]
        OBVIOUS
      <3>2. SealedSound(b, p)' /\ SealedSound(b, q)'
        BY <1>1, <1>2, <2>1, <3>1, SealedStays DEF LossAt
      <3>3. cp'.progress[b] = p /\ saved'.progress[b] = q
        BY <1>1, <3>1
      <3> QED
        BY <3>2, <3>3 DEF SealedSound
    <2>4. Listed(b, cp)' = Listed(b, cp) /\ Listed(b, saved)' = Listed(b, saved)
          /\ (Passed(b)' => Passed(b)) /\ Exists(b)' = Exists(b)
      BY <1>1 DEF Listed, Passed, Cancelled, Exists
    <2> QED
      BY <1>1, <2>1, <2>2, <2>3, <2>4 DEF LossAt
  <1> QED
    BY <1>3, <1>4 DEF LossInv, Kept

LEMMA CrashKeeps ==
    ASSUME IInv, Typed', Kept, isIncrementalFormat, Crash
    PROVE  LossInv'
  <1>1. /\ UNCHANGED <<cfg, now, blob, delivered, warned, cp, saved, since>>
        /\ phase' = "down" /\ poll' = NoPoll /\ poll'.pc = "idle"
        /\ \A b \in Blobs : aged'[b] = None /\ job'[b] = NoJob
    BY DEF Crash, container, sink, NoPoll
  <1>2. Typed
    BY DEF IInv, Typed
  <1>3. Turns'
    BY <1>1 DEF Turns, Idle
  <1>4. ASSUME NEW b \in Blobs PROVE LossAt(b)'
    <2>1. /\ LossAt(b)
          /\ cp.progress[b] # None /\ cp.progress[b].quarantined => b \in warned
          /\ Exists(b) /\ ~Read(b) /\ b \notin warned => Listed(b, saved)
      BY LossParts
    <2>2. ~Passed(b)' /\ Listed(b, saved)' = Listed(b, saved)
      BY <1>1 DEF Passed, Listed
    <2> QED
      BY <1>1, <1>2, <2>1, <2>2, LossSettles
  <1> QED
    BY <1>3, <1>4 DEF LossInv, Kept

LEMMA RestartKeeps ==
    ASSUME IInv, Typed', Kept, isIncrementalFormat, Restart
    PROVE  LossInv'
  <1>1. /\ UNCHANGED <<cfg, now, blob, delivered, saved, since, aged, job>>
        /\ phase = "down" /\ phase' = "running" /\ cp' = saved
        /\ poll' = NoPoll /\ poll'.pc = "idle"
        /\ warned' = warned \cup
             {b \in Blobs : saved.progress[b] # None /\ saved.progress[b].quarantined}
    BY DEF Restart, container, store, NoPoll
  <1>2. Typed /\ Turns /\ saved.lp \in Nat
    BY DEF IInv, Typed, Shapes, Checkpoints, Kept
  <1>3. Idle /\ \A b \in Blobs : aged[b] = None
    BY <1>1, <1>2 DEF Turns
  <1>4. Turns'
    BY <1>1, <1>2, <1>3 DEF Turns, Idle
  <1>5. ASSUME NEW b \in Blobs PROVE LossAt(b)'
    <2>1. /\ LossAt(b)
          /\ Exists(b) /\ ~Read(b) /\ b \notin warned => Listed(b, saved)
      BY LossParts
    <2>2. /\ ~Passed(b)' /\ Listed(b, saved)' = Listed(b, saved)
          /\ Listed(b, cp)' = Listed(b, saved)
      BY <1>1 DEF Passed, Listed
    <2>3. /\ cp'.progress[b] # None /\ cp'.progress[b].quarantined => b \in warned'
          /\ b \in warned => b \in warned'
      BY <1>1
    <2>4. cp'.progress[b] = saved.progress[b] /\ saved'.progress[b] = saved.progress[b]
          /\ aged'[b] = None /\ job'[b] = NoJob
      BY <1>1, <1>3 DEF Idle
    <2> QED
      BY <1>1, <1>2, <2>1, <2>2, <2>3, <2>4, LossSettles
  <1> QED
    BY <1>4, <1>5 DEF LossInv, Kept

\* What leaves the checkpoint at the end of a poll was delivered, is flushed or
\* is warned of; what has no entry was seen by the poll or lies before its window.
LEMMA FinalizePollKeeps ==
    ASSUME IInv, Typed', Kept, isIncrementalFormat, FinalizePoll
    PROVE  LossInv'
  <1>1. /\ Typed /\ Turns /\ cp \in Checkpoints /\ cp.lp \in Nat
        /\ cp.progress \in [Blobs -> Progress \cup {None}] /\ saved.lp \in Nat
    BY DEF IInv, Typed, Shapes, Checkpoints, Kept
  <1> DEFINE cutoff == poll.start - SealSkewTolerance
             Drop == {b \in Blobs : cp.progress[b] # None /\
                    (Pruned(cp.progress[b], poll.end) \/ AgedOut(cp.progress[b], cutoff))}
             GiveUp == {b \in Drop : GivenUp(cp.progress[b], cutoff)}
             Aged == {b \in Drop \ GiveUp : AgedOut(cp.progress[b], cutoff)}
             kept == [b \in Blobs |-> IF b \in Drop THEN None ELSE cp.progress[b]]
  <1>2. /\ UNCHANGED <<cfg, now, blob, delivered, saved, todo, job, phase>>
        /\ poll.pc = "listing" /\ poll' = [poll EXCEPT !.pc = "finalize"] /\ Idle
        /\ phase # "down" /\ ~Cancelled /\ todo = {}
        /\ aged' = [b \in Blobs |-> IF b \in Aged THEN cp.progress[b] ELSE None]
        /\ warned' = warned \cup GiveUp
        /\ since' = IF cp.lp = 0 THEN poll.start ELSE since
    BY DEF FinalizePoll, container
  <1>3. cp' = [cp EXCEPT !.lp = poll.end, !.progress = kept]
    BY <1>1 DEF FinalizePoll, Checkpoints
  <1>4. kept \in [Blobs -> Progress \cup {None}]
    BY <1>1
  <1>5. \A b \in Blobs : kept[b] = IF b \in Drop THEN None ELSE cp.progress[b]
    OBVIOUS
  <1>6. \A b \in Drop :
          /\ Pruned(cp.progress[b], poll.end) \/ AgedOut(cp.progress[b], cutoff)
          /\ cp.progress[b] # None
          /\ AgedOut(cp.progress[b], cutoff) => b \in GiveUp \/ b \in Aged
    OBVIOUS
  <1>7. \A b \in Aged : AgedOut(cp.progress[b], cutoff)
    OBVIOUS
  <1> HIDE DEF Drop, GiveUp, Aged, kept
  <1>8. cp'.lp = poll.end /\ cp'.progress = kept
    BY <1>1, <1>3, <1>4 DEF Checkpoints
  <1>9. /\ poll \in [pc : {"idle", "listing", "finalize"}, start : Int, end : Nat]
        /\ RevisitWindow \in Nat /\ cp.lp <= poll.end /\ saved.lp <= cp.lp
        /\ cp.lp > 0 => poll.start = cp.lp - RevisitWindow
        /\ \A b \in Blobs : aged[b] = None
    BY <1>1, <1>2, PollingAssumption DEF Typed, Scalars, Turns
  <1>10. poll'.pc = "finalize" /\ poll.start \in Int /\ poll.end \in Nat
    BY <1>2, <1>9
  <1>11. Turns'
    <2>1. saved.lp <= poll.end
      BY <1>1, <1>9, <1>10
    <2>2. saved'.lp <= cp'.lp
      BY <1>2, <1>8, <2>1
    <2> QED
      BY <1>2, <1>10, <2>2 DEF Turns, Idle
  <1>12. ASSUME NEW b \in Blobs PROVE LossAt(b)'
    <2>1. PICK p : p = cp.progress[b]
      OBVIOUS
    <2>2. /\ LossAt(b) /\ (p # None /\ p.quarantined => b \in warned)
          /\ Exists(b) /\ ~Read(b) /\ b \notin warned =>
                /\ b \in cfg.written /\ Listed(b, cp) /\ Listed(b, saved)
                /\ Passed(b) => PathTime(b) >= poll.end - RevisitWindow
                /\ p # None => ~p.sealed
      BY <1>2, <1>9, <2>1, LossParts
    <2>3. PathTime(b) \in Nat
      BY <1>1, Numbers
    <2>4. aged'[b] # None => ~aged'[b].sealed
      BY <1>2, <1>7 DEF AgedOut
    <2>5. /\ cp'.progress[b] \in {None, p}
          /\ cp'.progress[b] # None => cp'.progress[b] = p
      BY <1>5, <1>8, <2>1
    <2>6. job'[b] = NoJob /\ ~Passed(b)'
      BY <1>2, <1>10 DEF Idle, Passed
    <2>7. ASSUME Exists(b), ~Read(b), b \notin warned'
          PROVE  /\ aged'[b] = None => Listed(b, cp)'
                 /\ Listed(b, saved)'
      <3>1. b \notin warned /\ b \notin GiveUp
        BY <1>2, <2>7
      <3>2. Listed(b, saved)'
        <4>1. CASE cp.lp = 0
          <5>1. ~(saved.lp > 0)
            BY <1>1, <1>9, <4>1
          <5> QED
            BY <1>2, <5>1 DEF Listed
        <4>2. CASE cp.lp # 0
          BY <1>2, <2>2, <2>7, <3>1, <4>2 DEF Listed
        <4> QED
          BY <4>1, <4>2
      <3>3. ASSUME aged'[b] = None, cp'.progress[b] = None, PathTime(b) >= since'
            PROVE  PathTime(b) >= poll.end - RevisitWindow
        <4>1. p = None
          <5> SUFFICES ASSUME p # None PROVE FALSE
            OBVIOUS
          <5>1. b \in Drop
            BY <1>5, <1>8, <2>1, <3>3
          <5>2. ~(p.quarantined) /\ ~p.sealed
            BY <2>2, <2>7, <3>1
          <5>3. AgedOut(p, cutoff)
            BY <1>6, <2>1, <5>1, <5>2 DEF Pruned
          <5>4. b \in Aged
            BY <1>6, <2>1, <3>1, <5>1, <5>3
          <5> QED
            BY <1>2, <2>1, <3>3, <5>4
        <4>2. PathTime(b) >= poll.start
          <5>1. CASE cp.lp = 0
            BY <1>2, <3>3, <5>1
          <5>2. CASE cp.lp # 0
            <6>1. cp.lp > 0 /\ since' = since
              BY <1>1, <1>2, <5>2
            <6>2. PathTime(b) >= cp.lp - RevisitWindow
              BY <2>1, <2>2, <2>7, <3>1, <3>3, <4>1, <6>1 DEF Listed
            <6> QED
              BY <1>9, <6>1, <6>2
          <5> QED
            BY <5>1, <5>2
        <4>3. job[b].pc = "none"
          BY <1>2 DEF Idle, NoJob
        <4>4. Passed(b)
          BY <1>2, <2>1, <4>1, <4>2, <4>3 DEF Passed
        <4> QED
          BY <2>2, <2>7, <3>1, <4>4
      <3>4. aged'[b] = None => Listed(b, cp)'
        BY <1>8, <3>3 DEF Listed
      <3> QED
        BY <3>2, <3>4
    <2>8. /\ cp'.progress[b] # None /\ cp'.progress[b].quarantined => b \in warned'
          /\ b \in warned => b \in warned'
      BY <1>2, <2>2, <2>5
    <2> QED
      BY <1>1, <1>2, <2>1, <2>2, <2>4, <2>5, <2>6, <2>7, <2>8, LossSettles
  <1> QED
    BY <1>11, <1>12 DEF LossInv, Kept

-----------------------------------------------------------------------------
(* The invariant of no silent loss and what follows from it.               *)

LEMMA LossInit == Init => LossInv
  <1> SUFFICES ASSUME Init PROVE Kept
    BY DEF LossInv
  <1>1. ASSUME NEW b \in Blobs PROVE LossAt(b)
    <2>1. /\ cp.progress[b] = None /\ saved.progress[b] = None /\ cp.lp = 0 /\ saved.lp = 0
          /\ aged[b] = None /\ job[b] = NoJob /\ poll.pc = "idle" /\ ~Exists(b)
      BY DEF Init, NewPollingCheckpoint, NoPoll, Exists
    <2>2. job[b].pc = "none" /\ job[b].off = 0
      BY <2>1 DEF NoJob
    <2> QED
      BY <2>1, <2>2 DEF LossAt, SealedSound, Lost
  <1>2. Turns
    BY DEF Init, Turns, Idle, NoPoll, NewPollingCheckpoint
  <1> QED
    BY <1>1, <1>2 DEF Kept

LEMMA LossNext ==
    ASSUME ~GzipRewritten, IInv, IInv', LossInv, [Next]_vars
    PROVE  LossInv'
  <1>1. cfg' = cfg
    BY NextSettled
  <1> SUFFICES ASSUME isIncrementalFormat' PROVE LossInv'
    BY DEF LossInv
  <1>2. Kept /\ isIncrementalFormat /\ Typed'
    BY <1>1 DEF LossInv, isIncrementalFormat, IInv, Typed
  <1>3. CASE Tick \/ RunPoll \/ PollAborts \/ FinalizePoll \/ Shutdown \/ Crash \/ Restart
             \/ UNCHANGED vars
    BY <1>2, <1>3, TickKeeps, RunPollKeeps, PollAbortsKeeps, FinalizePollKeeps, ShutdownKeeps,
       CrashKeeps, RestartKeeps
  <1>4. CASE \E ok \in BOOLEAN : SavePoll(ok) \/ ShutdownCompletes(ok)
    BY <1>2, <1>4, SaveKeepsLoss
  <1>5. ASSUME NEW b \in Blobs,
               \/ \E n \in 0 .. MaxLen : Put(b, n)
               \/ \E k \in {"none", "open", "cut"} : Extend(b, k)
               \/ Remove(b)
        PROVE  LossInv'
    BY <1>2, <1>5, WriteKeeps
  <1>6. ASSUME NEW b \in Blobs,
               \/ List(b) \/ Start(b) \/ ReadHead(b) \/ ReadTail(b)
               \/ PermanentReadError(b) \/ TransientReadError(b)
               \/ ConsumeDelta(b) \/ DeltaStuck(b) \/ ConsumeFails(b)
               \/ ProcessWhole(b) \/ WholeTransientError(b) \/ WholePermanentError(b)
        PROVE  LossInv'
    BY <1>2, <1>6, ListKeeps, StartKeeps, ReadHeadKeeps, ReadTailKeeps, ErrorKeeps,
       ConsumeDeltaKeeps, ProcessWholeKeeps
  <1>7. ASSUME NEW b \in Blobs,
               \/ DropNeverRead(b) \/ Unparseable(b)
               \/ \E afterHead, permanent \in BOOLEAN :
                    FlushReadFails(b, afterHead, permanent)
               \/ \E n \in 0 .. MaxLen : FlushConsumeFails(b, n)
               \/ \E ok \in BOOLEAN : Retire(b, ok)
        PROVE  LossInv'
    BY <1>2, <1>7, DropNeverReadKeeps, UnparseableKeeps, FlushReadFailsKeeps,
       FlushConsumeFailsKeeps, RetireKeeps
  <1>8. ASSUME NEW b \in Blobs, NEW ok \in BOOLEAN, AfterWhole(b, ok)
        PROVE  FALSE
    <2>1. job[b].pc = "read" /\ JobSound(b, job[b])
      BY <1>8 DEF AfterWhole, IInv
    <2> QED
      BY <1>2, <2>1 DEF JobSound
  <1> QED
    BY <1>3, <1>4, <1>5, <1>6, <1>7, <1>8 DEF Next

\* While gzip blobs are written once, a blob since the first polled window that
\* holds a record the next consumer does not have is being read, will be read or
\* flushed, or is warned of, whatever reads, flushes, deletions and saves fail,
\* and whenever the receiver crashes: an entry is sealed only with all its blob
\* holds, and the window of a poll and that of the one after a restart reach back
\* to every blob that has none.
THEOREM NoSilentLossCorrect ==
    ASSUME ~GzipRewritten
    PROVE  Spec => []NoSilentLoss
  <1>1. LossInv => NoSilentLoss
    <2> SUFFICES ASSUME LossInv, isIncrementalFormat, phase # "down", cp.lp > 0,
                        NEW b \in Blobs, Exists(b), PathTime(b) >= since,
                        Undelivered(b) # {}, b \notin warned, job[b] = NoJob,
                        aged[b] = None, ~Active(cp.progress[b])
                 PROVE  WillBeRead(b)
      BY DEF NoSilentLoss
    <2>1. LossAt(b)
      BY DEF LossInv, Kept
    <2>2. ~Read(b)
      BY DEF Undelivered, Read
    <2>3. cp.progress[b] = None
      BY <2>1, <2>2 DEF LossAt, SealedSound, Active
    <2>4. Listed(b, cp)
      BY <2>1, <2>2 DEF LossAt, Lost
    <2> QED
      BY <2>3, <2>4 DEF Listed, WillBeRead
  <1>2. IInv /\ IInv' /\ LossInv /\ [Next]_vars => LossInv'
    BY LossNext
  <1> QED
    BY <1>1, <1>2, LossInit, Invariant, PTL DEF Spec

=============================================================================

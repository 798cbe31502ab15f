--------------------------- MODULE OtaUpgradeProofs ---------------------------
(***************************************************************************)
(* Theorems about OtaUpgrade for every set of packages, every capacity of  *)
(* the region and every chunk size: whatever the server sends and whatever *)
(* fails, no upgrade waits for the switch without the announced image in   *)
(* the region, and every hash context is given back.                       *)
(***************************************************************************)
EXTENDS OtaUpgrade, FiniteSetTheorems, TLAPS

(* The inductive invariant.                                                *)
(*                                                                         *)
(* VerifiedBeforeSwitch says nothing of a download that is going on.  What *)
(* makes it true is that the hash, while it is fed, covers the region: an  *)
(* update that is lost leaves the hash shorter than the offset for good,   *)
(* and a hash as long as the offset holds the blocks of the region.        *)

HashCoversRegion ==
    state = "DOWNLOADING" /\ ctx # NoContext =>
        /\ Len(ctx) <= offset
        /\ Len(ctx) = offset => \A i \in 1..offset : region[i] = ctx[i]

IInv == OtaTypeOK /\ ContextOwned /\ ManifestHeld /\ HashCoversRegion /\ VerifiedBeforeSwitch

(* The values the handlers build. *)

LEMMA PercentRange ==
    ASSUME NEW done \in Nat, NEW size \in Nat
    PROVE  Percent(done, size) \in 0..100
<1>1. CASE size = 0
  BY <1>1 DEF Percent
<1>2. CASE size # 0
  <2>1. (done * 100) \div size \in Int
    BY <1>2
  <2>2. ((done * 100) \div size) % 256 \in 0..255
    BY <2>1
  <2> QED
    BY <1>2, <2>2 DEF Percent
<1> QED
  BY <1>1, <1>2

\* persist_progress keeps the record's type.
LEMMA EnterType ==
    ASSUME OtaTypeOK, NEW s \in States, NEW done \in Nat, Enter(s, done),
           s = "DOWNLOADING" => manifest \in Manifests
    PROVE  state' = s /\ saved' \in [state : States, pct : 0..100]
<1>1. CASE s = "DOWNLOADING"
  <2>1. manifest.size \in Nat
    BY <1>1, ManifestAssumption
  <2>2. Percent(done, manifest.size) \in 0..100
    BY <2>1, PercentRange
  <2> QED
    BY <1>1, <2>2 DEF Enter
<1>2. CASE s # "DOWNLOADING"
  BY <1>2 DEF Enter
<1> QED
  BY <1>1, <1>2

LEMMA NothingHashed == <<>> \in Seq(Blocks) /\ <<>> # NoContext
<1>1. <<>> \in Seq(Blocks)
  OBVIOUS
<1> QED
  BY <1>1, NoneAssumption

LEMMA ChunkIsSequence ==
    ASSUME NEW c \in Chunks
    PROVE  c \in Seq(Blocks) /\ Len(c) \in Nat /\ Len(c) > 0
<1>1. PICK n \in 1..MaxChunk : c \in [1..n -> Blocks]
  BY DEF Chunks
<1> QED
  BY <1>1, RegionAssumption

\* A chunk in the flash leaves a region, and no block before it changes.
LEMMA WrittenRegion ==
    ASSUME OtaTypeOK, NEW c \in Chunks
    PROVE  /\ Written(c) \in [1..Capacity -> Blocks \cup {Erased}]
           /\ \A i \in 1..Capacity : i <= offset => Written(c)[i] = region[i]
           /\ \A i \in 1..Capacity : i \in (offset + 1)..(offset + Len(c)) =>
                Written(c)[i] = c[i - offset]
<1>1. c \in Seq(Blocks) /\ Len(c) \in Nat
  BY ChunkIsSequence
<1>2. offset \in Nat /\ Capacity \in Nat
  BY RegionAssumption DEF OtaTypeOK
<1>3. \A i \in (offset + 1)..(offset + Len(c)) : c[i - offset] \in Blocks
  BY <1>1, <1>2
<1> QED
  BY <1>1, <1>2, <1>3 DEF Written, OtaTypeOK

\* What Hash may leave of the context.
LEMMA HashOutcome ==
    ASSUME OtaTypeOK, ContextOwned, NEW c \in Chunks, Hash(c)
    PROVE  /\ ctx' \in Seq(Blocks) \cup {NoContext}
           /\ contexts' = contexts
           /\ (ctx' = NoContext) <=> (ctx = NoContext)
<1>1. c \in Seq(Blocks)
  BY ChunkIsSequence
<1>2. CASE ctx = NoContext
  BY <1>2 DEF Hash
<1>3. CASE ctx # NoContext
  <2>1. ctx \in Seq(Blocks) /\ ctx \o c \in Seq(Blocks)
    BY <1>1, <1>3 DEF OtaTypeOK
  <2> QED
    BY <1>3, <2>1, NoneAssumption DEF Hash
<1> QED
  BY <1>2, <1>3

\* The step the invariant is about: one more chunk in the region and, unless the
\* update is lost, in the hash.
LEMMA HashKeepsCovering ==
    ASSUME OtaTypeOK, HashCoversRegion, state = "DOWNLOADING",
           NEW c \in Chunks, Hash(c), offset + Len(c) <= Capacity,
           region' = Written(c), offset' = offset + Len(c)
    PROVE  HashCoversRegion'
<1> SUFFICES ASSUME ctx' # NoContext
             PROVE  /\ Len(ctx') <= offset'
                    /\ Len(ctx') = offset' => \A i \in 1..offset' : region'[i] = ctx'[i]
  BY DEF HashCoversRegion
<1>1. /\ c \in Seq(Blocks) /\ Len(c) \in Nat /\ Len(c) > 0
      /\ offset \in Nat /\ Capacity \in Nat
  BY ChunkIsSequence, RegionAssumption DEF OtaTypeOK
<1>2. ctx # NoContext
  BY DEF Hash
<1>3. ctx \in Seq(Blocks) /\ Len(ctx) <= offset /\ Len(ctx) \in Nat
  BY <1>2 DEF OtaTypeOK, HashCoversRegion
<1>4. CASE ctx' = ctx
  BY <1>1, <1>3, <1>4
<1>5. CASE ctx' = ctx \o c
  <2>1. Len(ctx') = Len(ctx) + Len(c)
    BY <1>1, <1>3, <1>5
  <2>2. ASSUME Len(ctx') = offset', NEW i \in 1..offset'
        PROVE  region'[i] = ctx'[i]
    <3>1. Len(ctx) = offset /\ i \in 1..Capacity
      BY <1>1, <1>3, <2>1, <2>2
    <3>2. \A j \in 1..offset : region[j] = ctx[j]
      BY <1>2, <3>1 DEF HashCoversRegion
    <3>3. CASE i <= offset
      <4>1. region'[i] = region[i]
        BY <3>1, <3>3, WrittenRegion
      <4>2. ctx'[i] = ctx[i]
        BY <1>1, <1>3, <1>5, <3>1, <3>3
      <4> QED
        BY <1>1, <3>2, <3>3, <4>1, <4>2
    <3>4. CASE i > offset
      <4>1. i \in (offset + 1)..(offset + Len(c))
        BY <1>1, <3>4
      <4>2. region'[i] = c[i - offset]
        BY <3>1, <4>1, WrittenRegion
      <4>3. ctx'[i] = c[i - offset]
        BY <1>1, <1>3, <1>5, <3>1, <4>1
      <4> QED
        BY <4>2, <4>3
    <3> QED
      BY <1>1, <3>3, <3>4
  <2> QED
    BY <1>1, <1>3, <2>1, <2>2
<1> QED
  BY <1>2, <1>4, <1>5 DEF Hash

\* What is verified is in the region.
LEMMA MatchIsInRegion ==
    ASSUME OtaTypeOK, HashCoversRegion, state = "DOWNLOADING",
           offset = manifest.size, Matches, manifest.size = Len(manifest.digest)
    PROVE  \A i \in 1..manifest.size : region[i] = manifest.digest[i]
BY DEF HashCoversRegion, Matches

LEMMA FreeContextOwned ==
    ASSUME OtaTypeOK, ContextOwned, FreeContext
    PROVE  ctx' = NoContext /\ contexts' = 0
BY DEF OtaTypeOK, ContextOwned, FreeContext
-----------------------------------------------------------------------------
LEMMA InitInvariant == Init => IInv
<1>1. Init => givenUp \in BOOLEAN
  BY DEF Init
<1> QED
  BY <1>1, RegionAssumption, NoneAssumption
  DEF Init, IInv, OtaTypeOK, ContextOwned, ManifestHeld, HashCoversRegion,
      VerifiedBeforeSwitch, States, Failures, Switching

\* Every step keeps the types.
LEMMA TypeStep == IInv /\ [Next]_vars => OtaTypeOK'
<1> SUFFICES ASSUME IInv, [Next]_vars
             PROVE  OtaTypeOK'
  OBVIOUS
<1> USE DEF States, Failures, Switching, shown
<1>1. ASSUME NEW m \in Manifests, Prepare(m)
      PROVE  OtaTypeOK'
  <2>1. PICK f \in Findings :
            IF Passes(f, m)
              THEN manifest' = m /\ Enter("READY_TO_DOWNLOAD", offset) /\ UNCHANGED result
              ELSE Enter("PRECHECK_FAILED", offset) /\ result' = "FAILED" /\ UNCHANGED manifest
    BY <1>1 DEF Prepare
  <2> QED
    BY <1>1, <2>1 DEF Prepare, Enter, IInv, OtaTypeOK, hash
<1>2. CASE Start
  <2>1. saved' \in [state : States, pct : 0..100] /\ state' = "DOWNLOADING"
    BY <1>2, EnterType DEF Start, IInv, ManifestHeld, OtaTypeOK
  <2>2. ctx' \in Seq(Blocks) \cup {NoContext} /\ contexts' \in Nat
    <3>1. ctx \in Seq(Blocks) \cup {NoContext} /\ contexts \in Nat
      BY DEF IInv, OtaTypeOK
    <3>2. \/ ctx' = <<>> /\ contexts' = contexts + 1
          \/ ctx' = ctx /\ contexts' = contexts
      BY <1>2 DEF Start, hash
    <3>3. CASE ctx' = <<>> /\ contexts' = contexts + 1
      BY <3>1, <3>3, NothingHashed
    <3> QED
      BY <3>1, <3>2, <3>3
  <2>3. region' \in [1..Capacity -> Blocks \cup {Erased}] /\ offset' \in 0..Capacity
    BY <1>2, RegionAssumption DEF Start, EraseRegion, IInv, OtaTypeOK
  <2> QED
    BY <1>2, <2>1, <2>2, <2>3 DEF Start, IInv, OtaTypeOK
<1>3. CASE Cancel
  BY <1>3, FreeContextOwned DEF Cancel, Enter, IInv, OtaTypeOK
<1>4. CASE Commit
  BY <1>4 DEF Commit, Enter, IInv, OtaTypeOK, hash
<1>5. CASE ReadFails
  BY <1>5 DEF ReadFails, Fail, Enter, IInv, OtaTypeOK, hash
<1>6. ASSUME NEW c \in Chunks, Take(c), manifest # NoManifest
      PROVE  OtaTypeOK'
  <2>1. offset + Len(c) \in 0..Capacity
    BY <1>6, ChunkIsSequence, RegionAssumption DEF Take, IInv, OtaTypeOK
  <2>2. saved' \in [state : States, pct : 0..100] /\ state' = "DOWNLOADING"
    BY <1>6, <2>1, EnterType DEF Take, IInv, OtaTypeOK
  <2> QED
    BY <1>6, <2>1, <2>2, HashOutcome, WrittenRegion DEF Take, IInv, OtaTypeOK
<1>7. ASSUME NEW c \in Chunks, WriteFails(c)
      PROVE  OtaTypeOK'
  BY <1>7, HashOutcome, WrittenRegion DEF WriteFails, Fail, Enter, IInv, OtaTypeOK
<1>8. CASE EndsShort
  BY <1>8 DEF EndsShort, Fail, Enter, IInv, OtaTypeOK, hash
<1>9. CASE Unverified
  BY <1>9, FreeContextOwned DEF Unverified, Fail, Enter, IInv, OtaTypeOK
<1>10. CASE Verified
  BY <1>10, FreeContextOwned DEF Verified, Enter, IInv, OtaTypeOK
<1>11. CASE Restart
  <2>1. givenUp' \in BOOLEAN
    BY <1>11 DEF Restart
  <2> QED
    BY <1>11, <2>1, RegionAssumption DEF Restart, IInv, OtaTypeOK
<1>12. CASE UNCHANGED vars
  BY <1>12 DEF vars, hash, IInv, OtaTypeOK
<1> QED
  BY <1>1, <1>2, <1>3, <1>4, <1>5, <1>6, <1>7, <1>8, <1>9, <1>10, <1>11, <1>12 DEF Next, Poll

\* Every step gives back the context it leaves behind, and the manifest.
LEMMA OwnershipStep == IInv /\ [Next]_vars => ContextOwned' /\ ManifestHeld'
<1> SUFFICES ASSUME IInv, [Next]_vars
             PROVE  ContextOwned' /\ ManifestHeld'
  OBVIOUS
<1> USE DEF ContextOwned, ManifestHeld
<1>1. ASSUME NEW m \in Manifests, Prepare(m)
      PROVE  ContextOwned' /\ ManifestHeld'
  <2>1. ctx = NoContext /\ UNCHANGED hash
    BY <1>1 DEF Prepare, IInv
  <2>2. \/ manifest' = m /\ state' = "READY_TO_DOWNLOAD"
        \/ manifest' = manifest /\ state' = "PRECHECK_FAILED"
    BY <1>1 DEF Prepare, Enter
  <2> QED
    BY <1>1, <2>1, <2>2, NoneAssumption DEF Prepare, IInv, hash
<1>2. CASE Start
  <2>1. ctx = NoContext /\ contexts = 0 /\ state' = "DOWNLOADING" /\ manifest' = manifest
    BY <1>2 DEF Start, Enter, IInv
  <2>2. \/ ctx' = <<>> /\ contexts' = 1
        \/ ctx' = NoContext /\ contexts' = 0
    BY <1>2, <2>1 DEF Start, hash
  <2> QED
    BY <1>2, <2>1, <2>2, NothingHashed DEF Start, IInv
<1>3. CASE Cancel
  BY <1>3, FreeContextOwned DEF Cancel, Enter, IInv
<1>4. CASE Commit
  BY <1>4 DEF Commit, Enter, IInv, hash
<1>5. CASE ReadFails /\ state = "DOWNLOADING"
  BY <1>5 DEF ReadFails, Fail, Enter, IInv, hash
<1>6. ASSUME NEW c \in Chunks, Take(c), state = "DOWNLOADING"
      PROVE  ContextOwned' /\ ManifestHeld'
  BY <1>6, HashOutcome DEF Take, Enter, IInv
<1>7. ASSUME NEW c \in Chunks, WriteFails(c), state = "DOWNLOADING"
      PROVE  ContextOwned' /\ ManifestHeld'
  BY <1>7, HashOutcome DEF WriteFails, Fail, Enter, IInv
<1>8. CASE EndsShort /\ state = "DOWNLOADING"
  BY <1>8 DEF EndsShort, Fail, Enter, IInv, hash
<1>9. CASE Unverified /\ state = "DOWNLOADING"
  BY <1>9, FreeContextOwned DEF Unverified, Fail, Enter, IInv
<1>10. CASE Verified /\ state = "DOWNLOADING"
  BY <1>10, FreeContextOwned DEF Verified, Enter, IInv
<1>11. CASE Restart
  BY <1>11 DEF Restart
<1>12. CASE UNCHANGED vars
  BY <1>12 DEF vars, hash, IInv
<1> QED
  BY <1>1, <1>2, <1>3, <1>4, <1>5, <1>6, <1>7, <1>8, <1>9, <1>10, <1>11, <1>12 DEF Next, Poll

\* Every step keeps the hash over the region, and what waits for the switch in it.
LEMMA ImageStep == IInv /\ [Next]_vars => HashCoversRegion' /\ VerifiedBeforeSwitch'
<1> SUFFICES ASSUME IInv, [Next]_vars
             PROVE  HashCoversRegion' /\ VerifiedBeforeSwitch'
  OBVIOUS
<1> USE DEF Switching
<1>1. ASSUME state' # "DOWNLOADING", state' \notin Switching
      PROVE  HashCoversRegion' /\ VerifiedBeforeSwitch'
  BY <1>1 DEF HashCoversRegion, VerifiedBeforeSwitch
<1>2. ASSUME NEW m \in Manifests, Prepare(m)
      PROVE  state' # "DOWNLOADING" /\ state' \notin Switching
  BY <1>2 DEF Prepare, Enter
<1>3. CASE Start
  <2>1. ctx = NoContext
    BY <1>3 DEF Start, IInv, ContextOwned
  <2>2. /\ state' = "DOWNLOADING" /\ offset' = 0
        /\ ctx' = <<>> \/ ctx' = NoContext
    BY <1>3, <2>1 DEF Start, Enter, hash
  <2>3. HashCoversRegion'
    BY <2>2 DEF HashCoversRegion
  <2> QED
    BY <2>2, <2>3 DEF VerifiedBeforeSwitch
<1>4. CASE Commit
  BY <1>4 DEF Commit, Enter, IInv, HashCoversRegion, VerifiedBeforeSwitch, hash
<1>5. ASSUME NEW c \in Chunks, Take(c), state = "DOWNLOADING"
      PROVE  HashCoversRegion' /\ VerifiedBeforeSwitch'
  <2>1. HashCoversRegion'
    BY <1>5, HashKeepsCovering DEF Take, IInv
  <2> QED
    BY <1>5, <2>1 DEF Take, Enter, VerifiedBeforeSwitch
<1>6. ASSUME NEW c \in Chunks, WriteFails(c)
      PROVE  state' # "DOWNLOADING" /\ state' \notin Switching
  BY <1>6 DEF WriteFails, Fail, Enter
<1>7. CASE Cancel \/ ReadFails \/ EndsShort \/ Unverified \/ Restart
  <2>1. state' # "DOWNLOADING" /\ state' \notin Switching
    BY <1>7 DEF Cancel, ReadFails, EndsShort, Unverified, Restart, Fail, Enter
  <2> QED
    BY <1>1, <2>1
<1>8. CASE Verified /\ state = "DOWNLOADING"
  <2>1. /\ state' \in Switching
        /\ UNCHANGED <<manifest, region>>
        /\ offset = manifest.size /\ Matches
    BY <1>8 DEF Verified, Enter
  <2>2. HashCoversRegion'
    BY <2>1 DEF HashCoversRegion
  <2>3. manifest.size = Len(manifest.digest) =>
            \A i \in 1..manifest.size : region[i] = manifest.digest[i]
    BY <1>8, <2>1, MatchIsInRegion DEF IInv
  <2> QED
    BY <2>1, <2>2, <2>3 DEF VerifiedBeforeSwitch
<1>9. CASE UNCHANGED vars
  BY <1>9 DEF vars, hash, IInv, HashCoversRegion, VerifiedBeforeSwitch
<1> QED
  BY <1>1, <1>2, <1>3, <1>4, <1>5, <1>6, <1>7, <1>8, <1>9 DEF Next, Poll

LEMMA InductiveInvariant == Spec => []IInv
<1>1. IInv /\ [Next]_vars => IInv'
  BY TypeStep, OwnershipStep, ImageStep DEF IInv
<1> QED
  BY InitInvariant, <1>1, PTL DEF Spec
-----------------------------------------------------------------------------
\* Every variable keeps its type, the percentage in the record included, whose
\* computation wraps: a download never records more than 100 per cent.
THEOREM TypeCorrect == Spec => []OtaTypeOK
<1>1. IInv => OtaTypeOK
  BY DEF IInv
<1> QED
  BY InductiveInvariant, <1>1, PTL

\* Whatever the server sends and whatever fails on the way, the region holds the
\* announced image once an upgrade waits for the switch (proto_ota_poll, COMMIT).
THEOREM OnlyTheAnnouncedImage == Spec => []VerifiedBeforeSwitch
<1>1. IInv => VerifiedBeforeSwitch
  BY DEF IInv
<1> QED
  BY InductiveInvariant, <1>1, PTL

\* No failure, cancel or restart leaves a hash context out or a manifest behind
\* (the releases in proto_ota_poll and CANCEL).
THEOREM NothingLeftBehind == Spec => []NothingHeldIdly
<1>1. IInv => NothingHeldIdly
  BY DEF IInv, NothingHeldIdly
<1> QED
  BY InductiveInvariant, <1>1, PTL

LEMMA ResultStep == ResultOfLastEnded /\ [Next]_vars => ResultOfLastEnded'
<1> SUFFICES ASSUME ResultOfLastEnded, [Next]_vars
             PROVE  ResultOfLastEnded'
  OBVIOUS
<1> USE DEF ResultOfLastEnded, Enter, Failures, shown
<1>1. ASSUME NEW m \in Manifests, Prepare(m)
      PROVE  ResultOfLastEnded'
  BY <1>1 DEF Prepare
<1>2. CASE Start \/ Cancel \/ Restart
  BY <1>2 DEF Start, Cancel, Restart
<1>3. CASE Commit
  BY <1>3 DEF Commit
<1>4. CASE ReadFails \/ EndsShort \/ Unverified
  BY <1>4 DEF ReadFails, EndsShort, Unverified, Fail
<1>5. ASSUME NEW c \in Chunks, state = "DOWNLOADING", Take(c) \/ WriteFails(c)
      PROVE  ResultOfLastEnded'
  BY <1>5 DEF Take, WriteFails, Fail
<1>6. CASE Verified /\ state = "DOWNLOADING"
  BY <1>6 DEF Verified
<1>7. CASE UNCHANGED vars
  BY <1>7 DEF vars
<1> QED
  BY <1>1, <1>2, <1>3, <1>4, <1>5, <1>6, <1>7 DEF Next, Poll

\* The result shown is that of the last upgrade that ended, whatever is prepared,
\* cancelled and prepared again (emit_upgrade_failed, CANCEL): FAILED exactly in
\* the states of failure, and otherwise CANCELLED once an upgrade was cancelled.
THEOREM ResultBelongs == Spec => []ResultOfLastEnded
<1>1. Init => ResultOfLastEnded
  BY DEF Init, ResultOfLastEnded, Failures
<1> QED
  BY ResultStep, <1>1, PTL DEF Spec
-----------------------------------------------------------------------------
(* The record.  A share is recorded only while the download runs, and then *)
(* the blocks before the offset have been written.                         *)

Earned(pct) == pct * manifest.size <= 100 * offset

WrittenSoFar == state = "DOWNLOADING" => \A i \in 1..offset : region[i] # Erased

RecordInv ==
    /\ saved.state = state
    /\ saved.pct > 0 => state = "DOWNLOADING" /\ Earned(saved.pct)
    /\ WrittenSoFar

\* Whatever the cast leaves of the percentage is a share of what was done.
LEMMA PercentEarned ==
    ASSUME NEW done \in Nat, NEW size \in Nat
    PROVE  Percent(done, size) * size <= 100 * done
<1>1. CASE size = 0
  BY <1>1 DEF Percent
<1>2. CASE size # 0
  <2>. DEFINE q == (done * 100) \div size
  <2>1. q \in Nat /\ q * size <= done * 100
    BY <1>2
  <2>. HIDE DEF q
  <2>2. q % 256 \in Nat /\ q % 256 <= q
    BY <2>1
  <2>3. Percent(done, size) \in Nat /\ Percent(done, size) <= q
    <3>1. Percent(done, size) = (IF q % 256 > 100 THEN 100 ELSE q % 256)
      BY <1>2 DEF Percent, q
    <3>. QED
      BY <2>1, <2>2, <3>1
  <2>4. \A p, r \in Nat : p <= r => p * size <= r * size
    OBVIOUS
  <2>5. Percent(done, size) * size <= q * size
    BY <2>1, <2>3, <2>4
  <2>6. Percent(done, size) * size \in Nat /\ q * size \in Nat
    BY <2>1, <2>3
  <2>. QED
    BY <2>1, <2>5, <2>6
<1>. QED
  BY <1>1, <1>2

LEMMA RecordStep ==
    ASSUME IInv, RecordInv, [Next]_vars
    PROVE  RecordInv'
<1>0. OtaTypeOK /\ offset \in Nat /\ Capacity \in Nat
  BY RegionAssumption DEF IInv, OtaTypeOK
<1>1. ASSUME NEW s \in States \ {"DOWNLOADING"}, Enter(s, offset)
      PROVE  RecordInv'
  BY <1>1 DEF Enter, RecordInv, WrittenSoFar
<1>2. ASSUME NEW m \in Manifests, Prepare(m)
      PROVE  RecordInv'
  <2>1. Enter("READY_TO_DOWNLOAD", offset) \/ Enter("PRECHECK_FAILED", offset)
    BY <1>2 DEF Prepare
  <2>. QED
    BY <1>1, <2>1 DEF States, Failures
<1>3. CASE Start
  <2>1. manifest' = manifest /\ manifest.size \in Nat
    BY <1>3, ManifestAssumption DEF Start, IInv, ManifestHeld, OtaTypeOK
  <2>2. Enter("DOWNLOADING", 0) /\ offset' = 0
    BY <1>3 DEF Start
  <2>3. Percent(0, manifest.size) * manifest.size <= 100 * 0
    BY <2>1, PercentEarned
  <2>4. state' = "DOWNLOADING" /\ saved'.state = "DOWNLOADING"
        /\ saved'.pct = Percent(0, manifest.size)
    BY <2>2 DEF Enter
  <2>. QED
    BY <2>1, <2>2, <2>3, <2>4 DEF RecordInv, WrittenSoFar, Earned
<1>4. CASE Cancel \/ Commit \/ ReadFails \/ EndsShort \/ Unverified \/ Verified
  <2>1. PICK s \in States \ {"DOWNLOADING"} : Enter(s, offset)
    BY <1>4 DEF Cancel, Commit, ReadFails, EndsShort, Unverified, Verified, Fail, States,
       Failures, Switching
  <2>. QED
    BY <1>1, <2>1
<1>5. ASSUME NEW c \in Chunks, WriteFails(c)
      PROVE  RecordInv'
  BY <1>1, <1>5 DEF WriteFails, Fail, States, Failures
<1>6. ASSUME NEW c \in Chunks, Take(c), state = "DOWNLOADING"
      PROVE  RecordInv'
  <2>1. c \in Seq(Blocks) /\ Len(c) \in Nat
    BY ChunkIsSequence
  <2>2. manifest' = manifest /\ manifest.size \in Nat
    BY <1>6, ManifestAssumption DEF Take, IInv, ManifestHeld, OtaTypeOK
  <2>3. /\ offset' = offset + Len(c) /\ offset + Len(c) \in Nat /\ offset + Len(c) <= Capacity
        /\ region' = Written(c)
        /\ state' = "DOWNLOADING" /\ saved'.state = "DOWNLOADING"
        /\ saved'.pct = Percent(offset + Len(c), manifest.size)
    BY <1>0, <1>6, <2>1 DEF Take, Enter
  <2>4. Percent(offset + Len(c), manifest.size) * manifest.size <= 100 * (offset + Len(c))
    BY <2>2, <2>3, PercentEarned
  <2>5. WrittenSoFar'
    <3>. SUFFICES ASSUME NEW i \in 1..(offset + Len(c))
                  PROVE  Written(c)[i] # Erased
      BY <2>3 DEF WrittenSoFar
    <3>1. i \in 1..Capacity
      BY <1>0, <2>1, <2>3
    <3>2. CASE i <= offset
      <4>1. Written(c)[i] = region[i]
        BY <1>0, <3>1, <3>2, WrittenRegion
      <4>. QED
        BY <1>0, <1>6, <3>1, <3>2, <4>1 DEF RecordInv, WrittenSoFar
    <3>3. CASE i > offset
      <4>1. i \in (offset + 1)..(offset + Len(c)) /\ i - offset \in 1..Len(c)
        BY <1>0, <2>1, <3>3
      <4>2. Written(c)[i] = c[i - offset]
        BY <1>0, <3>1, <4>1, WrittenRegion
      <4>3. c[i - offset] \in Blocks
        BY <2>1, <4>1
      <4>. QED
        BY <4>2, <4>3, NoneAssumption
    <3>. QED
      BY <1>0, <2>1, <3>2, <3>3
  <2>. QED
    BY <2>2, <2>3, <2>4, <2>5 DEF RecordInv, Earned
<1>7. CASE Restart
  BY <1>7 DEF Restart, RecordInv, WrittenSoFar
<1>8. CASE UNCHANGED vars
  BY <1>8 DEF vars, hash, RecordInv, WrittenSoFar, Earned
<1>. QED
  BY <1>2, <1>3, <1>4, <1>5, <1>6, <1>7, <1>8 DEF Next, Poll

LEMMA RecordEarnedInv ==
    ASSUME IInv, RecordInv
    PROVE  RecordEarned
<1>1. SUFFICES ASSUME saved.pct > 0
               PROVE  saved.pct * manifest.size <=
                        100 * Cardinality({i \in 1..Capacity : region[i] # Erased})
  BY DEF RecordInv, RecordEarned
<1>. DEFINE There == {i \in 1..Capacity : region[i] # Erased}
<1>2. offset \in Nat /\ Capacity \in Nat /\ offset <= Capacity
  BY RegionAssumption DEF IInv, OtaTypeOK
<1>3. state = "DOWNLOADING" /\ saved.pct * manifest.size <= 100 * offset
  BY <1>1 DEF RecordInv, Earned
<1>4. 1..offset \subseteq There
  BY <1>2, <1>3 DEF RecordInv, WrittenSoFar
<1>5. IsFiniteSet(1..Capacity) /\ Cardinality(1..offset) = offset
  BY <1>2, FS_Interval
<1>6. IsFiniteSet(There)
  BY <1>5, FS_Subset
<1>7. Cardinality(There) \in Nat /\ Cardinality(1..offset) <= Cardinality(There)
  BY <1>4, <1>6, FS_Subset, FS_CardinalityType
<1>8. manifest.size \in Nat /\ saved.pct \in Nat
  <2>1. manifest \in Manifests
    BY <1>3 DEF IInv, ManifestHeld, OtaTypeOK
  <2>2. saved.pct \in 0..100
    BY DEF IInv, OtaTypeOK
  <2>3. manifest.size \in Nat
    BY <2>1, ManifestAssumption
  <2>4. saved.pct \in Nat
    BY <2>2
  <2>. QED
    BY <2>3, <2>4
<1>9. saved.pct * manifest.size \in Nat
  BY <1>8
<1>. HIDE DEF There
<1>10. saved.pct * manifest.size <= 100 * Cardinality(There)
  BY <1>2, <1>3, <1>5, <1>7, <1>9
<1>. QED
  BY <1>10 DEF There

\* The percentage persist_progress records never promises more than the region
\* holds, although its computation is cut to a byte, and no record outlives the
\* state it tells of.
THEOREM RecordIsEarned == Spec => []RecordEarned
<1>1. Init => RecordInv
  BY DEF Init, RecordInv, WrittenSoFar
<1>2. IInv /\ RecordInv /\ [Next]_vars => RecordInv'
  BY RecordStep
<1>3. IInv /\ RecordInv => RecordEarned
  BY RecordEarnedInv
<1> QED
  BY InductiveInvariant, <1>1, <1>2, <1>3, PTL DEF Spec
=============================================================================

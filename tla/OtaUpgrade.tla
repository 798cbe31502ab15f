------------------------------ MODULE OtaUpgrade ------------------------------
(***************************************************************************)
(* The upgrade of the firmware (proto_ota.c, storage_upgrade.c): a package *)
(* is announced, downloaded chunk by chunk from the superloop into the     *)
(* upgrade region, hashed on the way, compared with the announced digest   *)
(* and handed to the boot loader.                                          *)
(*                                                                         *)
(* The HTTP client, the flash, SHA-256 and the reboot are the functions of *)
(* ota_port_t, which a board supplies: any of them may fail at any call,   *)
(* the server may answer a read with anything, and the hash of a sequence  *)
(* of blocks is the sequence itself (no two packages share a digest).  A   *)
(* block is the unit in which sizes and offsets count.                     *)
(***************************************************************************)
EXTENDS Integers, Sequences, FiniteSets

CONSTANTS
    Blocks,       \* contents of a block
    Manifests,    \* what the platform announces: see ManifestAssumption
    Capacity,     \* blocks in the upgrade region
    MaxChunk,     \* blocks in OTA_CHUNK_BYTES
    NoManifest,   \* s_has_manifest is false
    NoContext,    \* s_sha_ctx is NULL
    Erased        \* content of a block no write has reached

ASSUME ManifestAssumption ==
    Manifests \subseteq [size : Nat, digest : Seq(Blocks), override : BOOLEAN,
                         force : BOOLEAN, auto : BOOLEAN]
ASSUME RegionAssumption == Capacity \in Nat /\ MaxChunk \in Nat \ {0}
ASSUME NoneAssumption ==
    NoManifest \notin Manifests /\ NoContext \notin Seq(Blocks) /\ Erased \notin Blocks

VARIABLES
    state,      \* s_state
    manifest,   \* s_manifest of storage_upgrade.c, or NoManifest
    offset,     \* s_download_offset
    ctx,        \* s_sha_ctx: the blocks hashed, or NoContext
    contexts,   \* hash contexts the port has given out and not got back
    region,     \* the upgrade region, which alone outlives a loss of power
    result,     \* s_last_result
    saved,      \* the record of storage_upgrade_save_ota_state
    givenUp     \* history: an upgrade has been cancelled since start-up

hash == <<ctx, contexts>>
shown == <<result, givenUp>>
vars == <<state, manifest, offset, hash, region, shown, saved>>

\* States no handler leaves the machine in (PRECHECKING, DOWNLOADED, VERIFYING,
\* VERIFIED) are passed through within one call; nothing enters the others.
Failures == {"PRECHECK_FAILED", "DOWNLOAD_FAILED", "WRITE_FAILED", "VERIFY_FAILED"}
Switching == {"READY_TO_SWITCH", "SWITCHING"}
States == {"IDLE", "READY_TO_DOWNLOAD", "DOWNLOADING"} \cup Failures \cup Switching

\* Faulty variant: the percentage is not limited.
PercentUnlimited(done, size) == IF size = 0 THEN 0 ELSE ((done * 100) \div size) % 256

\* The cast to uint8_t comes before the limit.
Percent(done, size) ==
    LET pct == ((done * 100) \div size) % 256
    IN  IF size = 0 THEN 0 ELSE IF pct > 100 THEN 100 ELSE pct

\* The machine enters s and persist_progress records it with the share done of
\* the download; in another state than DOWNLOADING the share is none.
Enter(s, done) ==
    /\ state' = s
    /\ saved' = [state |-> s,
                 pct   |-> IF s = "DOWNLOADING" THEN Percent(done, manifest.size) ELSE 0]

Init ==
    /\ state = "IDLE" /\ manifest = NoManifest /\ offset = 0
    /\ ctx = NoContext /\ contexts = 0
    /\ region = [i \in 1..Capacity |-> Erased]
    /\ result = "NONE" /\ givenUp = FALSE
    /\ saved = [state |-> "IDLE", pct |-> 0]

\* proto_ota_init after a loss of power or a reboot.  (The record is marked not
\* valid; its initial contents say the same as the machine.)
Restart ==
    /\ state' = "IDLE" /\ manifest' = NoManifest /\ offset' = 0
    /\ ctx' = NoContext /\ contexts' = 0
    /\ result' = "NONE" /\ givenUp' = FALSE
    /\ saved' = [state |-> "IDLE", pct |-> 0]
    /\ UNCHANGED region

FreeContext == ctx' = NoContext /\ contexts' = IF ctx = NoContext THEN contexts ELSE contexts - 1
-----------------------------------------------------------------------------
(* proto_ota_execute_action *)

\* workflow_upgrade_guard_allow_upgrade
Allowed(running, settling, m) == ~settling /\ (running => m.override)

\* What precheck finds: the workflow's flags, the link, battery and signal, and
\* the room, if the port can tell.
Findings == [running : BOOLEAN, settling : BOOLEAN, stable : BOOLEAN, low : BOOLEAN,
             told : BOOLEAN, free : {0, Capacity}]

Passes(f, m) ==
    /\ Allowed(f.running, f.settling, m)
    /\ f.stable
    /\ f.low => m.force
    /\ m.size > 0 /\ f.told => m.size <= f.free

\* A refused package leaves no manifest: it is saved after the check.
Prepare(m) ==
    /\ state = "IDLE"
    /\ \E f \in Findings :
         IF Passes(f, m)
           THEN manifest' = m /\ Enter("READY_TO_DOWNLOAD", offset) /\ UNCHANGED result
           ELSE Enter("PRECHECK_FAILED", offset) /\ result' = "FAILED" /\ UNCHANGED manifest
    /\ UNCHANGED <<offset, hash, region, givenUp>>

\* A port without an erase function leaves the region as it is.
EraseRegion == region' \in {region, [i \in 1..Capacity |-> Erased]}

\* Faulty variant: the offset is reset at start-up only.
StartAtOldOffset ==
    /\ state = "READY_TO_DOWNLOAD"
    /\ EraseRegion
    /\ \E got \in BOOLEAN :
         IF got THEN ctx' = <<>> /\ contexts' = contexts + 1 ELSE UNCHANGED hash
    /\ Enter("DOWNLOADING", offset)
    /\ UNCHANGED <<manifest, offset, shown>>

\* An erase that fails leaves the machine where it is; a hash context that
\* cannot be had does not stop the download.
Start ==
    /\ state = "READY_TO_DOWNLOAD"
    /\ EraseRegion
    /\ offset' = 0
    /\ \E got \in BOOLEAN :
         IF got THEN ctx' = <<>> /\ contexts' = contexts + 1 ELSE UNCHANGED hash
    /\ Enter("DOWNLOADING", 0)
    /\ UNCHANGED <<manifest, shown>>

\* Faulty variant: the context is forgotten, not given back.
CancelLeaking ==
    /\ state \notin {"IDLE", "SWITCHING"}
    /\ ctx' = NoContext /\ UNCHANGED contexts
    /\ manifest' = NoManifest
    /\ Enter("IDLE", offset)
    /\ result' = "CANCELLED" /\ givenUp' = TRUE
    /\ UNCHANGED <<offset, region>>

\* Faulty variant: the manifest stays.
CancelKeepingManifest ==
    /\ state \notin {"IDLE", "SWITCHING"}
    /\ FreeContext
    /\ Enter("IDLE", offset)
    /\ result' = "CANCELLED" /\ givenUp' = TRUE
    /\ UNCHANGED <<manifest, offset, region>>

\* Faulty variant: the result of the cancelled upgrade stays.
CancelKeepingResult ==
    /\ state \notin {"IDLE", "SWITCHING"}
    /\ FreeContext
    /\ manifest' = NoManifest
    /\ Enter("IDLE", offset)
    /\ givenUp' = TRUE
    /\ UNCHANGED <<offset, region, result>>

Cancel ==
    /\ state \notin {"IDLE", "SWITCHING"}
    /\ FreeContext
    /\ manifest' = NoManifest
    /\ Enter("IDLE", offset)
    /\ result' = "CANCELLED" /\ givenUp' = TRUE
    /\ UNCHANGED <<offset, region>>

Commit ==
    /\ state = "READY_TO_SWITCH"
    /\ Enter("SWITCHING", offset)
    /\ UNCHANGED <<manifest, offset, hash, region, shown>>
-----------------------------------------------------------------------------
(* proto_ota_poll, from the superloop *)

\* emit_upgrade_failed and the state it comes with.
Fail(s) == Enter(s, offset) /\ result' = "FAILED" /\ UNCHANGED givenUp

\* http_download_chunk fails, or there is no manifest.
ReadFails ==
    /\ Fail("DOWNLOAD_FAILED")
    /\ UNCHANGED <<manifest, offset, hash, region>>

Chunks == UNION {[1..n -> Blocks] : n \in 1..MaxChunk}

Written(c) == [i \in 1..Capacity |-> IF i \in (offset + 1)..(offset + Len(c)) THEN c[i - offset] ELSE region[i]]

\* The hash takes the chunk before the flash does; what sha256_update returns is
\* not looked at, so a chunk may be missing from it.
Hash(c) ==
    /\ UNCHANGED contexts
    /\ ctx' \in IF ctx = NoContext THEN {NoContext} ELSE {ctx, ctx \o c}

\* Faulty variant: what the flash returns is not looked at either.
TakeUnchecked(c) ==
    /\ Hash(c)
    /\ region' \in {region, Written(c)}
    /\ offset' = offset + Len(c)
    /\ offset + Len(c) <= Capacity
    /\ Enter("DOWNLOADING", offset + Len(c))
    /\ UNCHANGED <<manifest, shown>>

Take(c) ==
    /\ Hash(c)
    /\ offset + Len(c) <= Capacity
    /\ region' = Written(c)
    /\ offset' = offset + Len(c)
    /\ Enter("DOWNLOADING", offset + Len(c))
    /\ UNCHANGED <<manifest, shown>>

\* The flash refuses the chunk, with or without having changed; it refuses every
\* chunk that goes past the region.
WriteFails(c) ==
    /\ Hash(c)
    /\ region' \in {region, Written(c)}
    /\ Fail("WRITE_FAILED")
    /\ UNCHANGED <<manifest, offset>>

\* Faulty variant: after a short package the download starts over.
EndsShortOver ==
    /\ offset # manifest.size
    /\ offset' = 0
    /\ ctx' = IF ctx = NoContext THEN ctx ELSE <<>>
    /\ Enter("DOWNLOADING", 0)
    /\ UNCHANGED <<manifest, contexts, region, shown>>

EndsShort ==
    /\ offset # manifest.size
    /\ Fail("DOWNLOAD_FAILED")
    /\ UNCHANGED <<manifest, offset, hash, region>>

\* hex64_equals_digest on the digest of what was hashed.
Matches == ctx # NoContext /\ ctx = manifest.digest

\* There is no context, or sha256_final fails, or the digest is another.
Unverified ==
    /\ offset = manifest.size
    /\ FreeContext
    /\ Fail("VERIFY_FAILED")
    /\ UNCHANGED <<manifest, offset, region>>

\* The machine passes through DOWNLOADED, VERIFYING and VERIFIED; with
\* auto_commit it commits before it returns.
Verified ==
    /\ offset = manifest.size /\ Matches
    /\ FreeContext
    /\ Enter(IF manifest.auto THEN "SWITCHING" ELSE "READY_TO_SWITCH", offset)
    /\ UNCHANGED <<manifest, offset, region, shown>>

\* Without a manifest only the first disjunct applies.
Poll ==
    /\ state = "DOWNLOADING"
    /\ \/ ReadFails
       \/ manifest # NoManifest /\
            (\/ \E c \in Chunks : Take(c) \/ WriteFails(c)
             \/ EndsShort
             \/ Unverified
             \/ Verified)

Next == (\E m \in Manifests : Prepare(m)) \/ Start \/ Cancel \/ Commit \/ Poll \/ Restart

\* The superloop calls proto_ota_poll on every turn.
Spec == Init /\ [][Next]_vars /\ WF_vars(Poll)
-----------------------------------------------------------------------------
OtaTypeOK ==
    /\ state \in States
    /\ manifest \in Manifests \cup {NoManifest}
    /\ offset \in 0..Capacity
    /\ ctx \in Seq(Blocks) \cup {NoContext}
    /\ contexts \in Nat
    /\ region \in [1..Capacity -> Blocks \cup {Erased}]
    /\ result \in {"NONE", "FAILED", "CANCELLED"}
    /\ saved \in [state : States, pct : 0..100]
    /\ givenUp \in BOOLEAN

\* The image the boot loader is given is the announced one: whatever failed on
\* the way (a write, an update of the hash, an earlier download of another
\* package cut short by a cancel or a loss of power), a package whose size is
\* the one announced is in the region, block for block, once the upgrade waits
\* for the switch.
VerifiedBeforeSwitch ==
    state \in Switching /\ manifest.size = Len(manifest.digest) =>
        \A i \in 1..manifest.size : region[i] = manifest.digest[i]

\* Every hash context is given back: as many are out as s_sha_ctx holds, and it
\* holds one only while there is something to hash or a failure to cancel.
ContextOwned ==
    /\ contexts = IF ctx = NoContext THEN 0 ELSE 1
    /\ ctx # NoContext => state \in {"DOWNLOADING", "DOWNLOAD_FAILED", "WRITE_FAILED"}

\* A manifest is there exactly while its upgrade is: proto_ota_poll never finds
\* it missing, and query_upgrade_status never shows the version of a package
\* that was refused or given up.
ManifestHeld == (manifest = NoManifest) <=> state \in {"IDLE", "PRECHECK_FAILED"}

\* No way out of an upgrade, failure, cancel, restart or success, leaves behind
\* what it held (the releases in proto_ota_poll and CANCEL).
NothingHeldIdly == ContextOwned /\ ManifestHeld

\* The result query_upgrade_status shows is that of the last upgrade that ended,
\* and no other: of the one at hand once it has failed; before that, from its
\* PREPARE to the switch, what was shown already, since nothing but a failure, a
\* cancel and a restart sets s_last_result.  A failure is shown no longer than
\* its state, a cancel until the next failure or restart, under the states of
\* later upgrades too.
ResultOfLastEnded ==
    result = IF state \in Failures THEN "FAILED" ELSE IF givenUp THEN "CANCELLED" ELSE "NONE"

\* The record agrees with the machine, and the percentage it holds has been
\* earned: that share of the announced blocks is in the region.
RecordEarned ==
    /\ saved.state = state
    /\ saved.pct > 0 =>
         saved.pct * manifest.size <= 100 * Cardinality({i \in 1..Capacity : region[i] # Erased})

\* A download comes to an end whatever the server sends: it is verified, fails,
\* or is given up.
DownloadEnds == state = "DOWNLOADING" ~> state # "DOWNLOADING"
=============================================================================

---------------------------------- MODULE Ota ----------------------------------
(***************************************************************************)
(* The update session of the host build (src/src/OtaComponent.hpp): the    *)
(* ground pushes an image, sets the CRC it expects in two halves, has the  *)
(* image verified and staged in two files, which the process writes in     *)
(* steps it may not survive; and the tool that looks at the two files      *)
(* afterwards (src/tools/golden_bootchain_check.py).  One thread steps the *)
(* component; a command is one step, staging one step per operation on a   *)
(* file.  A refused command only counts an error.  A missing file is as    *)
(* good as an empty one.                                                   *)
(***************************************************************************)
EXTENDS Naturals, Sequences

CONSTANTS
  Byte,              \* the bytes of images
  Half,              \* the values of 16 bits of a CRC
  Crc32,             \* the upper and lower half of the CRC of an image
  MAX_IMAGE_BYTES,
  STREAM_BUFFER      \* an image up to this size stays in the stream until it closes

\* What may have been received of an image.
Image == UNION {[1 .. n -> Byte] : n \in 0 .. MAX_IMAGE_BYTES}

ASSUME OtaAssumption ==
  /\ MAX_IMAGE_BYTES \in Nat \ {0} /\ STREAM_BUFFER \in Nat /\ 0 \in Half
  /\ Crc32 \in [Image -> Half \X Half]

VARIABLES
  at,                \* off, idle between commands, or where staging is
  image,             \* the bytes that were received
  expected_bytes, expected_crc32,
  session_active, image_verified, reboot_requested,
  artifact,          \* ota_candidate.bin
  manifest,          \* ota_candidate.meta: its two lines, or none
  accepted,          \* history: the CRCs images were found to have
  drift,             \* history: what changed since the verification
  signed,            \* history: drift when the manifest was written
  spoilt             \* history: a step of the last staging failed

session == <<image, expected_bytes, expected_crc32, session_active, image_verified, drift>>
files == <<artifact, manifest, signed, spoilt>>
otaVars == <<at, session, reboot_requested, files, accepted>>

Prefixes(bytes) == {SubSeq(bytes, 1, n) : n \in 0 .. Len(bytes)}
-----------------------------------------------------------------------------
\* The commands.

ResetSession ==
  /\ image' = <<>> /\ expected_bytes' = 0 /\ expected_crc32' = <<0, 0>>
  /\ session_active' = FALSE /\ image_verified' = FALSE /\ reboot_requested' = FALSE
  /\ drift' = {}

Reset == at = "idle" /\ ResetSession /\ UNCHANGED <<at, files, accepted>>

\* A count of no bytes is refused; one that is too large was cut to the limit.
BeginSession(expected) ==
  /\ at = "idle" /\ expected # 0
  /\ expected_bytes' = expected /\ image' = <<>> /\ drift' = {}
  /\ image_verified' = FALSE /\ reboot_requested' = FALSE /\ session_active' = TRUE
  /\ UNCHANGED <<at, expected_crc32, files, accepted>>

IngestChunk(b) ==
  /\ at = "idle" /\ session_active /\ Len(image) < MAX_IMAGE_BYTES
  /\ image' = Append(image, b) /\ drift' = drift \cup {"bytes"}
  /\ UNCHANGED <<at, expected_bytes, expected_crc32, session_active, image_verified,
                 reboot_requested, files, accepted>>

SetExpectedCrc(half, v) ==
  /\ at = "idle"
  /\ expected_crc32' = [expected_crc32 EXCEPT ![half] = v] /\ drift' = drift \cup {"crc"}
  /\ UNCHANGED <<at, image, expected_bytes, session_active, image_verified,
                 reboot_requested, files, accepted>>

\* MUTANT of VerifyImage: the size is enough.
VerifyBySize ==
  /\ at = "idle" /\ session_active /\ image # <<>>
  /\ image_verified' = (Len(image) = expected_bytes)
  /\ IF image_verified'
     THEN accepted' = accepted \cup {Crc32[image]} /\ drift' = {}
     ELSE UNCHANGED <<accepted, drift>>
  /\ UNCHANGED <<at, image, expected_bytes, expected_crc32, session_active, reboot_requested, files>>

\* An image of the wrong size is not looked at; without a session, or with
\* nothing received, the flag is left as it was.
VerifyImage ==
  /\ at = "idle" /\ session_active /\ image # <<>>
  /\ image_verified' = (Len(image) = expected_bytes /\ Crc32[image] = expected_crc32)
  /\ IF image_verified'
     THEN accepted' = accepted \cup {Crc32[image]} /\ drift' = {}
     ELSE UNCHANGED <<accepted, drift>>
  /\ UNCHANGED <<at, image, expected_bytes, expected_crc32, session_active, reboot_requested, files>>
-----------------------------------------------------------------------------
\* Staging.

\* The artifact is emptied by being opened.  If that fails nothing happened.
StageActivate ==
  /\ at = "idle" /\ image_verified
  /\ at' = "artifact" /\ artifact' = <<>> /\ spoilt' = FALSE
  /\ UNCHANGED <<session, reboot_requested, manifest, signed, accepted>>

Buffered == Len(image) <= STREAM_BUFFER

\* A large image goes to the file at once, and a write that fails is noticed.
WriteArtifact ==
  /\ at = "artifact"
  /\ at' = "manifest" /\ artifact' = IF Buffered THEN <<>> ELSE image
  /\ UNCHANGED <<session, reboot_requested, manifest, signed, spoilt, accepted>>

WriteFails ==
  /\ at = "artifact" /\ ~Buffered
  /\ artifact' \in Prefixes(image)
  /\ at' = "idle" /\ spoilt' = TRUE
  /\ UNCHANGED <<session, reboot_requested, manifest, signed, accepted>>

\* The manifest cannot be opened: the artifact is closed, what was in its
\* stream is written as far as it goes, and an older manifest stays.
ManifestFails ==
  /\ at = "manifest"
  /\ artifact' \in IF Buffered THEN Prefixes(image) ELSE {image}
  /\ at' = "idle" /\ spoilt' = TRUE
  /\ UNCHANGED <<session, reboot_requested, manifest, signed, accepted>>

\* The two lines fit the stream of the manifest.  The request is out before
\* any stream is closed.
RequestReboot ==
  /\ at = "manifest"
  /\ at' = "closing" /\ manifest' = <<>> /\ reboot_requested' = TRUE
  /\ UNCHANGED <<session, artifact, signed, spoilt, accepted>>

\* MUTANT of CloseManifest: the manifest has the CRC of what is staged.
CloseManifestOwnCrc ==
  /\ at = "closing"
  /\ at' = "closed" /\ signed' = drift
  /\ manifest' = <<[bytes |-> Len(image), crc |-> Crc32[image]]>>
  /\ UNCHANGED <<session, reboot_requested, artifact, spoilt, accepted>>

\* The streams are closed in the reverse order; a failure goes unnoticed.
CloseManifest ==
  /\ at = "closing"
  /\ at' = "closed" /\ signed' = drift
  /\ \/ manifest' = <<[bytes |-> Len(image), crc |-> expected_crc32]>> /\ UNCHANGED spoilt
     \/ UNCHANGED manifest /\ spoilt' = TRUE
  /\ UNCHANGED <<session, reboot_requested, artifact, accepted>>

CloseArtifact ==
  /\ at = "closed"
  /\ at' = "idle"
  /\ \/ artifact' = image /\ UNCHANGED spoilt
     \/ Buffered /\ artifact' \in Prefixes(image) /\ spoilt' = TRUE
  /\ UNCHANGED <<session, reboot_requested, manifest, signed, accepted>>
-----------------------------------------------------------------------------
\* The process: init starts without a session, the files are as they were left.

OtaInit ==
  /\ at = "off" /\ image = <<>> /\ expected_bytes = 0 /\ expected_crc32 = <<0, 0>>
  /\ session_active = FALSE /\ image_verified = FALSE /\ reboot_requested = FALSE
  /\ artifact = <<>> /\ manifest = <<>>
  /\ accepted = {} /\ drift = {} /\ signed = {} /\ spoilt = FALSE

OtaBoot == at = "off" /\ at' = "idle" /\ UNCHANGED <<session, reboot_requested, files, accepted>>
OtaGone ==
  /\ at # "off" /\ at' = "off"
  /\ ResetSession /\ spoilt' = (spoilt \/ at # "idle")
  /\ UNCHANGED <<artifact, manifest, signed, accepted>>

Command ==
  \/ Reset \/ \E expected \in 0 .. MAX_IMAGE_BYTES : BeginSession(expected)
  \/ \E b \in Byte : IngestChunk(b)
  \/ \E half \in {1, 2}, v \in Half : SetExpectedCrc(half, v)
  \/ VerifyImage

Staging ==
  \/ StageActivate \/ WriteArtifact \/ WriteFails
  \/ ManifestFails \/ RequestReboot \/ CloseManifest \/ CloseArtifact

OtaNext == Command \/ Staging \/ OtaBoot \/ OtaGone
OtaSpec == OtaInit /\ [][OtaNext]_otaVars
-----------------------------------------------------------------------------
\* golden_bootchain_check.py, of a candidate that is there: a line that the
\* manifest does not have is not compared.
Passes ==
  /\ artifact # <<>>
  /\ manifest # <<>> => /\ manifest[1].bytes = Len(artifact)
                        /\ manifest[1].crc = Crc32[artifact]

\* A manifest has all of its lines or none, and an image is verified only
\* while its session lasts.
OtaTypeOK ==
  /\ at \in {"off", "idle", "artifact", "manifest", "closing", "closed"}
  /\ image \in Image /\ artifact \in Image
  /\ expected_bytes \in 0 .. MAX_IMAGE_BYTES /\ expected_crc32 \in Half \X Half
  /\ session_active \in BOOLEAN /\ image_verified \in BOOLEAN /\ reboot_requested \in BOOLEAN
  /\ manifest \in Seq([bytes : Nat, crc : Half \X Half]) /\ Len(manifest) <= 1
  /\ accepted \subseteq Half \X Half
  /\ drift \subseteq {"bytes", "crc"} /\ signed \subseteq {"bytes", "crc"}
  /\ spoilt \in BOOLEAN
  /\ image_verified => session_active /\ image # <<>>

\* What the tool passes was verified: whatever sessions, failures and crashes
\* left the two files, a candidate that passes with a manifest has the CRC of
\* an image that was verified, or the ground set another one in between
\* (OtaComponent.hpp:162-230, golden_bootchain_check.py:129-143).
PassedIsVerified ==
  Passes /\ manifest # <<>> /\ "crc" \notin signed => Crc32[artifact] \in accepted

\* A reboot that was requested has its files: between commands they are those
\* of a verified image and pass the tool, unless a step on the files failed or
\* the image or its CRC changed after the verification
\* (OtaComponent.hpp:184-230, docs/ESP32_GOLDEN_IMAGE_BOOTCHAIN.md:28-36).
RequestedIsReady ==
  at = "idle" /\ reboot_requested /\ ~spoilt /\ signed = {} =>
    Passes /\ manifest # <<>> /\ Crc32[artifact] \in accepted

\* "OTA session manager shall verify staged update images using CRC32 before
\* emitting a reboot request event" (Requirements.hpp:136-137): the image
\* whose reboot is requested is one that was verified.
VerifiedBeforeReboot == at = "closing" => Crc32[image] \in accepted
=================================================================================

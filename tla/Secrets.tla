------------------------------ MODULE Secrets ------------------------------
(***************************************************************************)
(* The stored secrets of the tenants (secrets/envelope.py, keyring.py,     *)
(* resolver.py, rotation.py, repositories/secrets.py, api/secrets.py).     *)
(*                                                                         *)
(* A request's transaction is one action.  A rotation reads a batch and    *)
(* writes it back later: on MySQL its transaction does not keep requests   *)
(* from writing what it has read; what it wrote itself they wait for.      *)
(* The operator follows docs/multi-tenant-operations.md: one batch at a    *)
(* time, and no other keyring while it runs.                               *)
(***************************************************************************)
EXTENDS Integers, FiniteSets

CONSTANTS SecretNames, SecretValues,
          BatchLimit,              \* limit of rotate_batch
          MaxWrites, MaxVersions   \* bounds: envelopes made, key versions

ASSUME SecretBounds == /\ 0 \notin SecretValues /\ BatchLimit \in Nat
                       /\ MaxWrites \in Nat /\ MaxVersions \in Nat

VARIABLES secret,     \* [SecretNames -> row or NoSecret]
          wanted,     \* [SecretNames -> the value put last, Absent if deleted]
          keyring,    \* [active, keys], in the process and in the file
          batch,      \* [SecretNames -> row read by the rotation or NoSecret]
          rotating,
          writes      \* envelopes made so far: the source of ids and nonces

secretVars == <<secret, wanted, keyring, batch, rotating, writes>>

Absent == 0
NoBox == [value |-> Absent, aad |-> <<0, 0>>]
NoSecret == [id |-> 0, version |-> 0, nonce |-> 0, created |-> 0, box |-> NoBox]

----------------------------------------------------------------------------
(* Envelopes *)

\* What a ciphertext is bound to: of the secret its id, and the key's version.
build_envelope_aad(id, version) == <<id, version>>

encrypt(value, id, version) == [value |-> value, aad |-> build_envelope_aad(id, version)]

\* The plaintext, or Absent: a key version the keyring lacks, or another
\* row's ciphertext.
decrypt(row, keys) ==
  IF row.version \in keys /\ row.box.aad = build_envelope_aad(row.id, row.version)
  THEN row.box.value ELSE Absent

lookup_platform_secret(platform) == IF platform THEN "platform" ELSE "not configured"

\* What a run is given for a secret: the user's value ("user"), the
\* platform's where that is allowed, or an error.
resolve_secret(n, platform) ==
  IF secret[n] # NoSecret
  THEN IF decrypt(secret[n], keyring.keys) # Absent THEN "user" ELSE "invalid"
  ELSE lookup_platform_secret(platform)

----------------------------------------------------------------------------
(* Requests *)

\* The row inserted under a new id, or updated to it.
put_encrypted(old, id, box) ==
  [id |-> id, version |-> keyring.active, nonce |-> id,
   created |-> IF old = NoSecret THEN id ELSE old.created, box |-> box]

put_secret(n, value) ==
  LET id == writes + 1 IN
  /\ writes < MaxWrites /\ writes' = id
  /\ secret' = [secret EXCEPT ![n] = put_encrypted(@, id, encrypt(value, id, keyring.active))]
  /\ wanted' = [wanted EXCEPT ![n] = value]
  /\ UNCHANGED <<keyring, batch, rotating>>

\* delete_secret: 404 when there is none.
delete_secret(n) ==
  /\ secret[n] # NoSecret
  /\ secret' = [secret EXCEPT ![n] = NoSecret]
  /\ wanted' = [wanted EXCEPT ![n] = Absent]
  /\ UNCHANGED <<keyring, batch, rotating, writes>>

----------------------------------------------------------------------------
(* Rotation *)

Stale == {n \in SecretNames : secret[n] # NoSecret /\ secret[n].version # keyring.active}

\* rotate_batch, the oldest rows of another key version.
rotate_read ==
  /\ ~rotating /\ rotating' = TRUE
  /\ batch' = [n \in SecretNames |->
       IF n \in Stale /\ Cardinality({k \in Stale : secret[k].created < secret[n].created}) < BatchLimit
       THEN secret[n] ELSE NoSecret]
  /\ UNCHANGED <<secret, wanted, keyring, writes>>

\* Mutant: the row found under the name is written, whichever it is.
SwapAnyRow(n) == secret[n] # NoSecret

\* compare_and_swap_rotation: the row is the one that was read.
compare_and_swap_rotation(n) ==
  /\ secret[n].id = batch[n].id /\ secret[n].version = batch[n].version
  /\ secret[n].nonce = batch[n].nonce /\ secret[n].box = batch[n].box

\* The row of n after the rotation: under the active key, or as it is when
\* another was written meanwhile or the old one cannot be read.
Rotated(n) ==
  IF /\ batch[n] # NoSecret /\ decrypt(batch[n], keyring.keys) # Absent
     /\ compare_and_swap_rotation(n)
  THEN [secret[n] EXCEPT !.version = keyring.active, !.nonce = writes + 1,
          !.box = encrypt(decrypt(batch[n], keyring.keys), batch[n].id, keyring.active)]
  ELSE secret[n]

rotate_commit ==
  /\ rotating /\ rotating' = FALSE
  /\ writes < MaxWrites /\ writes' = writes + 1
  /\ secret' = [n \in SecretNames |-> Rotated(n)]
  /\ batch' = [n \in SecretNames |-> NoSecret]
  /\ UNCHANGED <<wanted, keyring>>

\* The process that rotates dies: its transaction is rolled back.
rotate_crash ==
  /\ rotating /\ rotating' = FALSE
  /\ batch' = [n \in SecretNames |-> NoSecret]
  /\ UNCHANGED <<secret, wanted, keyring, writes>>

----------------------------------------------------------------------------
(* The keyring *)

\* The keyring with one more version, the active one, is deployed.
add_key_version ==
  LET v == keyring.active + 1 IN
  /\ ~rotating /\ v <= MaxVersions
  /\ keyring' = [active |-> v, keys |-> keyring.keys \cup {v}]
  /\ UNCHANGED <<secret, wanted, batch, rotating, writes>>

count_key_versions_global == {secret[n].version : n \in {k \in SecretNames : secret[k] # NoSecret}}

\* Every version that a row refers to is in the keyring.
require_versions(keys) == count_key_versions_global \subseteq keys

\* A keyring without an old version is ready (_keyring_ok) once none refers to it.
retire_key_version(v) ==
  /\ ~rotating /\ v \in keyring.keys \ {keyring.active}
  /\ require_versions(keyring.keys \ {v})
  /\ keyring' = [keyring EXCEPT !.keys = @ \ {v}]
  /\ UNCHANGED <<secret, wanted, batch, rotating, writes>>

----------------------------------------------------------------------------
SecretsInit ==
  /\ secret = [n \in SecretNames |-> NoSecret] /\ wanted = [n \in SecretNames |-> Absent]
  /\ keyring = [active |-> 1, keys |-> {1}]
  /\ batch = [n \in SecretNames |-> NoSecret] /\ rotating = FALSE /\ writes = 0

SecretsNext ==
  \/ \E n \in SecretNames : delete_secret(n) \/ \E v \in SecretValues : put_secret(n, v)
  \/ rotate_read \/ rotate_commit \/ rotate_crash
  \/ add_key_version \/ \E v \in keyring.keys : retire_key_version(v)

SecretsSpec == SecretsInit /\ [][SecretsNext]_secretVars

----------------------------------------------------------------------------
(* Properties *)

SecretsTypeOK ==
  /\ keyring.active \in keyring.keys /\ keyring.keys \subseteq 1..(MaxVersions + 1)
  /\ \A n \in SecretNames : secret[n].nonce \in 0..writes /\ secret[n].created \in 0..writes

\* Under the keyring in use every name resolves to the value its tenant put
\* last, and to none after a deletion, though a rotation that read the row
\* before writes it after (put_encrypted, compare_and_swap_rotation), and key
\* versions come and go.
SecretsReadable ==
  \A n \in SecretNames :
    IF wanted[n] = Absent THEN secret[n] = NoSecret
    ELSE resolve_secret(n, FALSE) = "user" /\ decrypt(secret[n], keyring.keys) = wanted[n]

=============================================================================

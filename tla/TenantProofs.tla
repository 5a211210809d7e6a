---------------------------- MODULE TenantProofs ----------------------------
(***************************************************************************)
(* The proofs about a tenant: its account with the secrets and the codes   *)
(* that open its sessions, and its work in the background: teams, their    *)
(* workspaces, and the requests of a session.                              *)
(***************************************************************************)
EXTENDS Account, Secrets, VerificationCodes, Collaboration, Workspaces, BackgroundRuns, TLAPS

-----------------------------------------------------------------------------
(***************************************************************************)
(* For any deletion workers and bounds: logins end with the account's      *)
(* next deletion request, recovery or purge, and the files of an account   *)
(* that is active or recoverable are there.  Both rest on ids: whatever    *)
(* still refers to an earlier account of the address refers to a smaller   *)
(* id, and a worker past its claim refers to an account that can no longer *)
(* be recovered.                                                           *)
(***************************************************************************)

UserRow == [status : {"none", "active", "pending_purge"}, id : Nat, epoch : Nat]
JobRow == [status : {"none", "scheduled", "running"}, id : Nat, due : BOOLEAN,
           owner : Workers \cup {"none"}, token : Nat, version : Nat, live : BOOLEAN]
Token == [id : Nat, epoch : Nat, cycle : Nat]
Worker == [at : {"idle", "revoke", "check", "heartbeat", "remove", "heartbeat2", "purge", "ended"},
           id : Nat, token : Nat, version : Nat]

AccountTypes ==
  /\ user \in UserRow /\ delJob \in JobRow /\ cycle \in Nat
  /\ sessions \subseteq Token /\ purger \in [Workers -> Worker]

\* Ids grow: an account's id is new when it is created.
IdsGrow ==
  /\ user.status # "none" => user.id \in 1..(cycle + 1)
  /\ \A t \in sessions : t.id <= cycle + 1 /\ (user.status = "none" => t.id <= cycle)
  /\ \A w \in Workers : purger[w].id <= cycle + 1 /\ (user.status = "none" => purger[w].id <= cycle)

\* A token of the account is of its current epoch and cycle, or of an earlier epoch.
TokensAge ==
  \A t \in sessions : user.status # "none" /\ t.id = user.id =>
    t.epoch <= user.epoch /\ (t.epoch = user.epoch => t.cycle = cycle)

\* A worker that has claimed the account's job keeps recovery closed.
ClaimedIsClosed ==
  /\ delJob.status # "none" => user.status = "pending_purge"
  /\ \A w \in Workers : purger[w].at # "idle" /\ user.status # "none" /\ purger[w].id = user.id =>
       user.status = "pending_purge" /\ delJob.status = "running"

AccountInv == AccountTypes /\ IdsGrow /\ TokensAge /\ ClaimedIsClosed /\ RecoverableKeepsFiles

USE DEF UserRow, JobRow, Token, Worker, NoUser, NoDelJob, IdleWorker

\* A change of status starts a new epoch (mark_pending_purge, restore_active).
LEMMA NewEpoch ==
  ASSUME NEW u \in UserRow, NEW s \in {"active", "pending_purge"}
  PROVE  [u EXCEPT !.status = s, !.epoch = @ + 1] \in UserRow
<1>1. s \in {"none", "active", "pending_purge"} /\ u.epoch + 1 \in Nat
  OBVIOUS
<1> DEFINE e == u.epoch + 1
<1>2. e \in Nat
  BY <1>1
<1> HIDE DEF e
<1>3. [u EXCEPT !.status = s, !.epoch = e] \in UserRow
  BY <1>1, <1>2
<1> QED
  BY <1>3 DEF e

\* The jobs that a request and a recovery leave.
LEMMA NewJobs ==
  ASSUME NEW k \in Nat
  PROVE  NoDelJob \in JobRow /\ [NoDelJob EXCEPT !.status = "scheduled", !.id = k] \in JobRow
  OBVIOUS

\* Tokens and versions are numbers.
LEMMA BumpIsNat == \A n \in Nat : Bump(n) \in Nat
  BY DEF Bump

\* The job that a claim leaves.
LEMMA ClaimedJob ==
  ASSUME NEW j \in JobRow, NEW w \in Workers
  PROVE  [j EXCEPT !.status = "running", !.owner = w, !.live = TRUE,
                   !.token = Bump(@), !.version = Bump(@)] \in JobRow
<1>1. Bump(j.token) \in Nat /\ Bump(j.version) \in Nat
  BY BumpIsNat
<1>2. \A k, v \in Nat : [j EXCEPT !.status = "running", !.owner = w, !.live = TRUE,
                                  !.token = k, !.version = v] \in JobRow
  OBVIOUS
<1> QED
  BY <1>1, <1>2

\* What a heartbeat leaves: another version, here and in the row, and the worker's next step.
LEMMA HeartbeatKeeps ==
  ASSUME AccountInv, NEW w \in Workers, NEW at \in {"heartbeat", "heartbeat2"},
         NEW next \in {"remove", "purge"}, purge_heartbeat(w, at, next)
  PROVE  AccountInv'
<1> USE DEF AccountInv, AccountTypes, IdsGrow, TokensAge, ClaimedIsClosed, RecoverableKeepsFiles, RecoveryOpen
<1>1. UNCHANGED <<user, sessions, files, cycle>>
  BY DEF purge_heartbeat
<1>2. CASE Owns(w)
  <2> DEFINE v == Bump(delJob.version)
             u == Bump(purger[w].version)
  <2>1. v \in Nat /\ u \in Nat
    BY BumpIsNat
  <2>2. /\ delJob' = [delJob EXCEPT !.live = TRUE, !.version = v]
        /\ purger' = [purger EXCEPT ![w] = [purger[w] EXCEPT !.at = next, !.version = u]]
        /\ purger[w].at = at
    BY <1>2 DEF purge_heartbeat, heartbeat
  <2> HIDE DEF u, v
  <2>3. delJob' \in JobRow /\ delJob'.status = delJob.status /\ delJob'.due = delJob.due
    BY <2>1, <2>2
  <2>4. /\ purger' \in [Workers -> Worker]
        /\ \A x \in Workers : purger'[x].id = purger[x].id /\ (purger'[x].at # "idle" => purger[x].at # "idle")
    BY <2>1, <2>2
  <2> QED
    BY <1>1, <2>3, <2>4
<1>3. CASE ~Owns(w)
  BY <1>1, <1>3 DEF purge_heartbeat
<1> QED
  BY <1>2, <1>3

\* No account, no job and no worker at first.
LEMMA AccountInitially == AccountInit => AccountInv
  BY DEF AccountInit, AccountInv, AccountTypes, IdsGrow, TokensAge, ClaimedIsClosed,
         RecoverableKeepsFiles, RecoveryOpen

\* Every request, worker step and fault keeps the invariant.
LEMMA AccountStep == AccountInv /\ [AccountNext]_accountVars => AccountInv'
<1> SUFFICES ASSUME AccountInv, [AccountNext]_accountVars PROVE AccountInv'
  OBVIOUS
<1> USE DEF AccountInv, AccountTypes, IdsGrow, TokensAge, ClaimedIsClosed, RecoverableKeepsFiles, RecoveryOpen
<1>1. CASE verify
  <2>1. PICK t \in Token : /\ t = [id |-> user'.id, epoch |-> user'.epoch, cycle |-> cycle]
                            /\ sessions' = sessions \cup {t}
    <3>1. user' \in UserRow
      BY <1>1 DEF verify, create_user_with_default_workspace
    <3> QED
      BY <1>1, <3>1 DEF verify
  <2>2. CASE user.status = "none"
    <3>1. user' = [status |-> "active", id |-> cycle + 1, epoch |-> 0] /\ files'
      BY <1>1, <2>2 DEF verify, create_user_with_default_workspace
    <3>2. UNCHANGED <<delJob, purger, cycle>>
      BY <1>1 DEF verify
    <3>3. AccountTypes'
      BY <2>1, <3>1, <3>2
    <3>4. (IdsGrow /\ TokensAge)'
      BY <2>1, <2>2, <3>1, <3>2
    <3>5. (ClaimedIsClosed /\ RecoverableKeepsFiles)'
      BY <2>2, <3>1, <3>2
    <3> QED
      BY <3>3, <3>4, <3>5
  <2>3. CASE user.status # "none"
    <3>1. UNCHANGED <<user, delJob, purger, cycle, files>>
      BY <1>1, <2>3 DEF verify
    <3> QED
      BY <2>1, <2>3, <3>1
  <2> QED
    BY <2>2, <2>3
<1>2. ASSUME NEW t \in sessions, admit_chat(t) PROVE AccountInv'
  BY <1>2 DEF admit_chat, AccountUnchanged
<1>3. ASSUME NEW t \in sessions, answer_approval(t) PROVE AccountInv'
  BY <1>3 DEF answer_approval, AccountUnchanged
<1>4. ASSUME NEW t \in sessions, request_account_deletion(t) PROVE AccountInv'
  <2>1. /\ user' = [user EXCEPT !.status = "pending_purge", !.epoch = @ + 1] /\ user.status # "none"
        /\ delJob' = [NoDelJob EXCEPT !.status = "scheduled", !.id = cycle + 1] /\ cycle' = cycle + 1
        /\ UNCHANGED <<sessions, files, purger>>
    BY <1>4 DEF request_account_deletion, create_scheduled, mark_pending_purge, Admits
  <2>2. user.status = "active" \/ RecoveryOpen
    BY <1>4 DEF request_account_deletion, create_scheduled, mark_pending_purge, Admits
  <2>3. AccountTypes'
    <3>1. user' \in UserRow
      BY <2>1, NewEpoch
    <3>2. delJob' \in JobRow
      <4>1. cycle + 1 \in Nat
        OBVIOUS
      <4> QED
        BY <2>1, <4>1, NewJobs
    <3> QED
      BY <2>1, <3>1, <3>2
  <2>4. (IdsGrow /\ TokensAge)'
    BY <2>1
  <2>5. (ClaimedIsClosed /\ RecoverableKeepsFiles)'
    BY <2>1, <2>2
  <2> QED
    BY <2>3, <2>4, <2>5
<1>5. CASE setup_chat \/ start_chat \/ execute_tool \/ run_lease_expires \/ recover_run
  BY <1>5 DEF setup_chat, start_chat, execute_tool, run_lease_expires, recover_run, AccountUnchanged
<1>6. CASE await_user
  BY <1>6 DEF await_user, AccountUnchanged
<1>7. ASSUME NEW saved \in BOOLEAN, end_chat(saved) PROVE AccountInv'
  BY <1>7 DEF end_chat, AccountUnchanged
<1>8. ASSUME NEW saved \in BOOLEAN, revoke_account(saved) PROVE AccountInv'
  BY <1>8 DEF revoke_account
<1>9. CASE verify_deletion_recovery_code
  BY <1>9 DEF verify_deletion_recovery_code
<1>10. ASSUME NEW r \in recovery, recover(r) PROVE AccountInv'
  <2>1. /\ user' = [user EXCEPT !.status = "active", !.epoch = @ + 1] /\ user.status # "none"
        /\ delJob' = NoDelJob /\ cycle' = cycle + 1
        /\ UNCHANGED <<sessions, files, purger>>
    BY <1>10 DEF recover, delete_scheduled, restore_active
  <2>2. user.status = "active" \/ RecoveryOpen
    BY <1>10 DEF recover, delete_scheduled, restore_active
  <2>3. AccountTypes'
    <3>1. user' \in UserRow
      BY <2>1, NewEpoch
    <3>2. delJob' \in JobRow
      BY <2>1, NewJobs
    <3> QED
      BY <2>1, <3>1, <3>2
  <2>4. (IdsGrow /\ TokensAge)'
    BY <2>1
  <2>5. (ClaimedIsClosed /\ RecoverableKeepsFiles)'
    BY <2>1, <2>2
  <2> QED
    BY <2>3, <2>4, <2>5
<1>11. CASE purge_after
  BY <1>11 DEF purge_after
<1>12. CASE lease_expires
  BY <1>12 DEF lease_expires
<1>13. ASSUME NEW w \in Workers, claim_due(w) PROVE AccountInv'
  <2>1. user.status = "pending_purge"
    BY <1>13 DEF claim_due, Claimable
  <2>2. AccountTypes'
    <3>1. delJob' \in JobRow /\ delJob'.token \in Nat /\ delJob'.version \in Nat
      BY <1>13, ClaimedJob DEF claim_due
    <3>2. purger' \in [Workers -> Worker]
      BY <1>13, <3>1 DEF claim_due
    <3> QED
      BY <1>13, <3>1, <3>2 DEF claim_due
  <2>3. (IdsGrow /\ TokensAge)'
    BY <1>13, <2>1 DEF claim_due
  <2>4. (ClaimedIsClosed /\ RecoverableKeepsFiles)'
    BY <1>13, <2>1 DEF claim_due
  <2> QED
    BY <2>2, <2>3, <2>4
<1>14. ASSUME NEW w \in Workers, NEW saved \in BOOLEAN, purge_revoke(w, saved) PROVE AccountInv'
  BY <1>14 DEF purge_revoke
<1>15. ASSUME NEW w \in Workers, purge_check(w) PROVE AccountInv'
  BY <1>15, BumpIsNat DEF purge_check, mark_retryable_error
<1>16. ASSUME NEW w \in Workers, purge_heartbeat(w, "heartbeat", "remove") PROVE AccountInv'
  BY <1>16, HeartbeatKeeps
<1>17. ASSUME NEW w \in Workers, purge_remove(w) PROVE AccountInv'
  BY <1>17 DEF purge_remove, OfAccount
<1>18. ASSUME NEW w \in Workers, purge_heartbeat(w, "heartbeat2", "purge") PROVE AccountInv'
  BY <1>18, HeartbeatKeeps
<1>19. ASSUME NEW w \in Workers, purge_account(w) PROVE AccountInv'
  BY <1>19 DEF purge_account, OfAccount
<1>20. ASSUME NEW w \in Workers, purge_remove_fails(w) PROVE AccountInv'
  BY <1>20, BumpIsNat DEF purge_remove_fails, mark_retryable_error
<1>21. ASSUME NEW w \in Workers, loop_ends(w) \/ restart_worker(w) PROVE AccountInv'
  BY <1>21 DEF loop_ends, restart_worker
<1>22. CASE restart_server
  BY <1>22 DEF restart_server
<1>23. CASE UNCHANGED accountVars
  BY <1>23 DEF accountVars
<1> QED
  BY <1>1, <1>2, <1>3, <1>4, <1>5, <1>6, <1>7, <1>8, <1>9, <1>10, <1>11, <1>12, <1>13, <1>14, <1>15, <1>16, <1>17, <1>18, <1>19, <1>20, <1>21, <1>22, <1>23 DEF AccountNext, WorkerStep

\* Every login made before a deletion request, a recovery or a purge has ended
\* (AuthMiddleware, mark_pending_purge, restore_active).
THEOREM SessionsEndAlways == AccountSpec => []SessionsEnd
<1>1. AccountInv => SessionsEnd
  BY DEF AccountInv, AccountTypes, TokensAge, SessionsEnd, Authenticates
<1> QED
  BY AccountInitially, AccountStep, <1>1, PTL DEF AccountSpec

\* An account that is active or may still be recovered has its files, however
\* slow, dead or duplicated the deletion workers are (_purge_job, recover).
THEOREM FilesKept == AccountSpec => []RecoverableKeepsFiles
<1>1. AccountInv => RecoverableKeepsFiles
  BY DEF AccountInv
<1> QED
  BY AccountInitially, AccountStep, <1>1, PTL DEF AccountSpec

HIDE DEF UserRow, JobRow, Token, Worker, NoUser, NoDelJob, IdleWorker

-----------------------------------------------------------------------------
(***************************************************************************)
(* Every stored secret can be read, and is the one that was put last, for  *)
(* any names, values, batch size and bounds.  The inductive invariant ties *)
(* each row's ciphertext to the row's own id and key version, and what a   *)
(* rotation has read to keys that are still there.                         *)
(***************************************************************************)

Box == [value : SecretValues \cup {Absent}, aad : Nat \X Nat]
SecretRow == [id : Nat, version : Nat, nonce : Nat, created : Nat, box : Box]

SecretTypes ==
  /\ secret \in [SecretNames -> SecretRow] /\ batch \in [SecretNames -> SecretRow]
  /\ wanted \in [SecretNames -> SecretValues \cup {Absent}]
  /\ keyring \in [active : Nat, keys : SUBSET Nat] /\ keyring.active \in keyring.keys
  /\ writes \in Nat

\* An envelope that the keyring in use opens, of the row it is stored in.
Opens(row) ==
  /\ row.id > 0 /\ row.version \in keyring.keys
  /\ row.box.aad = <<row.id, row.version>> /\ row.box.value # Absent

\* A name that was put has its value, one that was not has no row.
RowsCorrect ==
  \A n \in SecretNames :
    IF wanted[n] = Absent THEN secret[n] = NoSecret
    ELSE Opens(secret[n]) /\ secret[n].box.value = wanted[n]

\* A rotation has read rows that open, and no key goes while it runs.
BatchCorrect ==
  /\ \A n \in SecretNames : batch[n] # NoSecret => Opens(batch[n])
  /\ ~rotating => \A n \in SecretNames : batch[n] = NoSecret

SecretsInv == SecretTypes /\ RowsCorrect /\ BatchCorrect

USE DEF build_envelope_aad, Absent

\* NoSecret is a row of no id.
LEMMA NoSecretRow == NoSecret \in SecretRow /\ NoSecret.id = 0 /\ ~Opens(NoSecret)
  BY DEF NoSecret, NoBox, SecretRow, Box, Opens

\* Nothing is stored at first.
LEMMA SecretsInitially == SecretsInit => SecretsInv
  BY NoSecretRow DEF SecretsInit, SecretsInv, SecretTypes, RowsCorrect, BatchCorrect

\* put_secret writes an envelope under the active key and the row's new id.
LEMMA PutKeeps ==
  ASSUME SecretsInv, NEW n \in SecretNames, NEW v \in SecretValues, put_secret(n, v)
  PROVE  SecretsInv'
<1> DEFINE id == writes + 1
           row == put_encrypted(secret[n], id, encrypt(v, id, keyring.active))
<1>1. secret' = [secret EXCEPT ![n] = row] /\ wanted' = [wanted EXCEPT ![n] = v] /\ writes' = id
  BY DEF put_secret
<1>2. /\ row \in SecretRow /\ row.box.value = v /\ Opens(row)
  BY SecretBounds DEF SecretBounds, put_encrypted, encrypt, SecretRow, Box, Opens, SecretsInv, SecretTypes
<1>3. UNCHANGED <<keyring, batch, rotating>>
  BY DEF put_secret
<1> HIDE DEF row
<1>4. SecretTypes'
  BY <1>1, <1>2, <1>3 DEF SecretsInv, SecretTypes
<1>5. RowsCorrect'
  BY <1>1, <1>2, <1>3, SecretBounds DEF SecretBounds, SecretsInv, SecretTypes, RowsCorrect, Opens
<1>6. BatchCorrect'
  BY <1>3 DEF SecretsInv, BatchCorrect, Opens
<1> QED
  BY <1>4, <1>5, <1>6 DEF SecretsInv

\* A row of a rotation that commits is the one that was read, under the active
\* key, or is left as it is.
LEMMA RotatedKeeps ==
  ASSUME SecretsInv, NEW n \in SecretNames
  PROVE  /\ Rotated(n) \in SecretRow
         /\ IF wanted[n] = Absent THEN Rotated(n) = NoSecret
            ELSE Opens(Rotated(n)) /\ Rotated(n).box.value = wanted[n]
<1>1. CASE /\ batch[n] # NoSecret /\ decrypt(batch[n], keyring.keys) # Absent
           /\ compare_and_swap_rotation(n)
  <2>1. Opens(batch[n]) /\ decrypt(batch[n], keyring.keys) = batch[n].box.value
    BY <1>1 DEF SecretsInv, BatchCorrect, decrypt
  <2>2. secret[n].id = batch[n].id /\ secret[n].box = batch[n].box
    BY <1>1 DEF compare_and_swap_rotation
  <2>3. secret[n] # NoSecret /\ wanted[n] # Absent /\ secret[n].box.value = wanted[n]
    BY <2>1, <2>2, NoSecretRow DEF SecretsInv, RowsCorrect, Opens
  <2>4. Rotated(n) = [secret[n] EXCEPT !.version = keyring.active, !.nonce = writes + 1,
                        !.box = [value |-> batch[n].box.value, aad |-> <<batch[n].id, keyring.active>>]]
    <3>1. Rotated(n) = [secret[n] EXCEPT !.version = keyring.active, !.nonce = writes + 1,
            !.box = encrypt(decrypt(batch[n], keyring.keys), batch[n].id, keyring.active)]
      BY <1>1, Zenon DEF Rotated
    <3>2. encrypt(decrypt(batch[n], keyring.keys), batch[n].id, keyring.active)
            = [value |-> batch[n].box.value, aad |-> <<batch[n].id, keyring.active>>]
      BY <2>1 DEF encrypt
    <3> QED
      BY <3>1, <3>2, Zenon
  <2>5. Rotated(n) \in SecretRow
    <3>1. secret[n] \in SecretRow /\ batch[n] \in SecretRow /\ keyring.active \in Nat /\ writes \in Nat
      BY DEF SecretsInv, SecretTypes
    <3> DEFINE b == [value |-> batch[n].box.value, aad |-> <<batch[n].id, keyring.active>>]
    <3>2. b \in Box
      BY <3>1 DEF SecretRow, Box
    <3>3. \A row \in SecretRow, k, m \in Nat, x \in Box :
            [row EXCEPT !.version = k, !.nonce = m, !.box = x] \in SecretRow
      BY DEF SecretRow
    <3>4. writes + 1 \in Nat
      BY <3>1
    <3>5. Rotated(n) = [secret[n] EXCEPT !.version = keyring.active, !.nonce = writes + 1, !.box = b]
      BY <2>4, Zenon
    <3> HIDE DEF b
    <3> DEFINE m == writes + 1
    <3>6. m \in Nat
      BY <3>4
    <3>7. Rotated(n) = [secret[n] EXCEPT !.version = keyring.active, !.nonce = m, !.box = b]
      BY <3>5
    <3> HIDE DEF m
    <3>8. [secret[n] EXCEPT !.version = keyring.active, !.nonce = m, !.box = b] \in SecretRow
      BY <3>1, <3>2, <3>3, <3>6
    <3> QED
      BY <3>7, <3>8, Zenon
  <2>6. Opens(Rotated(n)) /\ Rotated(n).box.value = wanted[n]
    BY <2>1, <2>2, <2>3, <2>4 DEF SecretsInv, SecretTypes, SecretRow, Box, Opens
  <2> QED
    BY <2>3, <2>5, <2>6
<1>2. CASE ~(/\ batch[n] # NoSecret /\ decrypt(batch[n], keyring.keys) # Absent
             /\ compare_and_swap_rotation(n))
  BY <1>2 DEF Rotated, SecretsInv, SecretTypes, RowsCorrect
<1> QED
  BY <1>1, <1>2

\* Every request, rotation step and change of the keyring keeps the rows readable.
LEMMA SecretsStep == SecretsInv /\ [SecretsNext]_secretVars => SecretsInv'
<1> SUFFICES ASSUME SecretsInv, [SecretsNext]_secretVars PROVE SecretsInv'
  OBVIOUS
<1> USE DEF SecretsInv
<1>1. ASSUME NEW n \in SecretNames, NEW v \in SecretValues, put_secret(n, v) PROVE SecretsInv'
  BY <1>1, PutKeeps
<1>2. ASSUME NEW n \in SecretNames, delete_secret(n) PROVE SecretsInv'
  BY <1>2, NoSecretRow DEF delete_secret, SecretTypes, RowsCorrect, BatchCorrect, Opens
<1>3. CASE rotate_read
  <2>1. \A n \in SecretNames : batch'[n] \in {secret[n], NoSecret}
    BY <1>3 DEF rotate_read
  <2>2. UNCHANGED <<secret, wanted, keyring, writes>> /\ rotating' = TRUE /\ DOMAIN batch' = SecretNames
    BY <1>3 DEF rotate_read
  <2>3. \A n \in SecretNames : secret[n] # NoSecret => Opens(secret[n])
    BY DEF RowsCorrect
  <2>4. batch' \in [SecretNames -> SecretRow]
    BY <1>3, NoSecretRow DEF rotate_read, SecretTypes
  <2>5. SecretTypes'
    BY <2>2, <2>4 DEF SecretTypes
  <2> QED
    BY <2>1, <2>2, <2>3, <2>5 DEF RowsCorrect, BatchCorrect, Opens
<1>4. CASE rotate_commit
  <2>1. /\ secret' = [n \in SecretNames |-> Rotated(n)] /\ writes' = writes + 1
        /\ batch' = [n \in SecretNames |-> NoSecret] /\ UNCHANGED <<wanted, keyring>>
    BY <1>4 DEF rotate_commit
  <2>2. SecretTypes'
    BY <2>1, RotatedKeeps, NoSecretRow DEF SecretTypes
  <2>3. RowsCorrect'
    BY <2>1, RotatedKeeps DEF RowsCorrect, Opens
  <2> QED
    BY <2>1, <2>2, <2>3 DEF BatchCorrect
<1>5. CASE rotate_crash
  BY <1>5, NoSecretRow DEF rotate_crash, SecretTypes, RowsCorrect, BatchCorrect, Opens
<1>6. CASE add_key_version
  BY <1>6 DEF add_key_version, SecretTypes, RowsCorrect, BatchCorrect, Opens
<1>7. ASSUME NEW v \in keyring.keys, retire_key_version(v) PROVE SecretsInv'
  <2>1. \A n \in SecretNames : secret[n] # NoSecret => secret[n].version \in keyring.keys \ {v}
    BY <1>7 DEF retire_key_version, require_versions, count_key_versions_global
  <2>2. \A n \in SecretNames : wanted[n] # Absent => secret[n] # NoSecret
    BY NoSecretRow DEF RowsCorrect
  <2> QED
    BY <1>7, <2>1, <2>2 DEF retire_key_version, SecretTypes, RowsCorrect, BatchCorrect, Opens
<1>8. CASE UNCHANGED secretVars
  BY <1>8 DEF secretVars, SecretTypes, RowsCorrect, BatchCorrect, Opens
<1> QED
  BY <1>1, <1>2, <1>3, <1>4, <1>5, <1>6, <1>7, <1>8 DEF SecretsNext

\* Under the keyring in use every name resolves to the value its tenant put
\* last, through any interleaving of requests, rotations (compare_and_swap_rotation)
\* and key versions that come and go.
THEOREM SecretsStayReadable == SecretsSpec => []SecretsReadable
<1>1. SecretsInv => SecretsReadable
  BY NoSecretRow DEF SecretsInv, RowsCorrect, SecretsReadable, resolve_secret, decrypt, Opens
<1> QED
  BY SecretsInitially, SecretsStep, <1>1, PTL DEF SecretsSpec

HIDE DEF build_envelope_aad, Absent

-----------------------------------------------------------------------------
(***************************************************************************)
(* A verification code opens at most one session, for any limits.  Codes   *)
(* are independent of each other, so the invariant is about one row: as    *)
(* long as it is not used it has opened nothing and has guesses left.      *)
(***************************************************************************)

CodeRow == [stored : BOOLEAN, used : BOOLEAN, failures : 0..MaxFailures, expired : BOOLEAN,
            sending : BOOLEAN, accepted : 0..1]

\* A row that is not used has opened nothing and has guesses left; one that
\* opened a session was not guessed wrong too often.
SoundCode(c) ==
  /\ ~c.used => c.accepted = 0
  /\ ~c.used \/ c.accepted = 1 => c.failures < MaxFailures

SoundRow == {c \in CodeRow : SoundCode(c)}

CodesInv == codes \in [Purposes -> Seq(SoundRow)] /\ pending \in BOOLEAN

\* What a mail, an expiry or a deletion makes of a row.
LEMMA RowChanges ==
  ASSUME NEW c \in SoundRow
  PROVE  /\ [c EXCEPT !.sending = FALSE] \in SoundRow
         /\ [c EXCEPT !.expired = TRUE] \in SoundRow
         /\ \A b \in BOOLEAN : [c EXCEPT !.stored = b] \in SoundRow
<1>1. [c EXCEPT !.sending = FALSE] \in SoundRow
  BY DEF SoundRow, CodeRow, SoundCode
<1>2. [c EXCEPT !.expired = TRUE] \in SoundRow
  BY DEF SoundRow, CodeRow, SoundCode
<1>3. ASSUME NEW b \in BOOLEAN PROVE [c EXCEPT !.stored = b] \in SoundRow
  BY DEF SoundRow, CodeRow, SoundCode
<1> QED
  BY <1>1, <1>2, <1>3

\* What a guess makes of a row that is open.
LEMMA GuessedRow ==
  ASSUME NEW c \in SoundRow, ~c.used, NEW opens \in BOOLEAN
  PROVE  /\ Missed(c) \in SoundRow
         /\ Matched(c, opens) \in SoundRow
<1>0. c \in CodeRow /\ c.accepted = 0 /\ c.failures < MaxFailures /\ c.failures \in Nat
  BY CodeBounds DEF CodeBounds, SoundRow, CodeRow, SoundCode
<1>1. Missed(c) \in SoundRow
  <2> DEFINE u == (c.failures + 1 >= MaxFailures)
             f == c.failures + 1
  <2>1. Missed(c) = [c EXCEPT !.failures = f, !.used = u]
    BY DEF Missed
  <2>2. u \in BOOLEAN /\ f \in 0..MaxFailures /\ (~u => f < MaxFailures)
    BY <1>0, CodeBounds DEF CodeBounds
  <2> HIDE DEF u, f
  <2>3. Missed(c) \in CodeRow
    BY <1>0, <2>1, <2>2 DEF CodeRow
  <2>4. Missed(c).used = u /\ Missed(c).failures = f /\ Missed(c).accepted = 0
    BY <1>0, <2>1 DEF CodeRow
  <2> QED
    BY <2>2, <2>3, <2>4 DEF SoundRow, SoundCode
<1>2. Matched(c, opens) \in SoundRow
  <2> DEFINE a == IF opens THEN c.accepted + 1 ELSE c.accepted
  <2>1. a \in 0..1
    BY <1>0
  <2> HIDE DEF a
  <2>2. [c EXCEPT !.used = TRUE, !.accepted = a] \in SoundRow
    BY <1>0, <2>1 DEF SoundRow, CodeRow, SoundCode
  <2> QED
    BY <2>2 DEF a, Matched
<1> QED
  BY <1>1, <1>2

\* A row of the sequence is replaced by another; outside its domain nothing is.
LEMMA RowReplaced ==
  ASSUME NEW s \in Seq(SoundRow), NEW i, NEW c, i \in DOMAIN s => c \in SoundRow
  PROVE  [s EXCEPT ![i] = c] \in Seq(SoundRow)
<1>1. CASE i \in DOMAIN s
  BY <1>1, SMT
<1>2. CASE i \notin DOMAIN s
  <2>1. [s EXCEPT ![i] = c] = s
    BY <1>2
  <2> QED
    BY <2>1
<1> QED
  BY <1>1, <1>2

\* A change of one row of one purpose.
LEMMA PurposeChanged ==
  ASSUME CodesInv, NEW p \in Purposes, NEW s \in Seq(SoundRow), codes' = [codes EXCEPT ![p] = s], UNCHANGED pending
  PROVE  CodesInv'
  BY DEF CodesInv

\* Sending, guessing, expiry and cleanup keep every row sound.
LEMMA CodesStep == CodesInv /\ [CodesNext]_codeVars => CodesInv'
<1> SUFFICES ASSUME CodesInv, [CodesNext]_codeVars PROVE CodesInv'
  OBVIOUS
<1>0. \A p \in Purposes : /\ codes[p] \in Seq(SoundRow)
                          /\ \A i \in DOMAIN codes[p] : codes[p][i] \in SoundRow
  BY DEF CodesInv
<1>1. ASSUME NEW p \in Purposes, issue_code(p) PROVE CodesInv'
  <2>1. Append(codes[p], NewCode) \in Seq(SoundRow)
    BY <1>0, CodeBounds DEF NewCode, SoundRow, CodeRow, SoundCode, CodeBounds
  <2> QED
    BY <1>1, <2>1, PurposeChanged DEF issue_code
<1>2. ASSUME NEW p \in Purposes, NEW i \in DOMAIN codes[p], send_verification_code(p, i) PROVE CodesInv'
  <2>1. [codes[p][i] EXCEPT !.sending = FALSE] \in SoundRow
    BY <1>0, RowChanges
  <2> DEFINE s == [codes[p] EXCEPT ![i] = [codes[p][i] EXCEPT !.sending = FALSE]]
  <2>2. s \in Seq(SoundRow)
    BY <1>0, <2>1, RowReplaced
  <2>3. codes' = [codes EXCEPT ![p] = s] /\ UNCHANGED pending
    BY <1>2 DEF send_verification_code
  <2> QED
    BY <2>2, <2>3, PurposeChanged
<1>3. ASSUME NEW p \in Purposes, NEW i \in DOMAIN codes[p], expires_at(p, i) PROVE CodesInv'
  <2>1. [codes[p][i] EXCEPT !.expired = TRUE] \in SoundRow
    BY <1>0, RowChanges
  <2> DEFINE s == [codes[p] EXCEPT ![i] = [codes[p][i] EXCEPT !.expired = TRUE]]
  <2>2. s \in Seq(SoundRow)
    BY <1>0, <2>1, RowReplaced
  <2>3. codes' = [codes EXCEPT ![p] = s] /\ UNCHANGED pending
    BY <1>3 DEF expires_at
  <2> QED
    BY <2>2, <2>3, PurposeChanged
<1>4. ASSUME NEW p \in Purposes, NEW i \in DOMAIN codes[p], NEW deleted \in BOOLEAN,
             delete_code_by_id(p, i, deleted)
      PROVE  CodesInv'
  <2> DEFINE c == [codes[p][i] EXCEPT !.sending = FALSE]
             b == codes[p][i].stored /\ (codes[p][i].used \/ ~deleted)
             s == [codes[p] EXCEPT ![i] = [c EXCEPT !.stored = b]]
  <2>1. c \in SoundRow /\ b \in BOOLEAN
    BY <1>0, RowChanges
  <2>2. [c EXCEPT !.stored = b] \in SoundRow
    BY <2>1, RowChanges
  <2>3. s \in Seq(SoundRow)
    BY <1>0, <2>2, RowReplaced
  <2>4. codes' = [codes EXCEPT ![p] = s] /\ UNCHANGED pending
    BY <1>0, <1>4 DEF delete_code_by_id, SoundRow, CodeRow
  <2> QED
    BY <2>3, <2>4, PurposeChanged
<1>5. ASSUME NEW p \in Purposes, NEW guess, NEW opens \in BOOLEAN, consume_latest_code(p, guess, opens)
      PROVE  CodesInv'
  <2> DEFINE i == latest(p)
             old == codes[p][i]
             new == IF guess # i THEN Missed(old) ELSE Matched(old, opens)
  <2>1. ~old.used
    BY <1>5 DEF consume_latest_code, Open
  <2>2. i \in DOMAIN codes[p] => new \in SoundRow
    BY <1>0, <2>1, GuessedRow
  <2>3. codes' = [codes EXCEPT ![p] = [codes[p] EXCEPT ![i] = new]] /\ UNCHANGED pending
    BY <1>5 DEF consume_latest_code
  <2> HIDE DEF i, new
  <2>4. [codes[p] EXCEPT ![i] = new] \in Seq(SoundRow)
    BY <1>0, <2>2, RowReplaced
  <2> QED
    BY <2>3, <2>4, PurposeChanged
<1>6. CASE delete_expired_codes
  <2>1. ASSUME NEW p \in Purposes
        PROVE  [i \in DOMAIN codes[p] |-> [codes[p][i] EXCEPT !.stored = @ /\ ~codes[p][i].expired]] \in Seq(SoundRow)
    <3>1. \A i \in DOMAIN codes[p] :
            [codes[p][i] EXCEPT !.stored = @ /\ ~codes[p][i].expired] \in SoundRow
      <4> TAKE i \in DOMAIN codes[p]
      <4>1. (codes[p][i].stored /\ ~codes[p][i].expired) \in BOOLEAN
        OBVIOUS
      <4> QED
        BY <1>0, <4>1, RowChanges
    <3>2. DOMAIN codes[p] = 1..Len(codes[p]) /\ Len(codes[p]) \in Nat
      BY <1>0
    <3> QED
      BY <3>1, <3>2
  <2> QED
    BY <1>6, <2>1 DEF delete_expired_codes, CodesInv
<1>7. CASE PendingPurge
  BY <1>7, Zenon DEF PendingPurge, CodesInv
<1>8. CASE UNCHANGED codeVars
  BY <1>8 DEF codeVars, CodesInv
<1>9. pending \in BOOLEAN
  BY DEF CodesInv
<1> QED
  BY <1>1, <1>2, <1>3, <1>4, <1>5, <1>6, <1>7, <1>8, <1>9
  DEF CodesNext, Purposes, send_code, send_deletion_recovery_code, verify_login_code, verify_recovery_code

\* A code opens at most one session, and none once it was guessed wrong as
\* often as is allowed (consume_latest_code), whatever is sent, compensated,
\* expired and cleaned up around it.
THEOREM CodesOpenOnce == CodesSpec => []CodeOpensOnce
<1>1. CodesInit => CodesInv
  <2>1. FALSE \in BOOLEAN /\ << >> \in Seq(SoundRow)
    OBVIOUS
  <2> QED
    BY <2>1 DEF CodesInit, CodesInv
<1>2. CodesInv => CodeOpensOnce
  <2> SUFFICES ASSUME CodesInv, NEW p \in Purposes, NEW i \in DOMAIN codes[p]
               PROVE  /\ codes[p][i].accepted <= 1
                      /\ codes[p][i].failures = MaxFailures => codes[p][i].accepted = 0
    BY DEF CodeOpensOnce
  <2>1. codes[p][i] \in SoundRow
    BY DEF CodesInv
  <2> QED
    BY <2>1, CodeBounds DEF CodeBounds, SoundRow, CodeRow, SoundCode
<1> QED
  BY <1>1, CodesStep, <1>2, PTL DEF CodesSpec

HIDE DEF build_envelope_aad, Absent

-----------------------------------------------------------------------------
(***************************************************************************)
(* For any tasks, dependencies, limits and faults: no member of a team has *)
(* two unfinished jobs, a task starts after all it depends on, and the     *)
(* status of an ended job is never written again.  The invariant says who  *)
(* may still write a job: a task of the executor only while the job runs   *)
(* or is cancelled, a cancellation only a job it has read as unfinished.   *)
(***************************************************************************)

\* The leaves are first-order: Zenon proves them, and those it does not find cite SMT.
USE Zenon

JobStatus == {"none", "queued", "running", "awaiting_user", "interrupted"} \cup TERMINAL_JOBS
TaskStatus == {"none", "pending", "running"} \cup TERMINAL_JOBS
StopPlaces == {"none", "read", "update", "conflict", "executor", "join"}

CollabTypes ==
  /\ job \in [Jobs -> JobStatus] /\ task \in [Tasks -> TaskStatus]
  /\ exec = [i \in Jobs |-> exec[i]]
  /\ stop \in [at : StopPlaces, todo : SUBSET Jobs, job : Jobs \cup {NoJob}]

\* A job with an executor task runs or is cancelled; one that a cancellation is
\* about to write is unfinished.
Written ==
  /\ \A j \in Jobs : exec[j] # NoExec => job[j] \in {"running", "cancelled"}
  /\ stop.at \in {"update", "executor"} => stop.job \in Jobs
  /\ stop.at = "update" => Unfinished(stop.job)

\* The job of a task is created when the task is claimed, the leader's with the team.
Claimed ==
  /\ team = "none" => ~Exists(Lead) /\ ~Exists(Final)
  /\ \A t \in Tasks : task[t] \in {"none", "pending"} => ~Exists(t)

CollabInv == CollabTypes /\ Written /\ Claimed /\ TeamDiscipline

-----------------------------------------------------------------------------
\* What every step does: an ended job is left alone; a task that is completed stays so,
\* one that is not claimed was not claimed before; the team does not vanish.
Onwards ==
  /\ \A j \in Jobs : job[j] \in TERMINAL_JOBS => job'[j] = job[j]
  /\ \A t \in Tasks : task[t] = "completed" => task'[t] = "completed"
  /\ \A t \in Tasks : task'[t] \in {"none", "pending"} => task[t] \in {"none", "pending"}
  /\ team' = "none" => team = "none"

\* A step that creates no job preserves the invariant.
LEMMA NoNewJob ==
  ASSUME CollabInv, CollabTypes', Written', Onwards, \A j \in Jobs : Exists(j)' => Exists(j)
  PROVE  CollabInv'
<1>1. Claimed'
  <2>1. Lead \in Jobs /\ Final \in Jobs /\ Tasks \subseteq Jobs
    BY DEF Jobs
  <2> QED BY <2>1 DEF CollabInv, Claimed, Onwards
<1>2. \A j \in Jobs : Unfinished(j)' => Unfinished(j)
  BY DEF Unfinished, Onwards, Exists
<1>3. TeamDiscipline'
  <2>1. \A j \in TeamJobs : j \in Jobs
    BY DEF TeamJobs
  <2>2. \A t \in Tasks : t \in Jobs /\ \A d \in Depends[t] : d \in Tasks
    BY CollabConstants DEF Jobs
  <2> QED BY <1>2, <2>1, <2>2 DEF CollabInv, TeamDiscipline, Onwards, Member
<1> QED BY <1>1, <1>3 DEF CollabInv

\* A step that creates the job k preserves it, when the member of the team who gets it
\* has nothing else to do and what its task depends on is completed.
LEMMA NewJob ==
  ASSUME CollabInv, task' \in [Tasks -> TaskStatus], Onwards, NEW k \in Jobs, ~Exists(k),
         job' = create_job(k), UNCHANGED <<exec, stop>>,
         k \in {Lead, Final} => team' # "none",
         k \in Tasks => task'[k] = "running" /\ \A d \in Depends[k] : task[d] = "completed",
         \A j \in TeamJobs : k \in TeamJobs /\ Unfinished(j) => Member(j) # Member(k)
  PROVE  CollabInv'
<1>1. /\ job \in [Jobs -> JobStatus] /\ job'[k] = "queued"
      /\ \A j \in Jobs : j # k => job'[j] = job[j]
  BY DEF CollabInv, CollabTypes, create_job
<1>2. CollabTypes'
  BY <1>1 DEF CollabInv, CollabTypes, create_job, JobStatus
<1>3. Written'
  <2>1. job[k] = "none" /\ exec[k] = NoExec
    BY DEF Exists, CollabInv, Written
  <2> QED BY <1>1, <2>1 DEF CollabInv, Written, Unfinished, Exists, TERMINAL_JOBS
<1>4. Claimed'
  <2>1. Lead \in Jobs /\ Final \in Jobs /\ Tasks \subseteq Jobs
    BY DEF Jobs
  <2> QED BY <1>1, <2>1 DEF CollabInv, Claimed, Onwards, Exists
<1>5. TeamDiscipline'
  <2>1. \A j \in Jobs : j # k => (Unfinished(j)' = Unfinished(j)) /\ (Exists(j)' = Exists(j))
    BY <1>1 DEF Unfinished, Exists
  <2>2. \A j \in TeamJobs : j \in Jobs
    BY DEF TeamJobs
  <2>3. \A t \in Tasks : t \in Jobs /\ \A d \in Depends[t] : d \in Tasks
    BY CollabConstants DEF Jobs
  <2>4. ASSUME NEW i \in TeamJobs, NEW j \in TeamJobs, Unfinished(i)', Unfinished(j)',
               Member(i) = Member(j)
        PROVE  i = j
    BY <2>1, <2>2, <2>4 DEF CollabInv, TeamDiscipline
  <2>5. ASSUME NEW t \in Tasks, Exists(t)', NEW d \in Depends[t] PROVE task'[d] = "completed"
    BY <2>1, <2>3, <2>5 DEF CollabInv, TeamDiscipline, Onwards
  <2> QED BY <2>4, <2>5 DEF TeamDiscipline, Member
<1> QED BY <1>2, <1>3, <1>4, <1>5 DEF CollabInv

-----------------------------------------------------------------------------
\* update_job of a job that is not over, and a cancellation that has read it.
LEMMA Updates ==
  ASSUME CollabInv, NEW j \in Jobs, NEW s \in JobStatus \ {"none"}, update_job(j, s),
         job[j] \notin TERMINAL_JOBS \cup {"none"} \/ s = job[j]
  PROVE  /\ job' \in [Jobs -> JobStatus] /\ job'[j] = s /\ \A i \in Jobs : i # j => job'[i] = job[i]
         /\ \A i \in Jobs : job[i] \in TERMINAL_JOBS => job'[i] = job[i]
         /\ \A i \in Jobs : Exists(i)' => Exists(i)
         /\ stop' \in [at : StopPlaces, todo : SUBSET Jobs, job : Jobs \cup {NoJob}]
         /\ stop'.at = "update" => stop'.job \in Jobs /\ Unfinished(stop.job)'
         /\ stop'.at = "executor" => stop'.job \in Jobs
<1>1. /\ job' \in [Jobs -> JobStatus] /\ job'[j] = s /\ \A i \in Jobs : i # j => job'[i] = job[i]
  BY DEF CollabInv, CollabTypes, update_job
<1>2. \A i \in Jobs : job[i] \in TERMINAL_JOBS => job'[i] = job[i]
  BY <1>1
<1>3. \A i \in Jobs : Exists(i)' => Exists(i)
  BY <1>1 DEF Exists
<1>4. stop' \in [at : StopPlaces, todo : SUBSET Jobs, job : Jobs \cup {NoJob}]
  BY SMT DEF CollabInv, CollabTypes, update_job, StopPlaces
<1>5. stop'.at \in {"update", "executor"} => stop' = stop /\ (stop.at = "update" => stop.job # j)
  BY SMT DEF CollabInv, CollabTypes, update_job, StopPlaces
<1>6. stop'.at = "update" => stop'.job \in Jobs /\ Unfinished(stop.job)'
  BY <1>1, <1>5 DEF CollabInv, Written, Unfinished, Exists
<1>7. stop'.at = "executor" => stop'.job \in Jobs
  BY <1>5 DEF CollabInv, Written
<1> QED BY <1>1, <1>2, <1>3, <1>4, <1>6, <1>7

\* What writing the place of an executor task, or ending the task, does.
LEMMA Executes ==
  ASSUME exec = [i \in Jobs |-> exec[i]], NEW j \in Jobs, NEW r, exec' = [exec EXCEPT ![j] = r]
  PROVE  exec' = [i \in Jobs |-> exec'[i]] /\ exec'[j] = r /\ \A i \in Jobs : i # j => exec'[i] = exec[i]
BY SMT

LEMMA Moves ==
  ASSUME exec = [i \in Jobs |-> exec[i]], NEW j \in Jobs, NEW at, exec' = Execs(j, at),
         exec[j].at # "none"
  PROVE  /\ exec' = [i \in Jobs |-> exec'[i]] /\ \A i \in Jobs : i # j => exec'[i] = exec[i]
         /\ exec[j] # NoExec /\ \A i \in Jobs : exec[i] = NoExec => exec'[i] = NoExec
<1>1. exec[j] # NoExec
  BY SMT DEF NoExec
<1>2. exec' = [exec EXCEPT ![j] = [exec[j] EXCEPT !.at = at]]
  BY DEF Execs
<1> QED BY <1>1, <1>2, Executes

LEMMA CollabStarts == CollabInit => CollabInv
<1> SUFFICES ASSUME CollabInit PROVE CollabInv
  OBVIOUS
<1>1. CollabTypes
  <2>1. stop \in [at : StopPlaces, todo : SUBSET Jobs, job : Jobs \cup {NoJob}]
    BY SMT DEF CollabInit, StopPlaces, NoStop
  <2>2. exec = [i \in Jobs |-> exec[i]]
    BY SMT DEF CollabInit, NoExec
  <2> QED BY <2>1, <2>2 DEF CollabInit, CollabTypes, JobStatus, TaskStatus
<1>2. \A j \in Jobs : job[j] = "none" /\ exec[j] = NoExec /\ ~Exists(j) /\ ~Unfinished(j)
  BY DEF CollabInit, Exists, Unfinished
<1>3. Tasks \subseteq Jobs /\ TeamJobs \subseteq Jobs /\ Lead \in Jobs /\ Final \in Jobs
  BY DEF Jobs, TeamJobs
<1>4. stop.at = "none"
  BY DEF CollabInit, NoStop
<1> QED BY <1>1, <1>2, <1>3, <1>4 DEF CollabInv, Written, Claimed, TeamDiscipline

\* Every step preserves the invariant and goes onwards.
LEMMA CollabKeeps == CollabInv /\ [CollabNext]_collabVars => CollabInv' /\ Onwards
<1> SUFFICES ASSUME CollabInv, [CollabNext]_collabVars PROVE CollabInv' /\ Onwards
  OBVIOUS
<1>0. CollabTypes /\ Written /\ Claimed
  BY DEF CollabInv
<1>j. Tasks \subseteq Jobs /\ TeamJobs \subseteq Jobs /\ {Lead, Final, Solo} \subseteq Jobs
      /\ {Lead, Final} \subseteq TeamJobs /\ Tasks \subseteq TeamJobs /\ Solo \notin TeamJobs
      /\ {Lead, Final} \cap Tasks = {} /\ Solo \notin Tasks
  BY CollabConstants DEF Jobs, TeamJobs, Lead, Final, Solo
\* A step that leaves jobs and tasks alone.
<1>q. ASSUME UNCHANGED <<job, task>>, exec' = [i \in Jobs |-> exec'[i]],
             \A j \in Jobs : exec[j] = NoExec => exec'[j] = NoExec,
             team' = "none" => team = "none",
             stop' \in [at : StopPlaces, todo : SUBSET Jobs, job : Jobs \cup {NoJob}],
             stop'.at \in {"update", "executor"} => stop'.job \in Jobs,
             stop'.at = "update" => Unfinished(stop'.job)
      PROVE  CollabInv' /\ Onwards
  <2>1. CollabTypes' /\ Onwards /\ \A j \in Jobs : Exists(j)' => Exists(j)
    BY <1>0, <1>q DEF CollabTypes, Onwards, Exists
  <2>2. Written'
    BY <1>0, <1>q DEF Written, Unfinished, Exists
  <2> QED BY <2>1, <2>2, NoNewJob
<1>s. /\ stop \in [at : StopPlaces, todo : SUBSET Jobs, job : Jobs \cup {NoJob}]
      /\ stop.at \in {"update", "executor"} => stop.job \in Jobs
      /\ stop.at = "update" => Unfinished(stop.job)
      /\ exec = [i \in Jobs |-> exec[i]]
  BY <1>0 DEF CollabTypes, Written
<1>1. CASE spawn
  <2>1. Onwards /\ task' \in [Tasks -> TaskStatus]
    BY <1>0, <1>1, <1>j DEF spawn, Onwards, CollabTypes, create_job, Exists, TERMINAL_JOBS
  <2> QED BY <1>1, <1>j, <2>1, NewJob DEF spawn
<1>2. CASE create_team
  <2>1. ~Exists(Lead) /\ ~Exists(Final)
    BY <1>0, <1>2 DEF create_team, Claimed
  <2>2. Onwards /\ task' \in [Tasks -> TaskStatus]
    BY <1>0, <1>2, <1>j, <2>1 DEF create_team, Onwards, CollabTypes, create_job, Exists, TERMINAL_JOBS
  <2>3. \A i \in TeamJobs : Unfinished(i) => i \in Tasks
    BY <2>1 DEF Unfinished, TeamJobs, Jobs
  <2> QED BY <1>2, <1>j, <2>1, <2>2, <2>3, NewJob DEF create_team, Member
<1>3. CASE conclude_team
  <2>1. CASE Reported
    BY <1>q, <1>s, <1>3, <2>1 DEF conclude_team, AllDone
  <2>2. CASE ~Reported
    <3>1. job' = create_job(Final) /\ ~Exists(Final) /\ UNCHANGED <<child, lease, exec, task, stop, team>>
      BY <1>3, <2>2 DEF conclude_team, Reported
    <3>2. Onwards /\ task' \in [Tasks -> TaskStatus]
      BY <1>0, <1>j, <3>1 DEF Onwards, CollabTypes, create_job, Exists, TERMINAL_JOBS
    <3>3. \A i \in TeamJobs : ~Unfinished(i)
      BY <1>3 DEF conclude_team, AllDone, Busy
    <3>4. team # "none"
      BY <1>3 DEF conclude_team, AllDone
    <3> QED BY <1>j, <3>1, <3>2, <3>3, <3>4, NewJob
  <2> QED BY <2>1, <2>2
<1>4. ASSUME NEW t \in Tasks, create_task(t) PROVE CollabInv' /\ Onwards
  <2>1. task' \in [Tasks -> TaskStatus] /\ task'[t] = "pending"
        /\ \A u \in Tasks : u # t => task'[u] = task[u]
    BY <1>0, <1>4 DEF create_task, CollabTypes, TaskStatus
  <2>2. CollabTypes' /\ Onwards
    BY <1>0, <1>4, <2>1 DEF create_task, Onwards, CollabTypes
  <2>3. Written' /\ \A j \in Jobs : Exists(j)' => Exists(j)
    BY <1>0, <1>4 DEF create_task, Written, Unfinished, Exists
  <2> QED BY <2>2, <2>3, NoNewJob
<1>5. ASSUME NEW t \in Tasks, claim_task(t) PROVE CollabInv' /\ Onwards
  <2>0. task[t] = "pending" /\ team = "active" /\ \A d \in Depends[t] : task[d] = "completed"
    BY <1>5 DEF claim_task, TaskReady
  <2>1. CASE Affordable(t)
    <3>1. job' = create_job(t) /\ task' = [task EXCEPT ![t] = "running"]
          /\ UNCHANGED <<team, exec, stop>>
      BY <1>5, <2>1 DEF claim_task
    <3>2. task' \in [Tasks -> TaskStatus] /\ task'[t] = "running"
          /\ \A u \in Tasks : u # t => task'[u] = task[u]
      BY <1>0, <3>1 DEF CollabTypes, TaskStatus
    <3>3. ~Exists(t) /\ t \in Jobs
      BY <1>0, <1>j, <2>0 DEF Claimed
    <3>4. Onwards
      BY <1>0, <2>0, <3>1, <3>2, <3>3 DEF Onwards, CollabTypes, create_job, Exists, TERMINAL_JOBS
    <3>5. \A i \in TeamJobs : Unfinished(i) => Member(i) # Member(t)
      BY <1>5 DEF claim_task, Busy, Member
    <3> QED BY <1>j, <2>0, <3>1, <3>2, <3>3, <3>4, <3>5, NewJob
  <2>2. CASE ~Affordable(t)
    <3>1. UNCHANGED <<job, exec, stop>> /\ task' = [task EXCEPT ![t] = "failed"] /\ team' = "failed"
      BY <1>5, <2>2 DEF claim_task
    <3>2. task' \in [Tasks -> TaskStatus] /\ task'[t] = "failed"
          /\ \A u \in Tasks : u # t => task'[u] = task[u]
      BY <1>0, <3>1 DEF CollabTypes, TaskStatus, TERMINAL_JOBS
    <3>3. CollabTypes' /\ Onwards
      BY <1>0, <2>0, <3>1, <3>2 DEF Onwards, CollabTypes
    <3>4. Written' /\ \A j \in Jobs : Exists(j)' => Exists(j)
      BY <1>0, <3>1 DEF Written, Unfinished, Exists
    <3> QED BY <3>3, <3>4, NoNewJob
  <2> QED BY <2>1, <2>2
<1>6. ASSUME NEW j \in Jobs, dispatch(j) PROVE CollabInv' /\ Onwards
  <2>1. update_job(j, "running") /\ "running" \in JobStatus \ {"none"}
        /\ job[j] \notin TERMINAL_JOBS \cup {"none"}
    BY <1>6 DEF dispatch, JobStatus, TERMINAL_JOBS
  <2>2. exec' = [exec EXCEPT ![j] = [at |-> "start", had |-> child[j] # "none"]]
        /\ UNCHANGED <<task, team>>
    BY <1>6 DEF dispatch
  <2>3. exec' = [i \in Jobs |-> exec'[i]] /\ \A i \in Jobs : i # j => exec'[i] = exec[i]
    BY SMT, <1>s, <2>2
  <2>u. /\ job' \in [Jobs -> JobStatus] /\ job'[j] = "running" /\ \A i \in Jobs : i # j => job'[i] = job[i]
        /\ \A i \in Jobs : job[i] \in TERMINAL_JOBS => job'[i] = job[i]
        /\ \A i \in Jobs : Exists(i)' => Exists(i)
        /\ stop' \in [at : StopPlaces, todo : SUBSET Jobs, job : Jobs \cup {NoJob}]
        /\ stop'.at = "update" => stop'.job \in Jobs /\ Unfinished(stop.job)'
        /\ stop'.at = "executor" => stop'.job \in Jobs
    BY <2>1, Updates
  <2>4. CollabTypes' /\ Onwards /\ \A i \in Jobs : Exists(i)' => Exists(i)
    BY <1>0, <2>2, <2>3, <2>u DEF CollabTypes, Onwards
  <2>5. Written'
    BY <1>0, <2>2, <2>3, <2>u DEF Written
  <2> QED BY <2>4, <2>5, NoNewJob
<1>7. ASSUME NEW j \in Jobs, begin(j) PROVE CollabInv' /\ Onwards
  <2>1. exec[j] # NoExec /\ job[j] \in {"running", "cancelled"}
    BY SMT, <1>0, <1>7 DEF begin, NoExec, Written
  <2>2. /\ exec' = [i \in Jobs |-> exec'[i]] /\ UNCHANGED <<task, team>>
        /\ \A i \in Jobs : i # j => exec'[i] = exec[i]
    <3>1. PICK at : exec' = Execs(j, at)
      BY <1>7 DEF begin
    <3> QED BY <1>s, <1>7, <3>1, Moves DEF begin
  <2>3. CASE UNCHANGED <<job, stop>>
    <3>1. \A i \in Jobs : exec[i] = NoExec => exec'[i] = NoExec
      BY <2>1, <2>2
    <3> QED BY <1>q, <1>s, <2>2, <2>3, <3>1
  <2>4. CASE update_job(j, job[j])
    <3>1. job[j] \in JobStatus \ {"none"}
      BY <2>1 DEF JobStatus, TERMINAL_JOBS
    <3>u. /\ job' \in [Jobs -> JobStatus] /\ job'[j] = job[j] /\ \A i \in Jobs : i # j => job'[i] = job[i]
          /\ \A i \in Jobs : job[i] \in TERMINAL_JOBS => job'[i] = job[i]
          /\ \A i \in Jobs : Exists(i)' => Exists(i)
          /\ stop' \in [at : StopPlaces, todo : SUBSET Jobs, job : Jobs \cup {NoJob}]
          /\ stop'.at = "update" => stop'.job \in Jobs /\ Unfinished(stop.job)'
          /\ stop'.at = "executor" => stop'.job \in Jobs
      BY <2>4, <3>1, Updates
    <3>2. CollabTypes' /\ Onwards /\ \A i \in Jobs : Exists(i)' => Exists(i)
      BY <1>0, <2>2, <2>4, <3>1, <3>u DEF CollabTypes, Onwards
    <3>3. Written'
      BY <1>0, <2>1, <2>2, <2>4, <3>1, <3>u DEF Written
    <3> QED BY <3>2, <3>3, NoNewJob
  <2> QED BY <1>7, <2>3, <2>4 DEF begin
<1>8. ASSUME NEW j \in Jobs, run(j) PROVE CollabInv' /\ Onwards
  <2>1. exec[j] # NoExec /\ job[j] \in {"running", "cancelled"}
    BY SMT, <1>0, <1>8 DEF run, NoExec, Written, TERMINAL_JOBS
  <2>2. exec' = [i \in Jobs |-> exec'[i]] /\ exec'[j] = NoExec
        /\ (\A i \in Jobs : i # j => exec'[i] = exec[i]) /\ UNCHANGED team
    BY <1>s, <1>8, Executes DEF run
  <2>3. /\ task' \in [Tasks -> TaskStatus]
        /\ \A t \in Tasks : task'[t] = task[t] \/ (task[t] = "running" /\ task'[t] \in TERMINAL_JOBS)
    BY <1>0, <1>8 DEF run, CollabTypes, TaskStatus
  <2>t. /\ \A t \in Tasks : task[t] = "completed" => task'[t] = "completed"
        /\ \A t \in Tasks : task'[t] \in {"none", "pending"} => task[t] \in {"none", "pending"}
    BY <2>3 DEF TERMINAL_JOBS
  <2>4. CASE job[j] = "cancelled" /\ UNCHANGED <<job, stop>>
    <3>1. CollabTypes' /\ Onwards /\ \A i \in Jobs : Exists(i)' => Exists(i)
      BY <1>0, <2>2, <2>3, <2>t, <2>4 DEF CollabTypes, Onwards, Exists
    <3>2. Written'
      BY <1>0, <2>2, <2>4 DEF Written, Unfinished, Exists
    <3> QED BY <3>1, <3>2, NoNewJob
  <2>5. CASE job[j] # "cancelled" /\ update_job(j, exec[j].at)
    <3>1. exec[j].at \in JobStatus \ {"none"} /\ job[j] \notin TERMINAL_JOBS \cup {"none"}
      BY <1>8, <2>1, <2>5 DEF run, JobStatus, TERMINAL_JOBS
    <3>2. CollabTypes' /\ Onwards /\ \A i \in Jobs : Exists(i)' => Exists(i)
      BY <1>0, <2>2, <2>3, <2>t, <2>5, <3>1, Updates DEF CollabTypes, Onwards
    <3>3. Written'
      BY <1>0, <2>2, <2>5, <3>1, Updates DEF Written
    <3> QED BY <3>2, <3>3, NoNewJob
  <2> QED BY <1>8, <2>4, <2>5 DEF run
<1>9. ASSUME NEW j \in Jobs,
             abort(j) \/ WorkRefused(j) \/ resolve(j) \/ LeaseRunsOut(j) \/ propagate_cancellation(j)
      PROVE  CollabInv' /\ Onwards
  <2>1. CASE abort(j)
    <3>1. /\ exec' = [i \in Jobs |-> exec'[i]]
          /\ \A i \in Jobs : exec[i] = NoExec => exec'[i] = NoExec
      BY <1>s, <2>1, Moves DEF abort
    <3> QED BY <1>q, <1>s, <2>1, <3>1 DEF abort
  <2>2. CASE resolve(j)
    BY <1>q, <1>s, <2>2 DEF resolve
  <2>3. CASE LeaseRunsOut(j)
    BY <1>q, <1>s, <2>3 DEF LeaseRunsOut
  <2>4. CASE propagate_cancellation(j)
    BY <1>q, <1>s, <2>4 DEF propagate_cancellation
  <2>5. CASE WorkRefused(j)
    <3>1. /\ exec' = [i \in Jobs |-> exec'[i]]
          /\ \A i \in Jobs : exec[i] = NoExec => exec'[i] = NoExec
      BY <1>s, <2>5, Moves DEF WorkRefused
    <3> QED BY <1>q, <1>s, <2>5, <3>1 DEF WorkRefused
  <2> QED BY <1>9, <2>1, <2>2, <2>3, <2>4, <2>5
<1>10. ASSUME NEW j \in Jobs, NEW e \in RunEnds, work(j, e) PROVE CollabInv' /\ Onwards
  <2>1. /\ exec' = [i \in Jobs |-> exec'[i]]
        /\ \A i \in Jobs : exec[i] = NoExec => exec'[i] = NoExec
    BY <1>s, <1>10, Moves DEF work
  <2> QED BY <1>q, <1>s, <1>10, <2>1 DEF work
<1>11. ASSUME NEW j \in Jobs, NEW yes \in BOOLEAN, BeginFails(j, yes) \/ WorkFails(j, yes)
       PROVE  CollabInv' /\ Onwards
  <2>1. /\ exec' = [i \in Jobs |-> exec'[i]]
        /\ \A i \in Jobs : exec[i] = NoExec => exec'[i] = NoExec
    <3>1. PICK at : exec' = Execs(j, at)
      BY <1>11 DEF BeginFails, WorkFails
    <3>2. exec[j].at \in {"start", "work"}
      BY <1>11 DEF BeginFails, WorkFails
    <3> QED BY <1>s, <3>1, <3>2, Moves
  <2> QED BY <1>q, <1>s, <1>11, <2>1 DEF BeginFails, WorkFails
<1>12. ASSUME NEW todo \in SUBSET Jobs, request_cancel(todo) PROVE CollabInv' /\ Onwards
  <2>1. stop' \in [at : StopPlaces, todo : SUBSET Jobs, job : Jobs \cup {NoJob}] /\ stop'.at = "read"
    <3>1. stop' = [at |-> "read", todo |-> todo, job |-> NoJob]
      <4>1. stop' = [NoStop EXCEPT !.at = "read", !.todo = todo]
        BY <1>12 DEF request_cancel
      <4> QED BY <4>1 DEF NoStop
    <3> QED BY SMT, <3>1 DEF StopPlaces
  <2>2. UNCHANGED <<job, exec>> /\ (team' = "none" => team = "none")
    BY <1>12 DEF request_cancel
  <2>3. /\ task' \in [Tasks -> TaskStatus]
        /\ \A t \in Tasks : task'[t] = task[t] \/ (task[t] = "pending" /\ task'[t] = "cancelled")
    <3>1. CASE UNCHANGED task
      BY <1>0, <3>1 DEF CollabTypes
    <3>2. CASE task' = [t \in Tasks |-> IF task[t] = "pending" THEN "cancelled" ELSE task[t]]
      BY <1>0, <3>2 DEF CollabTypes, TaskStatus, TERMINAL_JOBS
    <3> QED BY <1>12, <3>1, <3>2 DEF request_cancel
  <2>4. CollabTypes' /\ Onwards /\ \A i \in Jobs : Exists(i)' => Exists(i)
    BY <1>0, <2>1, <2>2, <2>3 DEF CollabTypes, Onwards, Exists
  <2>5. Written'
    BY <1>0, <2>1, <2>2 DEF Written
  <2> QED BY <2>4, <2>5, NoNewJob
<1>13. CASE CancelJobsStep
  <2>1. CASE cancel_read
    <3> DEFINE left == {j \in stop.todo : Unfinished(j)}
    <3>1. left \subseteq Jobs
      BY SMT, <1>s
    <3>2. CASE left = {}
      <4>1. stop' = NoStop /\ UNCHANGED <<job, exec, task, team>>
        BY <2>1, <3>2 DEF cancel_read
      <4>2. stop' \in [at : StopPlaces, todo : SUBSET Jobs, job : Jobs \cup {NoJob}] /\ stop'.at = "none"
        BY SMT, <4>1 DEF NoStop, StopPlaces
      <4> QED BY <1>q, <1>s, <4>1, <4>2
    <3>3. CASE left # {}
      <4>1. PICK j \in left : stop' = [at |-> "update", todo |-> left \ {j}, job |-> j]
        BY <2>1, <3>3 DEF cancel_read
      <4>2. /\ stop' \in [at : StopPlaces, todo : SUBSET Jobs, job : Jobs \cup {NoJob}]
            /\ stop'.at = "update" /\ stop'.job = j
        BY SMT, <3>1, <4>1 DEF StopPlaces
      <4>3. UNCHANGED <<job, exec, task, team>>
        BY <2>1 DEF cancel_read
      <4>4. j \in Jobs /\ Unfinished(j)
        BY <3>1
      <4> QED BY <1>q, <1>s, <4>2, <4>3, <4>4
    <3> QED BY <3>2, <3>3
  <2>2. CASE cancel_update
    <3>1. CASE stop.at = "conflict" /\ stop' = NoStop /\ UNCHANGED job
      <4>1. stop' \in [at : StopPlaces, todo : SUBSET Jobs, job : Jobs \cup {NoJob}] /\ stop'.at = "none"
        BY SMT, <3>1 DEF NoStop, StopPlaces
      <4> QED BY <1>q, <1>s, <2>2, <3>1, <4>1 DEF cancel_update
    <3>2. CASE /\ stop.at = "update" /\ stop' = [stop EXCEPT !.at = "executor"]
               /\ job' = [job EXCEPT ![stop.job] = "cancelled"]
      <4>1. stop' \in [at : StopPlaces, todo : SUBSET Jobs, job : Jobs \cup {NoJob}]
            /\ stop'.at = "executor" /\ stop'.job = stop.job
        BY SMT, <1>s, <3>2 DEF StopPlaces
      <4>2. stop.job \in Jobs /\ Unfinished(stop.job)
        BY <1>s, <3>2
      <4>3. /\ job' \in [Jobs -> JobStatus] /\ job'[stop.job] = "cancelled"
            /\ \A i \in Jobs : i # stop.job => job'[i] = job[i]
        BY <1>0, <3>2, <4>2 DEF CollabTypes, JobStatus, TERMINAL_JOBS
      <4>4. UNCHANGED <<exec, task, team>>
        BY <2>2 DEF cancel_update
      <4>5. CollabTypes' /\ Onwards /\ \A i \in Jobs : Exists(i)' => Exists(i)
        BY <1>0, <4>1, <4>2, <4>3, <4>4 DEF CollabTypes, Onwards, Exists, Unfinished
      <4>6. Written'
        BY <1>0, <4>1, <4>2, <4>3, <4>4 DEF Written
      <4> QED BY <4>5, <4>6, NoNewJob
    <3> QED BY <2>2, <3>1, <3>2 DEF cancel_update
  <2>3. CASE cancel_executor
    <3>1. stop' \in [at : StopPlaces, todo : SUBSET Jobs, job : Jobs \cup {NoJob}] /\ stop'.at = "join"
      BY SMT, <1>s, <2>3 DEF cancel_executor, StopPlaces
    <3>2. /\ exec' = [i \in Jobs |-> exec'[i]]
          /\ \A i \in Jobs : exec[i] = NoExec => exec'[i] = NoExec
      <4>1. CASE exec[stop.job].at \in {"start", "work"}
        BY <1>s, <2>3, <4>1, Moves DEF cancel_executor
      <4>2. CASE exec[stop.job].at \notin {"start", "work"}
        BY <1>s, <2>3, <4>2 DEF cancel_executor
      <4> QED BY <4>1, <4>2
    <3> QED BY <1>q, <1>s, <2>3, <3>1, <3>2 DEF cancel_executor
  <2>4. CASE cancel_join
    <3>1. stop' \in [at : StopPlaces, todo : SUBSET Jobs, job : Jobs \cup {NoJob}] /\ stop'.at = "read"
      <4>1. stop' = [at |-> "read", todo |-> stop.todo, job |-> NoJob]
        <5>1. stop' = [stop EXCEPT !.at = "read", !.job = NoJob]
          BY <2>4 DEF cancel_join
        <5> QED BY <1>s, <5>1
      <4> QED BY SMT, <1>s, <4>1 DEF StopPlaces
    <3> QED BY <1>q, <1>s, <2>4, <3>1 DEF cancel_join
  <2> QED BY <1>13, <2>1, <2>2, <2>3, <2>4 DEF CancelJobsStep
<1>14. ASSUME NEW closed \in BOOLEAN, restart(closed) PROVE CollabInv' /\ Onwards
  <2>1. stop' \in [at : StopPlaces, todo : SUBSET Jobs, job : Jobs \cup {NoJob}] /\ stop'.at = "none"
    BY SMT, <1>14 DEF restart, NoStop, StopPlaces
  <2>2. exec' = [i \in Jobs |-> exec'[i]] /\ \A j \in Jobs : exec'[j] = NoExec
    BY SMT, <1>14 DEF restart, NoExec
  <2>3. /\ job' \in [Jobs -> JobStatus]
        /\ \A j \in Jobs : job'[j] = job[j] \/ (job[j] = "running" /\ job'[j] = "interrupted")
    BY <1>0, <1>14 DEF restart, CollabTypes, JobStatus
  <2>4. UNCHANGED <<task, team>>
    BY <1>14 DEF restart
  <2>5. CollabTypes' /\ Onwards /\ \A i \in Jobs : Exists(i)' => Exists(i)
    BY <1>0, <2>1, <2>2, <2>3, <2>4 DEF CollabTypes, Onwards, Exists, TERMINAL_JOBS
  <2>6. Written'
    BY <2>1, <2>2 DEF Written
  <2> QED BY <2>5, <2>6, NoNewJob
<1>15. CASE UNCHANGED collabVars
  BY <1>q, <1>s, <1>15 DEF collabVars
<1> QED
  BY <1>1, <1>2, <1>3, <1>4, <1>5, <1>6, <1>7, <1>8, <1>9, <1>10, <1>11, <1>12, <1>13, <1>14, <1>15
  DEF CollabNext

\* TeamDiscipline holds in every run (_schedule_team_tasks, claim_task, _run): no member
\* has two unfinished jobs, and a task starts when all it depends on is completed.
THEOREM TeamsAreDisciplined == CollabSpec => []TeamDiscipline
<1>1. CollabInv => TeamDiscipline
  BY DEF CollabInv
<1> QED BY <1>1, CollabStarts, CollabKeeps, PTL DEF CollabSpec

\* EndedJobsStay holds in every run (update_job, _run, cancel): the status of an ended
\* job is never written again.
THEOREM JobsStayEnded == CollabSpec => EndedJobsStay
<1>1. CollabInv /\ [CollabNext]_collabVars
      => [\A j \in Jobs : job[j] \in TERMINAL_JOBS => job'[j] = job[j]]_collabVars
  BY CollabKeeps DEF Onwards
<1> QED BY <1>1, CollabStarts, CollabKeeps, PTL DEF CollabSpec, EndedJobsStay

-----------------------------------------------------------------------------
(***************************************************************************)
(* For any writers, files and requests: what acceptance does to the source *)
(* project is a diff the user has seen.  The invariant says what a request *)
(* holds between its steps: the digest it was given was shown, the patch   *)
(* is that digest's, no part is in two of the diffs it combines, and what  *)
(* git apply has read is what the hunks expect.                            *)
(***************************************************************************)

\* A record with the fields of a request.
IsRequest(a) == a = [at |-> a.at, digest |-> a.digest, patch |-> a.patch, read |-> a.read]

Reviewed(a) ==
  /\ a.digest \in seen /\ a.patch = Combined(a.digest)
  /\ \A v, w \in DOMAIN a.digest : v # w => DOMAIN a.digest[v] \cap DOMAIN a.digest[w] = {}
  /\ a.at = "read" => \A p \in DOMAIN a.patch : a.read[p] = a.patch[p].old

WorkspacesInv ==
  /\ source = [commit |-> source.commit, head |-> source.head, copy |-> source.copy]
  /\ accepting = [q \in AcceptCalls |-> accepting[q]]
  /\ \A q \in AcceptCalls : IsRequest(accepting[q])
  /\ \A q \in AcceptCalls : accepting[q].at \in Holding => Reviewed(accepting[q])

-----------------------------------------------------------------------------
LEMMA NoAcceptFields == IsRequest(NoAccept) /\ NoAccept.at = "none" /\ NoAccept.at \notin Holding
BY DEF NoAccept, IsRequest, Holding

\* A step that changes one request, q, into a.
LEMMA RequestMoves ==
  ASSUME WorkspacesInv, NEW q \in AcceptCalls, NEW a, accepting' = [accepting EXCEPT ![q] = a],
         IsRequest(a), a.at \in Holding => Reviewed(a), UNCHANGED seen,
         source' = [commit |-> source'.commit, head |-> source'.head, copy |-> source'.copy]
  PROVE  WorkspacesInv' /\ accepting'[q] = a /\ \A p \in AcceptCalls : p # q => accepting'[p] = accepting[p]
<1>1. /\ accepting' = [p \in AcceptCalls |-> accepting'[p]] /\ accepting'[q] = a
      /\ \A p \in AcceptCalls : p # q => accepting'[p] = accepting[p]
  BY SMT DEF WorkspacesInv
<1>2. \A p \in AcceptCalls : IsRequest(accepting'[p])
  BY <1>1 DEF WorkspacesInv
<1>3. ASSUME NEW p \in AcceptCalls, accepting'[p].at \in Holding
      PROVE  Reviewed(accepting'[p])
  BY <1>1, <1>3 DEF WorkspacesInv
<1>4. \A p \in AcceptCalls : Reviewed(accepting'[p]) => Reviewed(accepting[p])'
  BY DEF Reviewed, Combined
<1>5. \A p \in AcceptCalls : IsRequest(accepting[p])'
  BY <1>2 DEF IsRequest
<1> QED BY <1>1, <1>3, <1>4, <1>5 DEF WorkspacesInv

\* A step that leaves the requests alone.
LEMMA RequestsStay ==
  ASSUME WorkspacesInv, UNCHANGED accepting, seen \subseteq seen',
         source' = [commit |-> source'.commit, head |-> source'.head, copy |-> source'.copy]
  PROVE  WorkspacesInv'
<1>1. ASSUME NEW q \in AcceptCalls, Reviewed(accepting[q]) PROVE Reviewed(accepting[q])'
  <2>1. accepting'[q] = accepting[q]
    OBVIOUS
  <2>2. Reviewed(accepting'[q])
    BY <1>1, <2>1
  <2> QED BY <2>2 DEF Reviewed, Combined
<1> QED BY <1>1 DEF WorkspacesInv, IsRequest

\* A request that git apply has read for is written, or given up.
AppliesOnlySo ==
  \A q \in AcceptCalls : accepting[q].at = "read" /\ accepting'[q].at # "read" =>
    (\E fs : accept_write(q, fs)) \/ (accepting'[q].at # "applied" /\ UNCHANGED source)

LEMMA WorkspacesStart == WorkspacesInit => WorkspacesInv
<1> SUFFICES ASSUME WorkspacesInit PROVE WorkspacesInv
  OBVIOUS
<1>1. \A q \in AcceptCalls : accepting[q] = NoAccept
  BY DEF WorkspacesInit
<1>2. source = [commit |-> source.commit, head |-> source.head, copy |-> source.copy]
  BY DEF WorkspacesInit
<1> QED BY <1>1, <1>2, NoAcceptFields DEF WorkspacesInv, WorkspacesInit

LEMMA WorkspacesKeep ==
  WorkspacesInv /\ [WorkspacesNext]_workspaceVars => WorkspacesInv' /\ AppliesOnlySo
<1> SUFFICES ASSUME WorkspacesInv, [WorkspacesNext]_workspaceVars PROVE WorkspacesInv' /\ AppliesOnlySo
  OBVIOUS
<1>0. source = [commit |-> source.commit, head |-> source.head, copy |-> source.copy]
  BY DEF WorkspacesInv
<1>1. ASSUME UNCHANGED <<accepting, source>>, seen \subseteq seen' PROVE WorkspacesInv' /\ AppliesOnlySo
  BY <1>0, <1>1, RequestsStay DEF AppliesOnlySo
<1>2. ASSUME NEW q \in AcceptCalls, NEW digest \in seen, accept(q, digest)
      PROVE  WorkspacesInv' /\ AppliesOnlySo
  <2>1. PICK s \in {"captured", "applied"} : accepting' =
          [accepting EXCEPT ![q] = [at |-> s, digest |-> digest, patch |-> Combined(digest), read |-> <<>>]]
    BY <1>2 DEF accept
  <2> DEFINE a == [at |-> s, digest |-> digest, patch |-> Combined(digest), read |-> <<>>]
  <2>a. a.at = s /\ a.at # "read" /\ a.digest = digest /\ a.patch = Combined(digest) /\ IsRequest(a)
    BY DEF IsRequest
  <2>2. Reviewed(a)
    <3>1. ASSUME NEW v \in DOMAIN digest, NEW w \in DOMAIN digest, v # w
          PROVE  DOMAIN digest[v] \cap DOMAIN digest[w] = {}
      <4>1. digest[v] = Patch(v) /\ digest[w] = Patch(w)
        BY <1>2 DEF accept, Digest
      <4>2. FilesIn(Patch(v)) \cap FilesIn(Patch(w)) = {}
        BY <1>2, <3>1 DEF accept, BatchDiffable
      <4>3. DOMAIN Patch(v) \cap DOMAIN Patch(w) = {}
        BY <4>2 DEF FilesIn
      <4> QED BY <4>1, <4>3
    <3> QED BY <2>a, <3>1 DEF Reviewed
  <2>3. accepting' = [accepting EXCEPT ![q] = a] /\ UNCHANGED <<seen, source>> /\ accepting[q].at = "none"
    BY <1>2, <2>1 DEF accept
  <2> HIDE DEF a
  <2>4. WorkspacesInv' /\ accepting'[q] = a /\ \A p \in AcceptCalls : p # q => accepting'[p] = accepting[p]
    BY <1>0, <2>a, <2>2, <2>3, RequestMoves
  <2> QED BY <2>3, <2>4 DEF AppliesOnlySo
<1>3. ASSUME NEW q \in AcceptCalls, accept_check(q) PROVE WorkspacesInv' /\ AppliesOnlySo
  <2>1. PICK a : /\ accepting' = [accepting EXCEPT ![q] = a]
                 /\ a = NoAccept \/ a = [accepting[q] EXCEPT !.at = "checked"]
    BY <1>3 DEF accept_check
  <2>2. accepting[q].at = "captured" /\ UNCHANGED <<seen, source>>
    BY <1>3 DEF accept_check
  <2>3. IsRequest(accepting[q]) /\ Reviewed(accepting[q])
    BY <2>2 DEF WorkspacesInv, Holding
  <2>4. IsRequest(a) /\ (a.at \in Holding => Reviewed(a))
    <3>1. CASE a = NoAccept
      BY <3>1, NoAcceptFields
    <3>2. CASE a = [accepting[q] EXCEPT !.at = "checked"]
      <4>1. a = [at |-> "checked", digest |-> accepting[q].digest, patch |-> accepting[q].patch, read |-> accepting[q].read]
        BY <2>3, <3>2 DEF IsRequest
      <4> QED BY <2>3, <4>1 DEF IsRequest, Reviewed
    <3> QED BY <2>1, <3>1, <3>2
  <2>5. WorkspacesInv' /\ accepting'[q] = a /\ \A p \in AcceptCalls : p # q => accepting'[p] = accepting[p]
    BY <1>0, <2>1, <2>2, <2>4, RequestMoves
  <2> QED BY <2>2, <2>5 DEF AppliesOnlySo
<1>a. ASSUME NEW q \in AcceptCalls, accept_read(q) PROVE WorkspacesInv' /\ AppliesOnlySo
  <2>1. PICK a : /\ accepting' = [accepting EXCEPT ![q] = a]
                 /\ \/ a = NoAccept
                    \/ Applies(accepting[q].patch) /\ a = [accepting[q] EXCEPT !.at = "read", !.read = source.copy]
    BY <1>a DEF accept_read
  <2>2. accepting[q].at = "checked" /\ UNCHANGED <<seen, source>>
    BY <1>a DEF accept_read
  <2>3. IsRequest(accepting[q]) /\ Reviewed(accepting[q])
    BY <2>2 DEF WorkspacesInv, Holding
  <2>4. IsRequest(a) /\ (a.at \in Holding => Reviewed(a))
    <3>1. CASE a = NoAccept
      BY <3>1, NoAcceptFields
    <3>2. CASE Applies(accepting[q].patch) /\ a = [accepting[q] EXCEPT !.at = "read", !.read = source.copy]
      <4>1. a = [at |-> "read", digest |-> accepting[q].digest, patch |-> accepting[q].patch, read |-> source.copy]
        BY <2>3, <3>2 DEF IsRequest
      <4> QED BY <2>3, <3>2, <4>1 DEF IsRequest, Reviewed, Applies
    <3> QED BY <2>1, <3>1, <3>2
  <2>5. WorkspacesInv' /\ accepting'[q] = a /\ \A p \in AcceptCalls : p # q => accepting'[p] = accepting[p]
    BY <1>0, <2>1, <2>2, <2>4, RequestMoves
  <2> QED BY <2>2, <2>5 DEF AppliesOnlySo
<1>4. ASSUME NEW q \in AcceptCalls, NEW fs, accept_write(q, fs) PROVE WorkspacesInv' /\ AppliesOnlySo
  <2>1. PICK a : /\ accepting' = [accepting EXCEPT ![q] = a]
                 /\ a = NoAccept \/ a = [accepting[q] EXCEPT !.at = "applied"]
    BY <1>4 DEF accept_write
  <2>2. IsRequest(accepting[q])
    BY DEF WorkspacesInv
  <2>3. IsRequest(a) /\ a.at \notin Holding
    <3>1. CASE a = NoAccept
      BY <3>1, NoAcceptFields
    <3>2. CASE a = [accepting[q] EXCEPT !.at = "applied"]
      <4>1. a = [at |-> "applied", digest |-> accepting[q].digest, patch |-> accepting[q].patch, read |-> accepting[q].read]
        BY <2>2, <3>2 DEF IsRequest
      <4> QED BY <4>1 DEF IsRequest, Holding
    <3> QED BY <2>1, <3>1, <3>2
  <2>4. source' = [commit |-> source'.commit, head |-> source'.head, copy |-> source'.copy] /\ UNCHANGED seen
    <3>1. source' = [commit |-> source.commit, head |-> source.head, copy |-> Applied(q, fs)]
      BY <1>0, <1>4 DEF accept_write
    <3> QED BY <1>4, <3>1 DEF accept_write
  <2>5. WorkspacesInv' /\ accepting'[q] = a /\ \A p \in AcceptCalls : p # q => accepting'[p] = accepting[p]
    BY <2>1, <2>3, <2>4, RequestMoves
  <2> QED BY <1>4, <2>5 DEF AppliesOnlySo
<1>5. ASSUME NEW q \in AcceptCalls, NEW written \in BOOLEAN, accept_record(q, written)
      PROVE  WorkspacesInv' /\ AppliesOnlySo
  <2>1. accepting' = [accepting EXCEPT ![q] = NoAccept] /\ UNCHANGED <<seen, source>> /\ accepting[q].at = "applied"
    BY <1>5 DEF accept_record
  <2>2. WorkspacesInv' /\ accepting'[q] = NoAccept /\ \A p \in AcceptCalls : p # q => accepting'[p] = accepting[p]
    BY <1>0, <2>1, NoAcceptFields, RequestMoves
  <2> QED BY <2>1, <2>2 DEF AppliesOnlySo
<1>6. CASE crash
  <2>1. \A q \in AcceptCalls : accepting'[q] = NoAccept
    BY <1>6 DEF crash
  <2> QED BY <1>0, <1>6, <2>1, NoAcceptFields DEF WorkspacesInv, AppliesOnlySo, crash
<1>7. ASSUME NEW p \in Parts, edit_source(p) PROVE WorkspacesInv' /\ AppliesOnlySo
  <2>1. PICK c : source' = [source EXCEPT !.copy = c]
    BY <1>7 DEF edit_source
  <2>2. source' = [commit |-> source.commit, head |-> source.head, copy |-> c]
    BY <1>0, <2>1
  <2> QED BY <1>7, <2>2, RequestsStay DEF edit_source, AppliesOnlySo
<1>8. CASE commit_source
  <2>1. PICK n, h : source' = [source EXCEPT !.commit = n, !.head = h]
    BY <1>8 DEF commit_source
  <2>2. source' = [commit |-> n, head |-> h, copy |-> source.copy]
    BY <1>0, <2>1
  <2> QED BY <1>8, <2>2, RequestsStay DEF commit_source, AppliesOnlySo
<1>9. ASSUME NEW w \in Writers,
             \/ \E has \in SUBSET Artifacts : create_workspace(w, has) \/ discard(w, has)
             \/ job_completes(w) \/ \E p \in Parts : edit_workspace(w, p)
      PROVE  WorkspacesInv' /\ AppliesOnlySo
  BY <1>1, <1>9 DEF create_workspace, discard, job_completes, edit_workspace
<1>10. ASSUME NEW ws \in Reviews, changes(ws) PROVE WorkspacesInv' /\ AppliesOnlySo
  BY <1>1, <1>10 DEF changes
<1>11. CASE UNCHANGED workspaceVars
  BY <1>1, <1>11 DEF workspaceVars
<1> QED
  BY <1>1, <1>2, <1>3, <1>a, <1>4, <1>5, <1>6, <1>7, <1>8, <1>9, <1>10, <1>11 DEF WorkspacesNext

-----------------------------------------------------------------------------
\* The hunk of a combined patch for a part that one of its diffs has.
LEMMA CombinedHolds ==
  ASSUME NEW digest, NEW w \in DOMAIN digest, NEW p \in DOMAIN digest[w],
         \A u, v \in DOMAIN digest : u # v => DOMAIN digest[u] \cap DOMAIN digest[v] = {}
  PROVE  p \in DOMAIN Combined(digest) /\ Combined(digest)[p] = digest[w][p]
<1>1. p \in UNION {DOMAIN digest[v] : v \in DOMAIN digest}
  OBVIOUS
<1>2. (CHOOSE v \in DOMAIN digest : p \in DOMAIN digest[v]) = w
  <2>1. \A v \in DOMAIN digest : p \in DOMAIN digest[v] => v = w
    OBVIOUS
  <2> QED BY <2>1
<1> QED BY <1>1, <1>2 DEF Combined

\* AcceptedAsReviewed holds in every run (GitWorkspaceManager._accept, _accept_batch):
\* acceptance writes a diff that was shown to the user, and overwrites nothing else but
\* what is edited in the files of the patch while git apply runs.
THEOREM AcceptanceIsReviewed == WorkspacesSpec => AcceptedAsReviewed
<1> DEFINE Shown(q) ==
      \E digest \in seen : \A p \in Parts :
        /\ accepting'[q].at = "applied" => \A hunk \in Hunks(digest, p) : source'.copy[p] = hunk.new
        /\ source'.copy[p] # source.copy[p] =>
             \/ \E hunk \in Hunks(digest, p) : source.copy[p] = hunk.old /\ source'.copy[p] = hunk.new
             \/ /\ source.copy[p] # accepting[q].read[p]
                /\ \E w \in DOMAIN digest : FileOf[p] \in FilesIn(digest[w])
<1>1. ASSUME WorkspacesInv, [WorkspacesNext]_workspaceVars, NEW q \in AcceptCalls,
             accepting[q].at = "read", accepting'[q].at # "read"
      PROVE  Shown(q)
  <2>0. PICK digest, patch, read : digest = accepting[q].digest /\ patch = accepting[q].patch /\ read = accepting[q].read
    OBVIOUS
  <2>1. /\ digest \in seen /\ patch = Combined(digest)
        /\ \A v, w \in DOMAIN digest : v # w => DOMAIN digest[v] \cap DOMAIN digest[w] = {}
        /\ \A p \in DOMAIN patch : read[p] = patch[p].old
    BY <1>1, <2>0 DEF WorkspacesInv, Reviewed, Holding
  <2>2. CASE accepting'[q].at # "applied" /\ UNCHANGED source
    BY <2>1, <2>2
  <2>3. ASSUME NEW fs, accept_write(q, fs) PROVE Shown(q)
    <3>1. source'.copy = Applied(q, fs)
      <4>1. source = [commit |-> source.commit, head |-> source.head, copy |-> source.copy]
        BY <1>1 DEF WorkspacesInv
      <4> QED BY <2>3, <4>1 DEF accept_write
    <3>2. fs \subseteq FilesIn(patch) /\ (accepting'[q].at = "applied" => fs = FilesIn(patch))
      <4>1. CASE fs = FilesIn(patch)
        BY <4>1
      <4>2. CASE fs # FilesIn(patch)
        <5>1. accepting' = [accepting EXCEPT ![q] = NoAccept]
          BY <2>0, <2>3, <4>2 DEF accept_write
        <5>2. accepting'[q] = NoAccept
          BY <1>1, <5>1 DEF WorkspacesInv
        <5> QED BY <2>0, <2>3, <5>2, NoAcceptFields DEF accept_write
      <4> QED BY <4>1, <4>2
    <3>3. ASSUME NEW p \in DOMAIN patch PROVE \E w \in DOMAIN digest : p \in DOMAIN digest[w]
      BY <2>1 DEF Combined
    <3>4. ASSUME NEW w \in DOMAIN digest, NEW p \in DOMAIN digest[w]
          PROVE  p \in DOMAIN patch /\ patch[p] = digest[w][p]
      BY SMT, <2>1, CombinedHolds
    <3>5. ASSUME NEW p \in Parts
          PROVE  /\ accepting'[q].at = "applied" => \A hunk \in Hunks(digest, p) : source'.copy[p] = hunk.new
                 /\ source'.copy[p] # source.copy[p] =>
                      \/ \E hunk \in Hunks(digest, p) : source.copy[p] = hunk.old /\ source'.copy[p] = hunk.new
                      \/ /\ source.copy[p] # accepting[q].read[p]
                         /\ \E w \in DOMAIN digest : FileOf[p] \in FilesIn(digest[w])
      <4>1. source'.copy[p] = IF FileOf[p] \notin fs THEN source.copy[p]
                              ELSE IF p \in DOMAIN patch THEN patch[p].new ELSE read[p]
        BY <2>0, <3>1 DEF Applied
      <4>2. \A hunk \in Hunks(digest, p) : p \in DOMAIN patch /\ hunk = patch[p]
        BY <3>4 DEF Hunks
      <4>3. p \in DOMAIN patch => FileOf[p] \in FilesIn(patch)
        BY DEF FilesIn
      <4>4. accepting'[q].at = "applied" => \A hunk \in Hunks(digest, p) : source'.copy[p] = hunk.new
        BY <3>2, <4>1, <4>2, <4>3
      <4>5. ASSUME source'.copy[p] # source.copy[p], p \in DOMAIN patch, source.copy[p] = read[p]
            PROVE  \E hunk \in Hunks(digest, p) : source.copy[p] = hunk.old /\ source'.copy[p] = hunk.new
        <5>1. PICK w \in DOMAIN digest : p \in DOMAIN digest[w]
          BY <3>3, <4>5
        <5>2. patch[p] \in Hunks(digest, p)
          BY <3>4, <5>1 DEF Hunks
        <5>3. source.copy[p] = patch[p].old /\ source'.copy[p] = patch[p].new
          BY <2>1, <4>1, <4>5
        <5> QED BY <5>2, <5>3
      <4>6. ASSUME source'.copy[p] # source.copy[p]
            PROVE  \E w \in DOMAIN digest : FileOf[p] \in FilesIn(digest[w])
        <5>1. PICK r \in DOMAIN patch : FileOf[r] = FileOf[p]
          BY <3>2, <4>1, <4>6 DEF FilesIn
        <5>2. PICK w \in DOMAIN digest : r \in DOMAIN digest[w]
          BY <3>3, <5>1
        <5> QED BY <5>1, <5>2 DEF FilesIn
      <4>7. source'.copy[p] # source.copy[p] /\ source.copy[p] = read[p] => p \in DOMAIN patch
        BY <4>1
      <4> QED BY <2>0, <4>4, <4>5, <4>6, <4>7
    <3> QED BY <2>1, <3>5
  <2> QED BY <1>1, <2>2, <2>3, WorkspacesKeep DEF AppliesOnlySo
<1>2. WorkspacesInv /\ [WorkspacesNext]_workspaceVars
      => [\A q \in AcceptCalls : accepting[q].at = "read" /\ accepting'[q].at # "read" => Shown(q)]_workspaceVars
  BY <1>1
<1> QED BY <1>2, WorkspacesStart, WorkspacesKeep, PTL DEF WorkspacesSpec, AcceptedAsReviewed

-----------------------------------------------------------------------------
(***************************************************************************)
(* For any requests, queue bound and cancellations: the session executes   *)
(* one request at a time.  The invariant is about who owns the admission   *)
(* of the session: at most one handler, or the queue's worker, and while   *)
(* it does nobody else is set up or produces.  close forgets the           *)
(* admissions, but from then on nothing new is set up or started.          *)
(***************************************************************************)

\* Where a handler owns the admission, and where the worker does.
Hot == {"admitted", "setup", "started"}
Owner(r) == r \in Chats \cup Directs /\ request[r] \in Hot
Working == worker.at \in {"take", "operation", "report", "abandon"}
Serving(r) == request[r] \in {"setup", "started"}

\* The worker: none, or at one of its places.
IsWorker(w) ==
  /\ w = [at |-> w.at, req |-> w.req]
  /\ w = NoWorker \/ w.at \in {"top", "take", "operation", "report", "abandon"}

BackgroundTypes ==
  /\ setup \in Requests \cup {NoRequest}
  /\ request = [r \in Requests |-> request[r]]
  /\ IsWorker(worker)
  /\ canceller = [at |-> canceller.at, kind |-> canceller.kind, pending |-> canceller.pending]
  /\ queue \in Seq(Messages)
  /\ \A r \in Requests : request[r] = "saved" => r \in Messages
  /\ canceller.kind = "close" => managerClosed

\* Nobody is set up or produces beside another one.
OneExecutes == \A x, y \in producers \cup ({setup} \ {NoRequest}) : x = y

Admission ==
  /\ \A r, s \in Requests : Owner(r) /\ Owner(s) => r = s
  /\ \A r \in Requests : Owner(r) => admitted /\ ~Working /\ producers \subseteq {r}
  /\ Working => admitted /\ worker.req \in Messages /\ producers \subseteq {worker.req}
  /\ \A r \in Chats \cup Messages : Serving(r) => setup = r
  /\ setup # NoRequest => setup \in Chats \cup Messages /\ Serving(setup)
  /\ setup \in Messages => worker.at = "operation" /\ worker.req = setup

BackgroundInv == BackgroundTypes /\ OneExecutes /\ (~managerClosed => Admission)

-----------------------------------------------------------------------------
(* Kinds of steps *)

\* The worker is who it was, as far as it works; an idle one may have started.
SameWork ==
  /\ IsWorker(worker')
  /\ Working' <=> Working
  /\ Working => worker' = worker

\* Nobody new is set up or produces.
Shrinks == producers' \subseteq producers /\ setup' \in {setup, NoRequest}

LEMMA KindsOfRequest ==
  /\ Chats \subseteq Requests /\ Directs \subseteq Requests /\ Messages \subseteq Requests
  /\ \A r \in Requests : r \in Chats \/ r \in Directs \/ r \in Messages
  /\ \A r \in Chats : r \notin Directs /\ r \notin Messages
  /\ \A r \in Directs : r \notin Messages
  /\ \A r \in Requests : r # NoRequest
BY BackgroundConstants DEF Requests

LEMMA QueueWorker ==
  ASSUME BackgroundTypes, NEW a, NEW s, NEW p, NEW q, worker' = start_queue_worker(a, s, p, q, worker)
  PROVE  SameWork
<1> DEFINE top == [at |-> "top", req |-> NoRequest]
<1>1. worker' = worker \/ (worker = NoWorker /\ worker' = top)
  BY DEF start_queue_worker
<1>2. NoWorker.at = "none" /\ top.at = "top" /\ IsWorker(top)
  BY DEF NoWorker, IsWorker
<1>3. CASE worker' = worker
  BY <1>3 DEF SameWork, Working, BackgroundTypes
<1>4. CASE worker = NoWorker /\ worker' = top
  <2>1. ~Working /\ ~Working'
    BY <1>2, <1>4 DEF Working
  <2> QED BY <1>2, <1>4, <2>1 DEF SameWork
<1> QED BY <1>1, <1>3, <1>4

LEMMA ShrinkingKeepsOne == ASSUME OneExecutes, Shrinks PROVE OneExecutes'
BY DEF OneExecutes, Shrinks

\* A step beside the owner of the admission.
LEMMA Aside ==
  ASSUME Admission, SameWork, UNCHANGED <<admitted, setup>>, producers' \subseteq producers,
         \A r \in Requests : request'[r] = request[r] \/ (request[r] \notin Hot /\ request'[r] \notin Hot)
  PROVE  Admission'
<1>1. \A r \in Requests : (Owner(r)' <=> Owner(r)) /\ (Serving(r)' <=> Serving(r))
  BY DEF Owner, Serving, Hot
<1>2. \A r \in Requests : Owner(r)' => admitted' /\ ~Working' /\ producers' \subseteq {r}
  BY <1>1 DEF Admission, SameWork
<1>3. Working' => admitted' /\ worker'.req \in Messages /\ producers' \subseteq {worker'.req}
  BY DEF Admission, SameWork
<1>4. \A r \in Chats \cup Messages : Serving(r)' => setup' = r
  BY <1>1, KindsOfRequest DEF Admission
<1>5. setup' # NoRequest => setup' \in Chats \cup Messages /\ Serving(setup)'
  BY <1>1, KindsOfRequest DEF Admission, Serving
<1>6. setup' \in Messages => worker'.at = "operation" /\ worker'.req = setup'
  BY DEF Admission, SameWork, Working
<1> QED BY <1>1, <1>2, <1>3, <1>4, <1>5, <1>6 DEF Admission

\* The owner r leaves, and the admission is released.
LEMMA OwnerLeaves ==
  ASSUME BackgroundTypes, Admission, NEW r \in Requests, Owner(r), SameWork, producers' \subseteq producers,
         setup' = NoRequest \/ (setup' = setup /\ setup # r),
         \A s \in Requests : s # r => request'[s] = request[s], request'[r] \notin Hot
  PROVE  Admission'
<1>1. setup \in {r, NoRequest}
  BY KindsOfRequest DEF Admission, Owner, Serving, Hot, BackgroundTypes, Working
<1>2. \A s \in Requests : ~Owner(s)'
  BY DEF Admission, Owner
<1>3. ~Working'
  BY DEF Admission, SameWork
<1>4. \A s \in Chats \cup Messages : ~Serving(s)'
  BY <1>1, KindsOfRequest DEF Admission, Serving, Hot
<1>5. setup' = NoRequest
  BY <1>1
<1> QED BY <1>2, <1>3, <1>4, <1>5, KindsOfRequest DEF Admission

\* The setup of a message is over; its worker goes on.
LEMMA MessageSetUp ==
  ASSUME BackgroundTypes, Admission, NEW m \in Messages, setup = m, setup' = NoRequest,
         UNCHANGED <<admitted, worker>>, producers' \subseteq producers,
         \A s \in Requests : s # m => request'[s] = request[s], request'[m] \notin Hot
  PROVE  Admission'
<1>1. m \in Requests /\ \A s \in Requests : Owner(s)' <=> Owner(s)
  BY KindsOfRequest DEF Owner
<1>2. \A s \in Chats \cup Messages : ~Serving(s)'
  BY <1>1, KindsOfRequest DEF Admission, Serving, Hot
<1>3. Working' <=> Working
  BY DEF Working
<1> QED BY <1>1, <1>2, <1>3, KindsOfRequest DEF Admission

-----------------------------------------------------------------------------
(* The types, action by action *)

\* What a change of one request's place does.
LEMMA Places ==
  ASSUME BackgroundTypes, NEW r \in Requests, NEW x, request' = [request EXCEPT ![r] = x]
  PROVE  /\ request' = [s \in Requests |-> request'[s]] /\ request'[r] = x
         /\ \A s \in Requests : s # r => request'[s] = request[s]
BY SMT DEF BackgroundTypes

\* ... of the worker's.
LEMMA WorkerPlaces ==
  ASSUME BackgroundTypes, NEW x \in {"operation", "report", "abandon"}, worker' = [worker EXCEPT !.at = x]
  PROVE  worker' = [at |-> x, req |-> worker.req] /\ IsWorker(worker')
         /\ worker'.at = x /\ worker'.req = worker.req
<1>1. worker' = [at |-> x, req |-> worker.req]
  BY DEF BackgroundTypes, IsWorker
<1> QED BY <1>1 DEF IsWorker

\* The setup of r is over.
LEMMA SetupEnds ==
  ASSUME BackgroundInv, NEW r \in Requests, NEW x \in {"over", "cancelled"}, NEW prod,
         prod \subseteq producers, SetupOver(r, x, prod), producers' = prod, ~managerClosed => setup = r
  PROVE  /\ request' = [s \in Requests |-> request'[s]] /\ setup' = NoRequest /\ SameWork
         /\ \A s \in Requests : request'[s] = "saved" => request[s] = "saved" \/ s \in Messages
         /\ OneExecutes'
         /\ ~managerClosed => Admission'
<1>0. BackgroundTypes /\ OneExecutes
  BY DEF BackgroundInv
<1>1. setup' = NoRequest /\ request' = [request EXCEPT ![r] = x]
  BY DEF SetupOver
<1>2. /\ request' = [s \in Requests |-> request'[s]] /\ request'[r] = x
      /\ \A s \in Requests : s # r => request'[s] = request[s]
  BY <1>0, <1>1, Places
<1>3. SameWork
  <2>1. CASE r \in Chats
    BY <1>0, <2>1, QueueWorker DEF SetupOver, release_session
  <2>2. CASE r \notin Chats
    BY <1>0, <2>2 DEF SetupOver, SameWork, Working, BackgroundTypes
  <2> QED BY <2>1, <2>2
<1>4. OneExecutes'
  BY <1>0, <1>1, ShrinkingKeepsOne DEF Shrinks
<1>5. ASSUME ~managerClosed PROVE Admission'
  <2>1. Admission /\ setup = r /\ Serving(r) /\ r \in Chats \cup Messages
    BY <1>5, KindsOfRequest DEF BackgroundInv, Admission
  <2>2. CASE r \in Chats
    BY <1>0, <1>1, <1>2, <1>3, <2>1, <2>2, OwnerLeaves DEF Owner, Serving, Hot
  <2>3. CASE r \in Messages
    <3>1. UNCHANGED <<admitted, worker>>
      BY <2>3, KindsOfRequest DEF SetupOver
    <3> QED BY <1>0, <1>1, <1>2, <2>1, <2>3, <3>1, MessageSetUp DEF Hot
  <2> QED BY <2>1, <2>2, <2>3
<1> QED BY <1>1, <1>2, <1>3, <1>4, <1>5

LEMMA BackgroundStarts == BackgroundInit => BackgroundInv
<1> SUFFICES ASSUME BackgroundInit PROVE BackgroundInv
  OBVIOUS
<1>1. \A r \in Requests : request[r] = "new"
  BY DEF BackgroundInit
<1>2. worker.at = "none" /\ canceller.kind = "none"
  BY DEF BackgroundInit, NoWorker, NoCanceller
<1>3. BackgroundTypes
  <2>1. queue \in Seq(Messages)
    BY SMT DEF BackgroundInit
  <2>2. IsWorker(worker)
        /\ canceller = [at |-> canceller.at, kind |-> canceller.kind, pending |-> canceller.pending]
    BY DEF BackgroundInit, NoWorker, NoCanceller, IsWorker
  <2> QED BY <1>1, <1>2, <2>1, <2>2 DEF BackgroundTypes, BackgroundInit
<1>4. OneExecutes
  BY DEF OneExecutes, BackgroundInit
<1>5. Admission
  BY <1>1, <1>2, KindsOfRequest DEF Admission, Owner, Serving, Working, Hot, BackgroundInit
<1> QED BY <1>3, <1>4, <1>5 DEF BackgroundInv

\* Every step preserves the invariant.
LEMMA BackgroundKeeps == BackgroundInv /\ [BackgroundNext]_backgroundVars => BackgroundInv'
<1> SUFFICES ASSUME BackgroundInv, [BackgroundNext]_backgroundVars PROVE BackgroundInv'
  OBVIOUS
<1>0. BackgroundTypes /\ OneExecutes
  BY DEF BackgroundInv
<1>w. SameWork \/ worker' # worker
  BY <1>0 DEF SameWork, Working, BackgroundTypes
\* The requests, the worker and the canceller keep their form in most steps.
<1>t. ASSUME request' = [r \in Requests |-> request'[r]],
             \A r \in Requests : request'[r] = "saved" => request[r] = "saved" \/ r \in Messages,
             IsWorker(worker'),
             setup' \in Requests \cup {NoRequest}, queue' \in Seq(Messages),
             UNCHANGED canceller, UNCHANGED managerClosed
      PROVE  BackgroundTypes'
  BY <1>0, <1>t DEF BackgroundTypes
<1>1. ASSUME NEW r \in Requests, reserve_session(r) PROVE BackgroundInv'
  <2>1. PICK x : request' = [request EXCEPT ![r] = x] /\ x \in {"over", "admitted"}
    BY <1>1 DEF reserve_session
  <2>2. UNCHANGED <<setup, producers, queue, worker, canceller, managerClosed>>
    BY <1>1 DEF reserve_session
  <2>3. /\ request' = [s \in Requests |-> request'[s]] /\ request'[r] = x
        /\ \A s \in Requests : s # r => request'[s] = request[s]
    BY <1>0, <2>1, Places
  <2>4. BackgroundTypes'
    BY <1>0, <1>t, <2>1, <2>2, <2>3 DEF BackgroundTypes
  <2>5. OneExecutes'
    BY <1>0, <2>2, ShrinkingKeepsOne DEF Shrinks
  <2>6. ASSUME ~managerClosed PROVE Admission'
    <3>0. Admission /\ SameWork
      BY <1>w, <2>2, <2>6 DEF BackgroundInv
    <3>1. CASE session_busy
      <4>1. request' = [request EXCEPT ![r] = "over"] /\ UNCHANGED admitted /\ request[r] = "new"
        BY <1>1, <3>1 DEF reserve_session
      <4>2. request'[r] = "over"
        BY <1>0, <4>1, Places
      <4> QED BY <2>2, <2>3, <3>0, <4>1, <4>2, Aside DEF Hot
    <3>2. CASE ~session_busy
      <4>1. /\ request' = [request EXCEPT ![r] = "admitted"] /\ admitted' = TRUE
            /\ r \in Chats \cup Directs /\ ~admitted /\ setup = NoRequest /\ producers = {}
        BY <1>1, <3>2 DEF reserve_session, session_busy, active_session
      <4>2. request'[r] = "admitted"
        BY <1>0, <4>1, Places
      <4>3. ~Working' /\ \A s \in Requests : s # r => ~Owner(s)'
        BY <2>2, <2>3, <3>0, <4>1 DEF Admission, Owner, Working
      <4>4. \A s \in Chats \cup Messages : ~Serving(s)'
        BY <2>3, <3>0, <4>1, <4>2, KindsOfRequest DEF Admission, Serving
      <4> QED BY <2>2, <4>1, <4>3, <4>4, KindsOfRequest DEF Admission
    <3> QED BY <3>1, <3>2
  <2> QED BY <2>2, <2>4, <2>5, <2>6 DEF BackgroundInv
<1>2. ASSUME NEW r \in Requests, NEW yes \in BOOLEAN, run_setup(r, yes) PROVE BackgroundInv'
  <2>0. UNCHANGED <<producers, queue, canceller, managerClosed>> /\ r \in Chats /\ request[r] = "admitted"
    BY <1>2 DEF run_setup
  <2>1. CASE ~yes \/ Refusing
    <3>1. /\ worker' = start_queue_worker(FALSE, setup, producers, queue, worker)
          /\ request' = [request EXCEPT ![r] = "over"] /\ UNCHANGED setup
      BY <1>2, <2>1 DEF run_setup, release_session
    <3>2. /\ request' = [s \in Requests |-> request'[s]] /\ request'[r] = "over"
          /\ \A s \in Requests : s # r => request'[s] = request[s]
      BY <1>0, <3>1, Places
    <3>3. SameWork
      BY <1>0, <3>1, QueueWorker
    <3>4. BackgroundTypes'
      BY <1>0, <1>t, <2>0, <3>1, <3>2, <3>3 DEF BackgroundTypes, SameWork
    <3>5. OneExecutes'
      BY <1>0, <2>0, <3>1, ShrinkingKeepsOne DEF Shrinks
    <3>6. ASSUME ~managerClosed PROVE Admission'
      <4>1. Admission /\ Owner(r) /\ setup # r
        BY <2>0, <3>6, KindsOfRequest DEF BackgroundInv, Owner, Hot, Admission, Serving
      <4> QED BY <1>0, <2>0, <3>1, <3>2, <3>3, <4>1, OwnerLeaves DEF Hot
    <3> QED BY <2>0, <3>4, <3>5, <3>6 DEF BackgroundInv
  <2>2. CASE ~(~yes \/ Refusing)
    <3>1. ~managerClosed /\ Admission /\ Owner(r)
      BY <2>0, <2>2 DEF Refusing, BackgroundInv, Owner, Hot
    <3>2. setup = NoRequest
      BY <1>0, <2>0, <3>1, KindsOfRequest DEF Admission, Owner, Serving, Hot, BackgroundTypes, Working
    <3>3. setup' = r /\ request' = [request EXCEPT ![r] = "setup"] /\ UNCHANGED <<admitted, worker>>
      BY <1>2, <2>2, <3>2 DEF run_setup
    <3>4. /\ request' = [s \in Requests |-> request'[s]] /\ request'[r] = "setup"
          /\ \A s \in Requests : s # r => request'[s] = request[s]
      BY <1>0, <3>3, Places
    <3>5. BackgroundTypes'
      BY <1>0, <1>t, <2>0, <3>3, <3>4 DEF BackgroundTypes
    <3>6. producers \subseteq {r} /\ ~Working /\ admitted
      BY <3>1 DEF Admission
    <3>7. OneExecutes'
      BY <2>0, <3>3, <3>6 DEF OneExecutes
    <3>8. \A s \in Requests : Owner(s)' <=> s = r
      BY <2>0, <3>1, <3>4 DEF Admission, Owner, Hot
    <3>9. \A s \in Chats \cup Messages : Serving(s)' => s = r
      BY <3>1, <3>2, <3>4, KindsOfRequest DEF Admission, Serving
    <3>10. Admission'
      BY <2>0, <3>3, <3>4, <3>6, <3>8, <3>9, KindsOfRequest DEF Admission, Working, Serving
    <3> QED BY <3>5, <3>7, <3>10 DEF BackgroundInv
  <2> QED BY <2>1, <2>2
<1>3. ASSUME NEW r \in Requests, SetupFails(r) PROVE BackgroundInv'
  <2>1. UNCHANGED <<producers, queue, canceller, managerClosed>> /\ setup = r /\ SetupOver(r, "over", producers)
    BY <1>3 DEF SetupFails
  <2>2. BackgroundTypes' /\ OneExecutes' /\ (~managerClosed => Admission')
    BY <1>0, <1>t, <2>1, SetupEnds DEF BackgroundTypes, SameWork
  <2> QED BY <2>1, <2>2 DEF BackgroundInv
<1>4. ASSUME NEW r \in Requests, start(r) PROVE BackgroundInv'
  <2>0. UNCHANGED <<queue, canceller, managerClosed>>
        /\ ((setup = r /\ request[r] = "setup") \/ (r \in Directs /\ request[r] = "admitted"))
    BY <1>4 DEF start
  <2>1. CASE Refusing /\ r \in Directs
    <3>1. /\ worker' = start_queue_worker(FALSE, setup, producers, queue, worker)
          /\ request' = [request EXCEPT ![r] = "over"] /\ UNCHANGED <<producers, setup>>
      BY <1>4, <2>1 DEF start, release_session
    <3>2. /\ request' = [s \in Requests |-> request'[s]] /\ request'[r] = "over"
          /\ \A s \in Requests : s # r => request'[s] = request[s]
      BY <1>0, <3>1, Places
    <3>3. SameWork
      BY <1>0, <3>1, QueueWorker
    <3>4. BackgroundTypes'
      BY <1>0, <1>t, <2>0, <3>1, <3>2, <3>3 DEF BackgroundTypes, SameWork
    <3>5. OneExecutes'
      BY <1>0, <3>1, ShrinkingKeepsOne DEF Shrinks
    <3>6. ASSUME ~managerClosed PROVE Admission'
      <4>1. Admission /\ Owner(r) /\ setup # r
        BY <2>0, <2>1, <3>6, KindsOfRequest DEF BackgroundInv, Owner, Hot, Admission
      <4> QED BY <1>0, <3>1, <3>2, <3>3, <4>1, OwnerLeaves DEF Hot
    <3> QED BY <2>0, <3>4, <3>5, <3>6 DEF BackgroundInv
  <2>2. CASE Refusing /\ r \notin Directs
    <3>1. SetupOver(r, "over", producers) /\ UNCHANGED producers /\ setup = r
      BY <1>4, <2>0, <2>2 DEF start
    <3>2. BackgroundTypes' /\ OneExecutes' /\ (~managerClosed => Admission')
      BY <1>0, <1>t, <2>0, <3>1, SetupEnds DEF BackgroundTypes, SameWork
    <3> QED BY <2>0, <3>2 DEF BackgroundInv
  <2>3. CASE ~Refusing
    <3>1. /\ producers' = producers \cup {r} /\ request' = [request EXCEPT ![r] = "started"]
          /\ UNCHANGED <<admitted, worker, setup>> /\ ~managerClosed /\ Admission
      BY <1>4, <2>3 DEF start, Refusing, BackgroundInv
    <3>2. /\ request' = [s \in Requests |-> request'[s]] /\ request'[r] = "started"
          /\ \A s \in Requests : s # r => request'[s] = request[s]
      BY <1>0, <3>1, Places
    <3>3. BackgroundTypes'
      BY <1>0, <1>t, <2>0, <3>1, <3>2 DEF BackgroundTypes
    <3>4. \A s \in Requests : (Owner(s)' <=> Owner(s)) /\ (s \notin Directs => (Serving(s)' <=> Serving(s)))
      BY <2>0, <3>2, KindsOfRequest DEF Owner, Hot, Serving
    <3>5. ((r \in Directs \/ r \in Chats) /\ Owner(r)) \/ (r \in Messages /\ Working /\ worker.req = r)
      BY <2>0, <3>1, KindsOfRequest DEF Owner, Hot, Admission, Working
    <3>6. producers' \subseteq {r} /\ setup \in {r, NoRequest}
      BY <1>0, <2>0, <3>1, <3>5, KindsOfRequest DEF Admission, Owner, Serving, Hot, BackgroundTypes, Working
    <3>7. OneExecutes'
      BY <3>1, <3>6 DEF OneExecutes
    <3>8. Working' <=> Working
      BY <3>1 DEF Working
    <3>9. \A s \in Requests : Owner(s)' => admitted' /\ ~Working' /\ producers' \subseteq {s}
      BY <3>1, <3>4, <3>5, <3>6, <3>8 DEF Admission
    <3>10. Working' => admitted' /\ worker'.req \in Messages /\ producers' \subseteq {worker'.req}
      BY <3>1, <3>5, <3>6, <3>8 DEF Admission
    <3>11. setup' # NoRequest => setup' \in Chats \cup Messages /\ Serving(setup)'
      BY <3>1, <3>2, <3>6 DEF Admission, Serving
    <3>12. Admission'
      BY <3>1, <3>4, <3>9, <3>10, <3>11, KindsOfRequest DEF Admission
    <3> QED BY <3>3, <3>7, <3>12 DEF BackgroundInv
  <2> QED BY <2>1, <2>2, <2>3
<1>5. ASSUME NEW r \in Requests, NEW late \in BOOLEAN, wait_started(r, late) PROVE BackgroundInv'
  <2> DEFINE prod == IF late THEN producers \ {r} ELSE producers
  <2>0. /\ UNCHANGED <<queue, canceller, managerClosed>> /\ request[r] = "started"
        /\ producers' = prod /\ prod \subseteq producers
    BY <1>5 DEF wait_started
  <2>1. CASE r \in Directs
    <3>1. /\ worker' = start_queue_worker(FALSE, setup, prod, queue, worker)
          /\ request' = [request EXCEPT ![r] = "over"] /\ UNCHANGED setup
      BY <1>5, <2>1 DEF wait_started, release_session
    <3>2. /\ request' = [s \in Requests |-> request'[s]] /\ request'[r] = "over"
          /\ \A s \in Requests : s # r => request'[s] = request[s]
      BY <1>0, <3>1, Places
    <3>3. SameWork
      BY <1>0, <3>1, QueueWorker
    <3>4. BackgroundTypes'
      BY <1>0, <1>t, <2>0, <3>1, <3>2, <3>3 DEF BackgroundTypes, SameWork
    <3>5. OneExecutes'
      BY <1>0, <2>0, <3>1, ShrinkingKeepsOne DEF Shrinks
    <3>6. ASSUME ~managerClosed PROVE Admission'
      <4>1. Admission /\ Owner(r) /\ setup # r
        BY <2>0, <2>1, <3>6, KindsOfRequest DEF BackgroundInv, Owner, Hot, Admission
      <4> QED BY <1>0, <2>0, <3>1, <3>2, <3>3, <4>1, OwnerLeaves DEF Hot
    <3> QED BY <2>0, <3>4, <3>5, <3>6 DEF BackgroundInv
  <2>2. CASE r \notin Directs
    <3>1. SetupOver(r, "over", prod)
      BY <1>5, <2>2 DEF wait_started
    <3>2. ~managerClosed => setup = r
      BY <2>0, <2>2, KindsOfRequest DEF BackgroundInv, Admission, Serving
    <3> HIDE DEF prod
    <3>3. BackgroundTypes' /\ OneExecutes' /\ (~managerClosed => Admission')
      BY <1>0, <1>t, <2>0, <3>1, <3>2, SetupEnds DEF BackgroundTypes, SameWork
    <3> QED BY <2>0, <3>3 DEF BackgroundInv
  <2> QED BY <2>1, <2>2
\* A producer ends.
<1>6. ASSUME producers' \subseteq producers, UNCHANGED <<admitted, setup, queue, request, canceller, managerClosed>>,
             NEW p, worker' = start_queue_worker(admitted, setup, p, queue, worker)
      PROVE  BackgroundInv'
  <2>1. SameWork
    BY <1>0, <1>6, QueueWorker
  <2>2. BackgroundTypes'
    BY <1>0, <1>t, <1>6, <2>1 DEF BackgroundTypes, SameWork
  <2>3. OneExecutes'
    BY <1>0, <1>6, ShrinkingKeepsOne DEF Shrinks
  <2>4. ~managerClosed => Admission'
    BY <1>6, <2>1, Aside DEF BackgroundInv
  <2> QED BY <1>6, <2>2, <2>3, <2>4 DEF BackgroundInv
<1>7. ASSUME NEW r \in Requests, NEW end \in Ends, produce(r, end) PROVE BackgroundInv'
  <2>1. producers' \subseteq producers
    BY <1>7 DEF produce
  <2> QED BY <1>6, <1>7, <2>1 DEF produce
<1>8. ASSUME NEW r \in Requests, cancel(r) PROVE BackgroundInv'
  <2>1. CASE r \in producers
    <3>1. producers' \subseteq producers
      BY <1>8, <2>1 DEF cancel
    <3> QED BY <1>6, <1>8, <2>1, <3>1 DEF cancel
  <2>2. CASE r \notin producers
    <3>1. /\ SetupOver(r, "cancelled", producers) /\ UNCHANGED <<producers, queue, canceller, managerClosed>>
          /\ setup = r
      BY <1>8, <2>2 DEF cancel
    <3>2. BackgroundTypes' /\ OneExecutes' /\ (~managerClosed => Admission')
      BY <1>0, <1>t, <3>1, SetupEnds DEF BackgroundTypes, SameWork
    <3> QED BY <3>1, <3>2 DEF BackgroundInv
  <2> QED BY <2>1, <2>2
<1>9. ASSUME NEW m \in Requests, queue_message(m) PROVE BackgroundInv'
  <2>1. PICK x : request' = [request EXCEPT ![m] = x] /\ x \in {"over", "saved"}
    BY <1>9 DEF queue_message
  <2>2. /\ UNCHANGED <<admitted, setup, producers, queue, worker, canceller, managerClosed>>
        /\ m \in Messages /\ request[m] = "new"
    BY <1>9 DEF queue_message
  <2>3. /\ request' = [s \in Requests |-> request'[s]] /\ request'[m] = x
        /\ \A s \in Requests : s # m => request'[s] = request[s]
    BY <1>0, <2>1, Places
  <2>4. BackgroundTypes'
    BY <1>0, <1>t, <2>2, <2>3 DEF BackgroundTypes
  <2>5. OneExecutes'
    BY <1>0, <2>2, ShrinkingKeepsOne DEF Shrinks
  <2>6. ~managerClosed => Admission'
    <3>1. SameWork
      BY <1>w, <2>2
    <3> QED BY <2>1, <2>2, <2>3, <3>1, Aside DEF Hot, BackgroundInv
  <2> QED BY <2>2, <2>4, <2>5, <2>6 DEF BackgroundInv
<1>10. ASSUME NEW m \in Requests, enqueue(m) PROVE BackgroundInv'
  <2>1. PICK x : request' = [request EXCEPT ![m] = x] /\ x \in {"over", "queued"}
    BY <1>10 DEF enqueue
  <2>2. /\ UNCHANGED <<admitted, setup, producers, canceller, managerClosed>>
        /\ m \in Messages /\ request[m] = "saved"
    BY <1>0, <1>10 DEF enqueue, BackgroundTypes
  <2>3. /\ request' = [s \in Requests |-> request'[s]] /\ request'[m] = x
        /\ \A s \in Requests : s # m => request'[s] = request[s]
    BY <1>0, <2>1, Places
  <2>4. SameWork
    <3>1. UNCHANGED worker \/ worker' = start_queue_worker(admitted, setup, producers, Append(queue, m), worker)
      BY <1>10 DEF enqueue
    <3> QED BY <1>0, <1>w, <3>1, QueueWorker
  <2>5. queue' \in Seq(Messages)
    <3>1. queue' = queue \/ queue' = Append(queue, m)
      BY <1>10 DEF enqueue
    <3>2. queue \in Seq(Messages) /\ m \in Messages
      BY <1>0, <2>2 DEF BackgroundTypes
    <3> QED BY SMT, <3>1, <3>2
  <2>6. BackgroundTypes'
    BY <1>0, <1>t, <2>1, <2>2, <2>3, <2>4, <2>5 DEF BackgroundTypes, SameWork
  <2>7. OneExecutes'
    BY <1>0, <2>2, ShrinkingKeepsOne DEF Shrinks
  <2>8. ~managerClosed => Admission'
    BY <2>1, <2>2, <2>3, <2>4, Aside DEF Hot, BackgroundInv
  <2> QED BY <2>2, <2>6, <2>7, <2>8 DEF BackgroundInv
\* The worker ends; it may start again.
<1>x. ASSUME NEW a, NEW set, NEW prod, NEW q, worker' = start_queue_worker(a, set, prod, q, NoWorker)
      PROVE  IsWorker(worker') /\ worker'.at \in {"none", "top"} /\ ~Working'
  <2>1. worker' = NoWorker \/ worker' = [at |-> "top", req |-> NoRequest]
    BY <1>x DEF start_queue_worker
  <2>2. IsWorker(worker') /\ worker'.at \in {"none", "top"}
    <3>1. CASE worker' = NoWorker
      BY <3>1 DEF NoWorker, IsWorker
    <3>2. CASE worker' = [at |-> "top", req |-> NoRequest]
      BY <3>2 DEF IsWorker
    <3> QED BY <2>1, <3>1, <3>2
  <2> QED BY <2>2 DEF Working
<1>11. CASE drain_queue
  <2>0. UNCHANGED <<setup, producers, request, canceller, managerClosed>> /\ worker.at = "top"
    BY <1>11 DEF drain_queue
  <2>1. OneExecutes'
    BY <1>0, <2>0, ShrinkingKeepsOne DEF Shrinks
  <2>2. CASE queue = <<>> \/ Refusing \/ active_session \/ admitted
    <3>1. /\ admitted' = admitted /\ UNCHANGED queue
          /\ worker' = start_queue_worker(admitted, setup, producers, queue, NoWorker)
      BY <1>11, <2>2 DEF drain_queue, WorkerExits
    <3>2. IsWorker(worker') /\ ~Working'
      BY <1>x, <3>1
    <3>3. SameWork
      BY <2>0, <3>2 DEF SameWork, Working
    <3>4. BackgroundTypes'
      BY <1>0, <1>t, <2>0, <3>1, <3>2 DEF BackgroundTypes
    <3>5. ~managerClosed => Admission'
      BY <2>0, <3>1, <3>3, Aside DEF BackgroundInv
    <3> QED BY <2>0, <2>1, <3>4, <3>5 DEF BackgroundInv
  <2>3. CASE ~(queue = <<>> \/ Refusing \/ active_session \/ admitted)
    <3>1. /\ admitted' = TRUE /\ queue' = Tail(queue) /\ worker' = [at |-> "take", req |-> Head(queue)]
          /\ queue # <<>> /\ ~managerClosed /\ ~admitted /\ setup = NoRequest /\ producers = {} /\ Admission
      BY <1>11, <2>3 DEF drain_queue, Refusing, active_session, BackgroundInv
    <3>2. queue' \in Seq(Messages) /\ Head(queue) \in Messages
      <4>1. queue \in Seq(Messages)
        BY <1>0 DEF BackgroundTypes
      <4> QED BY SMT, <3>1, <4>1
    <3>3. IsWorker(worker') /\ worker'.at = "take" /\ worker'.req = Head(queue)
      BY <3>1 DEF IsWorker
    <3>4. BackgroundTypes'
      BY <1>0, <1>t, <2>0, <3>2, <3>3 DEF BackgroundTypes
    <3>5. (\A s \in Requests : ~Owner(s)') /\ \A s \in Chats \cup Messages : ~Serving(s)'
      BY <2>0, <3>1, KindsOfRequest DEF Admission, Owner, Serving
    <3>6. Admission'
      BY <2>0, <3>1, <3>2, <3>3, <3>5, KindsOfRequest DEF Admission
    <3> QED BY <2>1, <3>4, <3>6 DEF BackgroundInv
  <2> QED BY <2>2, <2>3
<1>12. CASE BeginOperation
  <2>0. UNCHANGED <<admitted, producers, queue, canceller, managerClosed>> /\ worker.at = "take"
    BY <1>12 DEF BeginOperation
  <2>1. CASE Refusing \/ setup # NoRequest
    <3>1. worker' = [worker EXCEPT !.at = "report"] /\ UNCHANGED <<setup, request>>
      BY <1>12, <2>1 DEF BeginOperation
    <3>2. IsWorker(worker') /\ worker'.at = "report" /\ worker'.req = worker.req
      BY <1>0, <3>1, WorkerPlaces
    <3>3. BackgroundTypes'
      BY <1>0, <1>t, <2>0, <3>1, <3>2 DEF BackgroundTypes
    <3>4. OneExecutes'
      BY <1>0, <2>0, <3>1, ShrinkingKeepsOne DEF Shrinks
    <3>5. ASSUME ~managerClosed PROVE Admission'
      <4>1. Working /\ Working' /\ Admission /\ setup \notin Messages
        BY <2>0, <3>2, <3>5 DEF Working, BackgroundInv, Admission
      <4> QED BY <2>0, <3>1, <3>2, <4>1 DEF Admission, Owner, Serving
    <3> QED BY <2>0, <3>3, <3>4, <3>5 DEF BackgroundInv
  <2>2. CASE ~(Refusing \/ setup # NoRequest)
    <3> DEFINE m == worker.req
    <3>1. /\ setup' = m /\ request' = [request EXCEPT ![m] = "setup"] /\ worker' = [worker EXCEPT !.at = "operation"]
          /\ setup = NoRequest /\ ~managerClosed /\ Admission
      BY <1>12, <2>2 DEF BeginOperation, Refusing, BackgroundInv
    <3>2. Working /\ m \in Messages /\ m \in Requests /\ producers \subseteq {m} /\ admitted
      BY <2>0, <3>1, KindsOfRequest DEF Working, Admission
    <3>3. IsWorker(worker') /\ worker'.at = "operation" /\ worker'.req = m
      BY <1>0, <3>1, WorkerPlaces
    <3>4. /\ request' = [s \in Requests |-> request'[s]] /\ request'[m] = "setup"
          /\ \A s \in Requests : s # m => request'[s] = request[s]
      BY <1>0, <3>1, <3>2, Places
    <3> HIDE DEF m
    <3>5. BackgroundTypes'
      BY <1>0, <1>t, <2>0, <3>1, <3>2, <3>3, <3>4 DEF BackgroundTypes
    <3>6. OneExecutes'
      BY <2>0, <3>1, <3>2 DEF OneExecutes
    <3>7. \A s \in Requests : ~Owner(s)'
      BY <3>1, <3>2, <3>4, KindsOfRequest DEF Admission, Owner
    <3>8. \A s \in Chats \cup Messages : Serving(s)' => s = m
      BY <3>1, <3>4, KindsOfRequest DEF Admission, Serving
    <3>9. setup' = m /\ Serving(setup)'
      BY <3>1, <3>4 DEF Serving
    <3>10. Admission'
      BY <2>0, <3>2, <3>3, <3>7, <3>8, <3>9, KindsOfRequest DEF Admission
    <3> QED BY <3>5, <3>6, <3>10 DEF BackgroundInv
  <2> QED BY <2>1, <2>2
<1>13. CASE EndOperation
  <2>1. PICK x \in {"abandon", "report"} : worker' = [worker EXCEPT !.at = x]
    BY <1>13 DEF EndOperation
  <2>2. /\ UNCHANGED <<admitted, setup, producers, queue, request, canceller, managerClosed>>
        /\ worker.at = "operation" /\ setup # worker.req
    BY <1>13 DEF EndOperation
  <2>3. IsWorker(worker') /\ worker'.at = x /\ worker'.req = worker.req
    BY <1>0, <2>1, WorkerPlaces
  <2>4. BackgroundTypes'
    BY <1>0, <1>t, <2>2, <2>3 DEF BackgroundTypes
  <2>5. OneExecutes'
    BY <1>0, <2>2, ShrinkingKeepsOne DEF Shrinks
  <2>6. ASSUME ~managerClosed PROVE Admission'
    <3>1. Working /\ Working' /\ Admission /\ setup \notin Messages
      BY <2>2, <2>3, <2>6 DEF Working, BackgroundInv, Admission
    <3> QED BY <2>2, <2>3, <3>1 DEF Admission, Owner, Serving
  <2> QED BY <2>2, <2>4, <2>5, <2>6 DEF BackgroundInv
\* The worker gives the admission back.
<1>y. ASSUME UNCHANGED <<setup, producers, queue, request, canceller, managerClosed>>,
             worker.at \in {"report", "abandon"},
             IsWorker(worker'), ~Working'
      PROVE  BackgroundInv'
  <2>1. BackgroundTypes'
    BY <1>0, <1>t, <1>y DEF BackgroundTypes
  <2>2. OneExecutes'
    BY <1>0, <1>y, ShrinkingKeepsOne DEF Shrinks
  <2>3. ASSUME ~managerClosed PROVE Admission'
    <3>1. Working /\ Admission /\ setup \notin Messages
      BY <1>y, <2>3 DEF Working, BackgroundInv, Admission
    <3>2. \A s \in Requests : ~Owner(s)'
      BY <1>y, <3>1 DEF Admission, Owner
    <3> QED BY <1>y, <3>1, <3>2 DEF Admission, Serving
  <2> QED BY <1>y, <2>1, <2>2, <2>3 DEF BackgroundInv
<1>14. CASE ReportOperation
  <2>1. worker' = [at |-> "top", req |-> NoRequest]
    BY <1>14 DEF ReportOperation
  <2>2. IsWorker(worker') /\ ~Working'
    BY <2>1 DEF Working, IsWorker
  <2> QED BY <1>y, <1>14, <2>2 DEF ReportOperation
<1>15. CASE AbandonOperation
  <2>1. worker' = start_queue_worker(FALSE, setup, producers, queue, NoWorker)
    BY <1>15 DEF AbandonOperation, WorkerExits
  <2> QED BY <1>x, <1>y, <1>15, <2>1 DEF AbandonOperation
<1>16. ASSUME NEW kind \in {"session", "revoke"}, cancel_session(kind) PROVE BackgroundInv'
  <2>1. /\ UNCHANGED <<admitted, setup, producers, worker, request, managerClosed>> /\ queue' = <<>>
        /\ canceller' = [at |-> "entries", kind |-> kind, pending |-> Queued]
    BY <1>16 DEF cancel_session
  <2>2. /\ canceller' = [at |-> canceller'.at, kind |-> canceller'.kind, pending |-> canceller'.pending]
        /\ canceller'.kind # "close" /\ queue' \in Seq(Messages)
    <3>1. <<>> \in Seq(Messages)
      BY SMT
    <3> QED BY <2>1, <3>1
  <2>3. BackgroundTypes'
    BY <1>0, <2>1, <2>2 DEF BackgroundTypes
  <2>4. OneExecutes'
    BY <1>0, <2>1, ShrinkingKeepsOne DEF Shrinks
  <2>5. ~managerClosed => Admission'
    BY <1>w, <2>1, Aside DEF BackgroundInv
  <2> QED BY <2>1, <2>3, <2>4, <2>5 DEF BackgroundInv
<1>17. CASE close_manager
  <2>1. /\ managerClosed' = TRUE /\ UNCHANGED queue
        /\ canceller' = [at |-> "entries", kind |-> "close", pending |-> {}]
    BY <1>17 DEF close_manager
  <2>2. canceller' = [at |-> canceller'.at, kind |-> canceller'.kind, pending |-> canceller'.pending]
    BY <2>1
  <2>3. CASE setup = NoRequest
    <3>1. UNCHANGED <<admitted, setup, producers, worker, request>>
      BY <1>17, <2>3 DEF close_manager
    <3>2. BackgroundTypes'
      BY <1>0, <2>1, <2>2, <3>1 DEF BackgroundTypes
    <3>3. OneExecutes'
      BY <1>0, <3>1, ShrinkingKeepsOne DEF Shrinks
    <3> QED BY <2>1, <3>2, <3>3 DEF BackgroundInv
  <2>4. CASE setup # NoRequest
    <3>1. SetupOver(setup, "cancelled", producers \ {setup}) /\ producers' = producers \ {setup}
      BY <1>17, <2>4 DEF close_manager
    <3>2. setup \in Requests
      BY <1>0, <2>4 DEF BackgroundTypes
    <3>3. /\ request' = [s \in Requests |-> request'[s]] /\ setup' = NoRequest /\ SameWork /\ OneExecutes'
          /\ \A s \in Requests : request'[s] = "saved" => request[s] = "saved" \/ s \in Messages
      <4>1. producers \ {setup} \subseteq producers /\ "cancelled" \in {"over", "cancelled"}
        OBVIOUS
      <4> QED BY SMT, <3>1, <3>2, <4>1, SetupEnds
    <3>4. BackgroundTypes'
      BY <1>0, <2>1, <2>2, <3>3 DEF BackgroundTypes, SameWork
    <3> QED BY <2>1, <3>3, <3>4 DEF BackgroundInv
  <2> QED BY <2>3, <2>4
<1>18. CASE CancelExecution
  <2> DEFINE saving == worker.at \in {"report", "abandon"} \/ (worker.at = "operation" /\ setup = worker.req)
             adm == admitted /\ ~saving /\ setup \notin Chats
  <2>1. /\ setup' = NoRequest /\ producers' = {} /\ admitted' = adm /\ UNCHANGED managerClosed
        /\ request' = IF setup = NoRequest THEN request ELSE [request EXCEPT ![setup] = "cancelled"]
        /\ canceller' = [canceller EXCEPT !.at = "join"]
    BY <1>18 DEF CancelExecution
  <2>2. IF (saving \/ worker.at = "top") \/ worker = NoWorker
        THEN worker' = start_queue_worker(adm, NoRequest, {}, queue', NoWorker)
        ELSE worker' = [worker EXCEPT !.at = "abandon"]
    BY <1>18 DEF CancelExecution
  <2>3. canceller' = [at |-> canceller'.at, kind |-> canceller'.kind, pending |-> canceller'.pending]
        /\ canceller'.kind = canceller.kind
    <3>1. canceller' = [at |-> "join", kind |-> canceller.kind, pending |-> canceller.pending]
      BY <1>0, <2>1 DEF BackgroundTypes
    <3> QED BY <3>1
  <2>4. /\ request' = [s \in Requests |-> request'[s]]
        /\ \A s \in Requests : s # setup => request'[s] = request[s]
        /\ setup # NoRequest => request'[setup] = "cancelled"
    <3>1. CASE setup = NoRequest
      BY <1>0, <2>1, <3>1 DEF BackgroundTypes
    <3>2. CASE setup # NoRequest
      BY <1>0, <2>1, <3>2, Places DEF BackgroundTypes
    <3> QED BY <3>1, <3>2
  <2>5. queue' \in Seq(Messages)
    <3>1. queue' = queue \/ queue' = <<>>
      BY <1>18 DEF CancelExecution
    <3>2. queue \in Seq(Messages) /\ <<>> \in Seq(Messages)
      BY SMT, <1>0 DEF BackgroundTypes
    <3> QED BY <3>1, <3>2
  <2>6. IsWorker(worker')
    BY <1>0, <1>x, <2>2, WorkerPlaces
  <2>7. BackgroundTypes'
    BY <1>0, <2>1, <2>3, <2>4, <2>5, <2>6 DEF BackgroundTypes
  <2>8. OneExecutes'
    BY <2>1 DEF OneExecutes
  <2>9. ASSUME ~managerClosed PROVE Admission'
    <3>0. Admission
      BY <2>9 DEF BackgroundInv
    <3>1. \A s \in Chats \cup Messages : ~Serving(s)'
      BY <2>4, <3>0, KindsOfRequest DEF Admission, Serving
    <3>2. \A s \in Requests : Owner(s)' => Owner(s) /\ setup \notin Chats
      BY <2>4, <3>0, KindsOfRequest DEF Admission, Owner, Serving, Hot
    <3>3. Working' => Working /\ ~saving /\ worker'.req = worker.req
      <4>1. CASE (saving \/ worker.at = "top") \/ worker = NoWorker
        BY <1>x, <2>2, <4>1
      <4>2. CASE ~((saving \/ worker.at = "top") \/ worker = NoWorker)
        <5>1. worker'.at = "abandon" /\ worker'.req = worker.req
          BY <1>0, <2>2, <4>2, WorkerPlaces
        <5>2. Working
          BY <1>0, <4>2 DEF BackgroundTypes, IsWorker, Working
        <5> QED BY <4>2, <5>1, <5>2
      <4> QED BY <4>1, <4>2
    <3>4. \A s \in Requests : Owner(s)' => admitted' /\ ~Working'
      <4>1. \A s \in Requests : Owner(s) => admitted /\ ~Working
        BY <3>0 DEF Admission
      <4>2. saving => Working
        BY DEF Working
      <4> HIDE DEF saving
      <4> QED BY <2>1, <3>2, <3>3, <4>1, <4>2
    <3>5. Working' => admitted' /\ worker'.req \in Messages
      <4>1. Working => setup \notin Chats
        BY <3>0, KindsOfRequest DEF Admission, Owner, Serving, Hot
      <4> HIDE DEF saving
      <4> QED BY <2>1, <3>0, <3>3, <4>1 DEF Admission
    <3>6. \A r, s \in Requests : Owner(r)' /\ Owner(s)' => r = s
      BY <3>0, <3>2 DEF Admission
    <3> QED BY <2>1, <3>1, <3>4, <3>5, <3>6, KindsOfRequest DEF Admission
  <2> QED BY <2>1, <2>7, <2>8, <2>9 DEF BackgroundInv
<1>19. CASE CancelDone
  <2>1. /\ UNCHANGED <<setup, producers, queue, worker, request, managerClosed>> /\ canceller' = NoCanceller
        /\ admitted' = (admitted /\ canceller.kind # "close")
    BY <1>19 DEF CancelDone
  <2>2. /\ canceller' = [at |-> canceller'.at, kind |-> canceller'.kind, pending |-> canceller'.pending]
        /\ canceller'.kind # "close"
    BY <2>1 DEF NoCanceller
  <2>3. BackgroundTypes'
    BY <1>0, <2>1, <2>2 DEF BackgroundTypes
  <2>4. OneExecutes'
    BY <1>0, <2>1, ShrinkingKeepsOne DEF Shrinks
  <2>5. ASSUME ~managerClosed PROVE Admission'
    <3>1. canceller.kind # "close" /\ Admission
      BY <1>0, <2>5 DEF BackgroundTypes, BackgroundInv
    <3>2. admitted' <=> admitted
      BY <2>1, <3>1
    <3>3. Working' <=> Working
      BY <2>1 DEF Working
    <3> QED BY <2>1, <3>1, <3>2, <3>3 DEF Admission, Owner, Serving
  <2> QED BY <2>1, <2>3, <2>4, <2>5 DEF BackgroundInv
<1>20. CASE UNCHANGED backgroundVars
  <2>1. UNCHANGED <<admitted, setup, producers, queue, worker, request, canceller, managerClosed>>
    BY <1>20 DEF backgroundVars
  <2>2. BackgroundTypes' /\ OneExecutes'
    BY <1>0, <2>1, ShrinkingKeepsOne DEF BackgroundTypes, Shrinks
  <2>3. ~managerClosed => Admission'
    BY <1>w, <2>1, Aside DEF BackgroundInv
  <2> QED BY <2>1, <2>2, <2>3 DEF BackgroundInv
<1> QED
  BY <1>1, <1>2, <1>3, <1>4, <1>5, <1>7, <1>8, <1>9, <1>10, <1>11, <1>12, <1>13, <1>14, <1>15, <1>16,
     <1>17, <1>18, <1>19, <1>20
  DEF BackgroundNext, SetupStep, StartStep, ProduceStep, QueueStep, CancelStep

-----------------------------------------------------------------------------
\* OneRequestAtATime holds in every run (reserve_session, run_setup, _drain_queue,
\* cancel_session, close): no request is set up or produces while another one does.
THEOREM OneAtATime == BackgroundSpec => []OneRequestAtATime
<1>1. BackgroundInv => OneRequestAtATime
  BY DEF BackgroundInv, OneExecutes, OneRequestAtATime
<1> QED BY <1>1, BackgroundStarts, BackgroundKeeps, PTL DEF BackgroundSpec

=============================================================================

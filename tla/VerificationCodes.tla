------------------------- MODULE VerificationCodes -------------------------
(***************************************************************************)
(* The verification codes of one e-mail address (auth/router.py,           *)
(* repositories/auth.py, auth/models.py): login codes, and recovery codes  *)
(* for an account pending deletion.  A code is reserved in one transaction *)
(* and sent after it; a transaction, which holds the lock of address and   *)
(* purpose, is one action.  Codes of one purpose differ from each other.   *)
(***************************************************************************)
EXTENDS Integers, Sequences, FiniteSetsExt

CONSTANTS MaxSends,      \* MAX_SENDS_PER_DAY
          MaxFailures,   \* MAX_VERIFICATION_FAILURES_PER_CODE
          MaxCodes       \* bound: codes issued for a purpose

ASSUME CodeBounds == MaxFailures \in Nat \ {0}

VARIABLES codes,      \* [Purposes -> sequence of code rows, in creation order]
          pending     \* is the account pending deletion, and recoverable

codeVars == <<codes, pending>>

Purposes == {"login", "deletion_recovery"}

\* A row, and what became of it: stored, in the mail, tokens given for it.
NewCode == [stored |-> TRUE, used |-> FALSE, failures |-> 0, expired |-> FALSE,
            sending |-> TRUE, accepted |-> 0]

Stored(p) == {i \in DOMAIN codes[p] : codes[p][i].stored}

----------------------------------------------------------------------------
count_recent_codes(p) == Cardinality(Stored(p))

\* The reservation of a code, with the mail still to be sent.
issue_code(p) ==
  /\ Len(codes[p]) < MaxCodes
  /\ codes' = [codes EXCEPT ![p] = Append(@, NewCode)]
  /\ UNCHANGED pending

\* Too many codes are 429.
send_code == count_recent_codes("login") < MaxSends /\ issue_code("login")

\* Only for an account that can be recovered; others are told the same.
send_deletion_recovery_code ==
  pending /\ count_recent_codes("deletion_recovery") < MaxSends /\ issue_code("deletion_recovery")

send_verification_code(p, i) ==
  /\ codes[p][i].sending
  /\ codes' = [codes EXCEPT ![p][i].sending = FALSE]
  /\ UNCHANGED pending

\* The provider fails: the reserved code is deleted unless it was used; if
\* that fails too, or the process dies, the code stays.
delete_code_by_id(p, i, deleted) ==
  /\ codes[p][i].sending
  /\ codes' = [codes EXCEPT ![p][i].sending = FALSE,
                            ![p][i].stored = @ /\ (codes[p][i].used \/ ~deleted)]
  /\ UNCHANGED pending

----------------------------------------------------------------------------
\* The newest code that has not expired: the only one that is compared.
latest(p) == Max({0} \cup {i \in Stored(p) : ~codes[p][i].expired})

\* Mutant: used_at is not looked at.
OpenThoughUsed(p) == latest(p) # 0

Open(p) == latest(p) # 0 /\ ~codes[p][latest(p)].used

\* A guess that does not match counts; the last one allowed uses the code up.
Missed(c) == [c EXCEPT !.failures = @ + 1, !.used = (c.failures + 1 >= MaxFailures)]

\* The guess matches: the code is used up, and opens a session if the route gives one.
Matched(c, opens) == [c EXCEPT !.used = TRUE, !.accepted = IF opens THEN @ + 1 ELSE @]

\* The guess (0: no code) against the latest code; opens tells whether the
\* route gives a session for it.
consume_latest_code(p, guess, opens) ==
  /\ Open(p)
  /\ codes' = [codes EXCEPT ![p][latest(p)] =
       IF guess # latest(p) THEN Missed(@) ELSE Matched(@, opens)]
  /\ UNCHANGED pending

\* verify: an account pending deletion raises, and the transaction with the
\* consumed code is rolled back.
verify_login_code(guess) ==
  /\ pending => guess # latest("login")
  /\ consume_latest_code("login", guess, TRUE)

\* verify_deletion_recovery_code: without an account to recover the code is
\* used up for nothing.
verify_recovery_code(guess) == consume_latest_code("deletion_recovery", guess, pending)

----------------------------------------------------------------------------
\* Time: codes of a purpose expire in their order; the cleanup loop deletes them.
expires_at(p, i) ==
  /\ ~codes[p][i].expired /\ \A j \in 1..(i - 1) : codes[p][j].expired
  /\ codes' = [codes EXCEPT ![p][i].expired = TRUE]
  /\ UNCHANGED pending

delete_expired_codes ==
  /\ codes' = [p \in Purposes |->
       [i \in DOMAIN codes[p] |-> [codes[p][i] EXCEPT !.stored = @ /\ ~codes[p][i].expired]]]
  /\ UNCHANGED pending

\* The account's deletion is requested, or can no longer be undone.
PendingPurge == pending' = ~pending /\ UNCHANGED codes

----------------------------------------------------------------------------
CodesInit == codes = [p \in Purposes |-> <<>>] /\ pending = FALSE

CodesNext ==
  \/ send_code \/ send_deletion_recovery_code
  \/ \E p \in Purposes : \E i \in DOMAIN codes[p] :
       \/ send_verification_code(p, i) \/ expires_at(p, i)
       \/ \E deleted \in BOOLEAN : delete_code_by_id(p, i, deleted)
  \/ \E guess \in 0..MaxCodes : verify_login_code(guess) \/ verify_recovery_code(guess)
  \/ delete_expired_codes \/ PendingPurge

CodesSpec == CodesInit /\ [][CodesNext]_codeVars

----------------------------------------------------------------------------
(* Properties *)

CodesTypeOK ==
  \A p \in Purposes : \A i \in DOMAIN codes[p] :
    /\ codes[p][i].failures \in 0..MaxFailures
    /\ codes[p][i].failures = MaxFailures => codes[p][i].used

\* A code opens at most one session, and a code that was guessed wrong as
\* often as is allowed opens none, also while codes are sent, compensated,
\* expired and cleaned up around it (consume_latest_code).
CodeOpensOnce ==
  \A p \in Purposes : \A i \in DOMAIN codes[p] :
    /\ codes[p][i].accepted <= 1
    /\ codes[p][i].failures = MaxFailures => codes[p][i].accepted = 0

=============================================================================

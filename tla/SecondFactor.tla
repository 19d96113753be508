---------------------------- MODULE SecondFactor ----------------------------
(***************************************************************************)
(* The second factor of one account: the row of user_mfa                   *)
(* (internal/store/mfa.go), the handlers that enrol, renew and remove it,  *)
(* and the second step of a sign-in (internal/server/mfa.go), which trades *)
(* a code for a session and charges failures to a token bucket             *)
(* (internal/ratelimit/bucket.go).                                         *)
(*                                                                         *)
(* Handlers read the row, decide, and write the whole row back; sign-ins   *)
(* read it and then change it by a conditional UPDATE.  Secrets and sets   *)
(* of recovery codes are numbered as they are made.  A time-based code is  *)
(* its secret and its 30 second step.  What the session of a sign-in may   *)
(* do, and the user's own row, are in Accounts.                            *)
(***************************************************************************)
EXTENDS Integers, FiniteSets

CONSTANTS
  Attempts,    \* second steps of a sign-in handled at the same time
  Handlers,    \* enrolment handlers running at the same time
  Slots,       \* the codes of one set of recovery codes
  Burst,       \* tokens of a full bucket
  Drift,       \* by how many steps the clocks of clients may be wrong
  MaxNow,      \* bound: the last 30 second step
  MaxSecrets,  \* bound: secrets made
  MaxBatches   \* bound: sets of recovery codes made

ASSUME FactorAssumption ==
  /\ Burst \in Nat \ {0}
  /\ MaxNow \in Nat /\ MaxNow >= 2
  /\ MaxSecrets \in Nat /\ MaxBatches \in Nat
  /\ Drift \subseteq -1..1
  /\ IsFiniteSet(Attempts)

VARIABLES
  row,       \* the row of user_mfa
  now,       \* the current 30 second step
  pc,        \* where each attempt is
  given,     \* the code it was given
  seen,      \* the recovery codes it read
  tokens,    \* the bucket of failed attempts
  hpc,       \* is the handler about to write?
  draft,     \* the row it is going to write
  secrets,   \* secrets made so far
  batches,   \* sets of recovery codes made so far
  confirmed, \* ghost: secrets the owner has entered a code of
  used,      \* ghost: codes accepted so far
  reused,    \* ghost: codes accepted for a sign-in after they were used
  raced,     \* ghost: a write undid the record of a used code
  wrong      \* ghost: failed attempts since tokens were last added

attemptVars == <<pc, given, seen>>
handlerVars == <<hpc, draft, secrets, batches, confirmed>>
bucketVars  == <<tokens, wrong>>
useVars     == <<used, reused>>
vars == <<row, now, attemptVars, handlerVars, bucketVars, useVars, raced>>

-----------------------------------------------------------------------------
Totp(secret, step)    == [kind |-> "totp", of |-> secret, n |-> step]
Recovery(batch, slot) == [kind |-> "recovery", of |-> batch, n |-> slot]
NoCode                == [kind |-> "wrong", of |-> 0, n |-> 0]

TotpCodes     == {Totp(g, s) : g \in 1..MaxSecrets, s \in 1..MaxNow + 1}
Batch(b)      == {Recovery(b, i) : i \in Slots}
RecoveryCodes == UNION {Batch(b) : b \in 1..MaxBatches}
Codes         == TotpCodes \cup RecoveryCodes \cup {NoCode}

\* A secret of 0 stands for "no row".
Row   == [secret : 0..MaxSecrets, on : BOOLEAN, step : 0..MaxNow + 1,
          codes : SUBSET RecoveryCodes]
NoRow == [secret |-> 0, on |-> FALSE, step |-> 0, codes |-> {}]

TypeOK ==
  /\ row \in Row
  /\ now \in 0..MaxNow
  /\ pc \in [Attempts -> {"idle", "read", "consume", "swap", "advance",
                          "granted", "failed"}]
  /\ given \in [Attempts -> Codes]
  /\ seen \in [Attempts -> SUBSET RecoveryCodes]
  /\ tokens \in 0..Burst
  /\ hpc \in [Handlers -> {"idle", "put"}]
  /\ draft \in [Handlers -> Row]
  /\ secrets \in 0..MaxSecrets /\ batches \in 0..MaxBatches
  /\ confirmed \in SUBSET (1..MaxSecrets)
  /\ used \in SUBSET Codes /\ reused \in SUBSET Codes
  /\ raced \in BOOLEAN
  /\ wrong \in Nat

\* The clock is far from zero, the last_step of a new row.
Init ==
  /\ row = NoRow
  /\ now = 2
  /\ pc = [a \in Attempts |-> "idle"]
  /\ given = [a \in Attempts |-> NoCode]
  /\ seen = [a \in Attempts |-> {}]
  /\ tokens = Burst /\ wrong = 0
  /\ hpc = [h \in Handlers |-> "idle"]
  /\ draft = [h \in Handlers |-> NoRow]
  /\ secrets = 0 /\ batches = 0
  /\ confirmed = {} /\ used = {} /\ reused = {}
  /\ raced = FALSE

-----------------------------------------------------------------------------
(* The second step of a sign-in: handleLoginMFA.                           *)

\* What a client can send: a code made so far that may still be valid, or
\* anything else.
Presentable ==
  {Totp(g, now + d) : g \in 1..secrets, d \in Drift}
    \cup {c \in RecoveryCodes : c.of <= batches} \cup {NoCode}

\* An attempt with some code, while Peek finds a token.
Begin(a) ==
  \E c \in Presentable :
    /\ pc[a] = "idle"
    /\ tokens >= 1
    /\ pc' = [pc EXCEPT ![a] = "read"]
    /\ given' = [given EXCEPT ![a] = c]
    /\ UNCHANGED <<row, now, seen, handlerVars, bucketVars, useVars, raced>>

\* checkSecondFactor refuses the code.
Refuse(a) ==
  /\ pc' = [pc EXCEPT ![a] = "failed"]
  /\ given' = [given EXCEPT ![a] = NoCode]
  /\ wrong' = wrong + 1
  /\ UNCHANGED <<row, tokens, useVars, raced>>

\* The code is accepted.
Accept(a) ==
  /\ pc' = [pc EXCEPT ![a] = "granted"]
  /\ given' = [given EXCEPT ![a] = NoCode]
  /\ used' = used \cup {given[a]}
  /\ reused' = reused \cup (used \cap {given[a]})
  /\ UNCHANGED <<tokens, wrong>>

\* VerifyTOTP: a code of this secret, of the current step or of a neighbour.
Verifies(c, secret) ==
  c.kind = "totp" /\ c.of = secret /\ c.n \in (now - 1)..(now + 1)

\* userMFA; an account that is not enrolled, or a wrong code, is refused.
ReadRow(a) ==
  /\ pc[a] = "read"
  /\ \/ /\ row.on /\ given[a].kind = "recovery"
        /\ pc' = [pc EXCEPT ![a] = "consume"]
        /\ UNCHANGED <<row, given, bucketVars, useVars, raced>>
     \/ /\ row.on /\ Verifies(given[a], row.secret)
        /\ pc' = [pc EXCEPT ![a] = "advance"]
        /\ UNCHANGED <<row, given, bucketVars, useVars, raced>>
     \/ /\ ~row.on \/ ~(given[a].kind = "recovery" \/ Verifies(given[a], row.secret))
        /\ Refuse(a)
  /\ UNCHANGED <<now, seen, handlerVars>>

\* The step is compared when the row is read, and stored later.
Advance_Unconditional(a) ==
  /\ pc[a] = "advance"
  /\ IF row.secret # 0
     THEN /\ row' = [row EXCEPT !.step = given[a].n]
          /\ raced' = (raced \/ row.secret # given[a].of)
          /\ Accept(a)
     ELSE Refuse(a)
  /\ UNCHANGED <<now, seen, handlerVars>>

\* AdvanceMFAStep: UPDATE ... WHERE last_step < step, whatever secret the row
\* has by then.
Advance(a) ==
  /\ pc[a] = "advance"
  /\ IF row.secret # 0 /\ row.step < given[a].n
     THEN /\ row' = [row EXCEPT !.step = given[a].n]
          /\ raced' = (raced \/ row.secret # given[a].of)
          /\ Accept(a)
     ELSE Refuse(a)
  /\ UNCHANGED <<now, seen, handlerVars>>

\* ConsumeRecoveryCode reads the codes ...
ReadCodes(a) ==
  /\ pc[a] = "consume"
  /\ IF given[a] \in row.codes
     THEN /\ pc' = [pc EXCEPT ![a] = "swap"]
          /\ seen' = [seen EXCEPT ![a] = row.codes]
          /\ UNCHANGED <<row, given, bucketVars, useVars, raced>>
     ELSE Refuse(a) /\ UNCHANGED seen
  /\ UNCHANGED <<now, handlerVars>>

\* The codes that are left are stored without a look at what is there.
Swap_Blindly(a) ==
  /\ pc[a] = "swap"
  /\ IF row.secret # 0
     THEN /\ row' = [row EXCEPT !.codes = seen[a] \ {given[a]}]
          /\ Accept(a)
          /\ UNCHANGED raced
     ELSE Refuse(a)
  /\ seen' = [seen EXCEPT ![a] = {}]
  /\ UNCHANGED <<now, handlerVars>>

\* ... and stores what is left of them if they are still the same.
Swap(a) ==
  /\ pc[a] = "swap"
  /\ IF row.secret # 0 /\ row.codes = seen[a]
     THEN /\ row' = [row EXCEPT !.codes = @ \ {given[a]}]
          /\ Accept(a)
          /\ UNCHANGED raced
     ELSE Refuse(a)
  /\ seen' = [seen EXCEPT ![a] = {}]
  /\ UNCHANGED <<now, handlerVars>>

\* Any statement may fail, which counts as a wrong code.
DatabaseFails(a) ==
  /\ pc[a] \in {"read", "consume", "swap", "advance"}
  /\ Refuse(a)
  /\ seen' = [seen EXCEPT ![a] = {}]
  /\ UNCHANGED <<now, handlerVars>>

\* The attempt ends.
Leave(a) ==
  /\ pc' = [pc EXCEPT ![a] = "idle"]
  /\ UNCHANGED <<row, now, given, seen, handlerVars, useVars, raced>>

\* Reset: the bucket is forgotten; then the session starts.
Succeed(a) ==
  /\ pc[a] = "granted"
  /\ tokens' = Burst /\ wrong' = 0
  /\ Leave(a)

\* Failures are not charged.
Charge_Nothing(a) ==
  /\ pc[a] = "failed"
  /\ UNCHANGED bucketVars
  /\ Leave(a)

\* Allow takes a token, if there is one.
Charge(a) ==
  /\ pc[a] = "failed"
  /\ tokens' = IF tokens > 0 THEN tokens - 1 ELSE 0
  /\ UNCHANGED wrong
  /\ Leave(a)

-----------------------------------------------------------------------------
(* Enrolment: every handler reads the row first and writes a whole row.    *)

Reads(h, r) ==
  /\ hpc[h] = "idle"
  /\ hpc' = [hpc EXCEPT ![h] = "put"]
  /\ draft' = [draft EXCEPT ![h] = r]
  /\ UNCHANGED <<row, now, attemptVars, bucketVars, useVars, raced>>

\* handleMFASetup: a fresh secret, if the second factor is off or userMFA could
\* not read the row, which counts as off.
Setup(h) ==
  /\ secrets < MaxSecrets
  /\ secrets' = secrets + 1
  /\ Reads(h, [NoRow EXCEPT !.secret = secrets + 1])
  /\ UNCHANGED <<batches, confirmed>>

\* handleMFAEnable: the owner enters a code of the pending secret and gets
\* recovery codes.
Enable(h) ==
  \E d \in Drift :
    /\ row.secret # 0 /\ ~row.on
    /\ batches < MaxBatches
    /\ batches' = batches + 1
    /\ confirmed' = confirmed \cup {row.secret}
    /\ Reads(h, [row EXCEPT !.on = TRUE, !.step = now + d,
                            !.codes = Batch(batches + 1)])
    /\ UNCHANGED secrets

\* handleMFARegenerateCodes: new codes, everything else as it was read.
Regenerate(h) ==
  /\ row.on
  /\ batches < MaxBatches
  /\ batches' = batches + 1
  /\ Reads(h, [row EXCEPT !.codes = Batch(batches + 1)])
  /\ UNCHANGED <<secrets, confirmed>>

\* A row that knows less than was used.
Rewinds(r) == \E c \in used : c.kind = "totp" /\ c.of = r.secret /\ c.n > r.step

Idle(h) ==
  /\ hpc' = [hpc EXCEPT ![h] = "idle"]
  /\ draft' = [draft EXCEPT ![h] = NoRow]

\* The columns of an enabled row are updated, the secret is not among them.
Put_KeepsSecret(h) ==
  /\ hpc[h] = "put"
  /\ row' = IF draft[h].on /\ row.secret # 0
            THEN [draft[h] EXCEPT !.secret = row.secret] ELSE draft[h]
  /\ raced' = (raced \/ Rewinds(row'))
  /\ used' = IF draft[h].on THEN used \cup {Totp(draft[h].secret, draft[h].step)}
                            ELSE used
  /\ Idle(h)
  /\ UNCHANGED <<now, attemptVars, bucketVars, reused, secrets, batches, confirmed>>

\* PutUserMFA inserts the row or replaces all of it.  The code that confirmed
\* the secret is used up.
Put(h) ==
  /\ hpc[h] = "put"
  /\ row' = draft[h]
  /\ raced' = (raced \/ Rewinds(draft[h]))
  /\ used' = IF draft[h].on THEN used \cup {Totp(draft[h].secret, draft[h].step)}
                            ELSE used
  /\ Idle(h)
  /\ UNCHANGED <<now, attemptVars, bucketVars, reused, secrets, batches, confirmed>>

\* PutUserMFA fails.
PutFails(h) ==
  /\ hpc[h] = "put"
  /\ Idle(h)
  /\ UNCHANGED <<row, now, attemptVars, bucketVars, useVars, raced, secrets,
                 batches, confirmed>>

\* handleMFADisable and handleAdminResetMFA: DeleteUserMFA.
Disable ==
  /\ row' = NoRow
  /\ UNCHANGED <<now, attemptVars, handlerVars, bucketVars, useVars, raced>>

-----------------------------------------------------------------------------
\* Time passes.
Tick ==
  /\ now < MaxNow
  /\ now' = now + 1
  /\ UNCHANGED <<row, attemptVars, handlerVars, bucketVars, useVars, raced>>

\* The bucket refills, or is forgotten: evicted from a full table, or collected
\* after ten idle minutes.
Refill ==
  /\ tokens' \in tokens + 1..Burst
  /\ wrong' = 0
  /\ UNCHANGED <<row, now, attemptVars, handlerVars, useVars, raced>>

SignIn(a) ==
  Begin(a) \/ ReadRow(a) \/ Advance(a) \/ ReadCodes(a) \/ Swap(a)
    \/ DatabaseFails(a) \/ Succeed(a) \/ Charge(a)

Enrol(h) == Setup(h) \/ Enable(h) \/ Regenerate(h) \/ Put(h) \/ PutFails(h)

Next ==
  \/ \E a \in Attempts : SignIn(a)
  \/ \E h \in Handlers : Enrol(h)
  \/ Disable \/ Tick \/ Refill

Spec == Init /\ [][Next]_vars

-----------------------------------------------------------------------------
(* Properties.                                                             *)

\* A recovery code signs in once, whatever other sign-ins and whatever
\* renewals of the codes run at the same time (the compare-and-swap of
\* ConsumeRecoveryCode, against whole-row writes of PutUserMFA).
RecoveryCodeOnce == reused \cap RecoveryCodes = {}

\* A time-based code signs in once, and not at all if it was used to confirm
\* the enrolment.  Two races are the exception: a handler wrote back a row it
\* had read before the code was used, or the enrolment was replaced between
\* the check of the code and the UPDATE (AdvanceMFAStep, PutUserMFA).
TotpOnceUnlessRaced == ~raced => reused = {}

\* The second factor is only ever asked for a secret its owner has entered a
\* code of, also when enrolments overlap ("a half-finished setup never locks
\* anyone out", handleMFASetup).
OnlyConfirmedSecrets == row.on => row.secret \in confirmed

\* Attempts that overlap can all see the last token, but beyond that no
\* failure is free: without a refill or a success, at most the allowance and
\* the attempts in progress fail (Peek and Allow in handleLoginMFA).
LockoutHolds == wrong <= Burst + Cardinality(Attempts) - 1

=============================================================================

------------------------- MODULE SecondFactorProofs -------------------------
(***************************************************************************)
(* Proofs about SecondFactor for any number of sign-ins, enrolment         *)
(* handlers, secrets, sets of recovery codes and steps of the clock.       *)
(***************************************************************************)
EXTENDS SecondFactor, FiniteSetTheorems, TLAPS

-----------------------------------------------------------------------------
(* Codes.                                                                  *)

\* What kind of code a code is, is written on it.
LEMMA CodeKinds ==
  /\ \A c \in TotpCodes : /\ c.kind = "totp" /\ c.of \in 1..MaxSecrets
                          /\ c.n \in 1..MaxNow + 1
  /\ \A c \in RecoveryCodes : c.kind = "recovery" /\ c.of \in 1..MaxBatches
  /\ NoCode.kind = "wrong" /\ NoCode.of = 0
BY DEF TotpCodes, RecoveryCodes, Batch, Totp, Recovery, NoCode

\* So a code of a known kind is among the codes of that kind.
LEMMA KindOfCode ==
  ASSUME NEW c \in Codes
  PROVE  /\ c.kind = "totp" => c \in TotpCodes
         /\ c.kind = "recovery" => c \in RecoveryCodes
BY CodeKinds DEF Codes

\* A new set of recovery codes has only codes of its number.
LEMMA BatchCodes ==
  ASSUME NEW b \in 1..MaxBatches
  PROVE  /\ Batch(b) \subseteq RecoveryCodes
         /\ \A c \in Batch(b) : c.of = b
BY DEF Batch, RecoveryCodes, Recovery

\* Time-based codes of the clock's range are codes.
LEMMA TotpIsCode ==
  ASSUME NEW g \in 1..MaxSecrets, NEW s \in 1..MaxNow + 1
  PROVE  Totp(g, s) \in TotpCodes
BY DEF TotpCodes

\* "No row" is a row.
LEMMA NoRowType == NoRow \in Row
BY FactorAssumption DEF NoRow, Row

-----------------------------------------------------------------------------
(* Type correctness, with what it takes to be inductive: an enrolment that is *)
(* on has a secret and a step, an attempt works on a code of its kind.        *)

TypeInv ==
  /\ TypeOK
  /\ now >= 2
  /\ row.on => row.secret # 0 /\ row.step # 0
  /\ \A h \in Handlers : draft[h].on => draft[h].secret # 0 /\ draft[h].step # 0
  /\ \A a \in Attempts : pc[a] = "advance" => given[a] \in TotpCodes
  /\ \A a \in Attempts : pc[a] \in {"consume", "swap"} => given[a] \in RecoveryCodes

LEMMA TypeInit == Init => TypeInv
<1> SUFFICES ASSUME Init PROVE TypeInv
  OBVIOUS
<1>1. now \in 0..MaxNow /\ now >= 2 /\ tokens \in 0..Burst /\ wrong \in Nat
  BY FactorAssumption DEF Init
<1>2. secrets \in 0..MaxSecrets /\ batches \in 0..MaxBatches
  BY FactorAssumption DEF Init
<1>3. NoCode \in Codes
  BY DEF Codes
<1>4. row \in Row /\ draft \in [Handlers -> Row]
  BY NoRowType DEF Init
<1>5. /\ given \in [Attempts -> Codes]
      /\ seen \in [Attempts -> SUBSET RecoveryCodes]
      /\ hpc \in [Handlers -> {"idle", "put"}]
      /\ pc \in [Attempts -> {"idle", "read", "consume", "swap", "advance", "granted", "failed"}]
  BY <1>3 DEF Init
<1>6. TypeOK
  BY <1>1, <1>2, <1>4, <1>5 DEF Init, TypeOK
<1>7. ~row.on /\ \A h \in Handlers : ~draft[h].on
  BY DEF Init, NoRow
<1> QED
  BY <1>1, <1>6, <1>7 DEF Init, TypeInv

LEMMA TypeBegin ==
  ASSUME TypeInv, NEW a \in Attempts, Begin(a)
  PROVE  TypeInv'
<1>1. Presentable \subseteq Codes
  BY FactorAssumption DEF Presentable, Codes, TotpCodes, TypeInv, TypeOK
<1> QED
  BY <1>1 DEF Begin, TypeInv, TypeOK, handlerVars, bucketVars, useVars

\* The other steps of a sign-in.
LEMMA TypeSignIn ==
  ASSUME TypeInv, NEW a \in Attempts,
         \/ ReadRow(a) \/ Advance(a) \/ ReadCodes(a) \/ Swap(a)
         \/ DatabaseFails(a) \/ Succeed(a) \/ Charge(a)
  PROVE  TypeInv'
<1> USE FactorAssumption
<1>0. NoCode \in Codes /\ given[a] \in Codes
  BY DEF Codes, TypeInv, TypeOK
<1>1. CASE ReadRow(a)
  BY <1>0, <1>1, KindOfCode DEF ReadRow, Refuse, Verifies, TypeInv, TypeOK, handlerVars, bucketVars, useVars
<1>2. CASE Advance(a)
  <2>1. CASE row.secret # 0 /\ row.step < given[a].n
    <3>1. given[a].n \in 1..MaxNow + 1
      BY <1>2, CodeKinds DEF Advance, TypeInv
    <3>2. row' \in Row /\ (row'.on => row'.secret # 0 /\ row'.step # 0)
      BY <1>2, <2>1, <3>1 DEF Advance, TypeInv, TypeOK, Row
    <3> QED
      BY <1>0, <1>2, <2>1, <3>2 DEF Advance, Accept, TypeInv, TypeOK, handlerVars
  <2>2. CASE ~(row.secret # 0 /\ row.step < given[a].n)
    BY <1>0, <1>2, <2>2 DEF Advance, Refuse, TypeInv, TypeOK, handlerVars, useVars
  <2> QED
    BY <2>1, <2>2
<1>3. CASE ReadCodes(a)
  BY <1>0, <1>3 DEF ReadCodes, Refuse, TypeInv, TypeOK, Row, handlerVars, bucketVars, useVars
<1>4. CASE Swap(a)
  <2>1. CASE row.secret # 0 /\ row.codes = seen[a]
    <3>1. row' \in Row /\ (row'.on => row'.secret # 0 /\ row'.step # 0)
      BY <1>4, <2>1 DEF Swap, TypeInv, TypeOK, Row
    <3> QED
      BY <1>0, <1>4, <2>1, <3>1 DEF Swap, Accept, TypeInv, TypeOK, handlerVars
  <2>2. CASE ~(row.secret # 0 /\ row.codes = seen[a])
    BY <1>0, <1>4, <2>2 DEF Swap, Refuse, TypeInv, TypeOK, handlerVars, useVars
  <2> QED
    BY <2>1, <2>2
<1>5. CASE DatabaseFails(a)
  BY <1>0, <1>5 DEF DatabaseFails, Refuse, TypeInv, TypeOK, handlerVars, useVars
<1>6. CASE Succeed(a)
  BY <1>6 DEF Succeed, Leave, TypeInv, TypeOK, handlerVars, useVars
<1>7. CASE Charge(a)
  BY <1>7 DEF Charge, Leave, TypeInv, TypeOK, handlerVars, useVars
<1> QED
  BY <1>1, <1>2, <1>3, <1>4, <1>5, <1>6, <1>7

\* A handler is about to write r.
LEMMA TypeReads ==
  ASSUME TypeInv, NEW h \in Handlers, NEW r \in Row, Reads(h, r),
         r.on => r.secret # 0 /\ r.step # 0,
         secrets' \in 0..MaxSecrets, batches' \in 0..MaxBatches,
         confirmed' \in SUBSET (1..MaxSecrets)
  PROVE  TypeInv'
BY DEF Reads, TypeInv, TypeOK, attemptVars, bucketVars, useVars

LEMMA TypeEnrol ==
  ASSUME TypeInv, NEW h \in Handlers, Enrol(h)
  PROVE  TypeInv'
<1> USE FactorAssumption
<1>1. CASE Setup(h)
  <2> DEFINE r == [NoRow EXCEPT !.secret = secrets + 1]
  <2>0. secrets + 1 \in 0..MaxSecrets
    BY <1>1 DEF Setup, TypeInv, TypeOK
  <2>1. r \in Row /\ ~r.on
    BY <2>0, NoRowType DEF Row, NoRow
  <2>2. secrets' \in 0..MaxSecrets /\ batches' \in 0..MaxBatches
          /\ confirmed' \in SUBSET (1..MaxSecrets)
    BY <1>1 DEF Setup, TypeInv, TypeOK
  <2>3. Reads(h, r)
    BY <1>1 DEF Setup
  <2> HIDE DEF r
  <2> QED
    BY <2>1, <2>2, <2>3, TypeReads
<1>2. CASE Enable(h)
  <2>1. PICK d \in Drift :
          /\ row.secret # 0 /\ ~row.on /\ batches < MaxBatches
          /\ batches' = batches + 1
          /\ confirmed' = confirmed \cup {row.secret}
          /\ Reads(h, [row EXCEPT !.on = TRUE, !.step = now + d, !.codes = Batch(batches + 1)])
          /\ UNCHANGED secrets
    BY <1>2 DEF Enable
  <2> DEFINE r == [row EXCEPT !.on = TRUE, !.step = now + d, !.codes = Batch(batches + 1)]
  <2>2. Batch(batches + 1) \subseteq RecoveryCodes
    BY <2>1, BatchCodes DEF TypeInv, TypeOK
  <2>3. r \in Row /\ r.secret # 0 /\ r.step # 0
    <3>1. now + d \in 0..MaxNow + 1 /\ now + d # 0
      BY <2>1 DEF TypeInv, TypeOK
    <3>2. row \in Row
      BY DEF TypeInv, TypeOK
    <3> QED
      BY <2>1, <2>2, <3>1, <3>2 DEF Row
  <2>4. secrets' \in 0..MaxSecrets /\ batches' \in 0..MaxBatches
          /\ confirmed' \in SUBSET (1..MaxSecrets)
    BY <2>1 DEF TypeInv, TypeOK, Row
  <2>5. Reads(h, r)
    BY <2>1
  <2> HIDE DEF r
  <2> QED
    BY <2>3, <2>4, <2>5, TypeReads
<1>3. CASE Regenerate(h)
  <2> DEFINE r == [row EXCEPT !.codes = Batch(batches + 1)]
  <2>1. Batch(batches + 1) \subseteq RecoveryCodes
    BY <1>3, BatchCodes DEF Regenerate, TypeInv, TypeOK
  <2>2. r \in Row /\ r.secret # 0 /\ r.step # 0
    <3>1. row \in Row /\ row.secret # 0 /\ row.step # 0
      BY <1>3 DEF Regenerate, TypeInv, TypeOK
    <3> QED
      BY <2>1, <3>1 DEF Row
  <2>3. secrets' \in 0..MaxSecrets /\ batches' \in 0..MaxBatches
          /\ confirmed' \in SUBSET (1..MaxSecrets)
    BY <1>3 DEF Regenerate, TypeInv, TypeOK
  <2>4. Reads(h, r)
    BY <1>3 DEF Regenerate
  <2> HIDE DEF r
  <2> QED
    BY <2>2, <2>3, <2>4, TypeReads
<1>4. CASE Put(h)
  <2>1. draft[h] \in Row
    BY DEF TypeInv, TypeOK
  <2>2. draft[h].on => Totp(draft[h].secret, draft[h].step) \in Codes
    BY <2>1, TotpIsCode DEF TypeInv, Row, Codes
  <2>3. used' \in SUBSET Codes
    BY <1>4, <2>2 DEF Put, TypeInv, TypeOK
  <2>4. raced' \in BOOLEAN
    BY <1>4 DEF Put
  <2>5. hpc' \in [Handlers -> {"idle", "put"}] /\ draft' \in [Handlers -> Row]
    BY <1>4, NoRowType DEF Put, Idle, TypeInv, TypeOK
  <2>6. \A x \in Handlers : draft'[x].on => draft'[x].secret # 0 /\ draft'[x].step # 0
    BY <1>4 DEF Put, Idle, TypeInv, TypeOK, NoRow
  <2> QED
    BY <1>4, <2>1, <2>3, <2>4, <2>5, <2>6 DEF Put, TypeInv, TypeOK, attemptVars, bucketVars
<1>5. CASE PutFails(h)
  BY <1>5, NoRowType DEF PutFails, Idle, TypeInv, TypeOK, NoRow, attemptVars, bucketVars, useVars
<1> QED
  BY <1>1, <1>2, <1>3, <1>4, <1>5 DEF Enrol

LEMMA TypeNext == TypeInv /\ [Next]_vars => TypeInv'
<1> SUFFICES ASSUME TypeInv, [Next]_vars PROVE TypeInv'
  OBVIOUS
<1>1. ASSUME NEW a \in Attempts, SignIn(a) PROVE TypeInv'
  BY <1>1, TypeBegin, TypeSignIn DEF SignIn
<1>2. ASSUME NEW h \in Handlers, Enrol(h) PROVE TypeInv'
  BY <1>2, TypeEnrol
<1>3. CASE Disable
  BY <1>3, NoRowType DEF Disable, TypeInv, TypeOK, NoRow, attemptVars, handlerVars, bucketVars, useVars
<1>4. CASE Tick
  BY <1>4, FactorAssumption DEF Tick, TypeInv, TypeOK, attemptVars, handlerVars, bucketVars, useVars
<1>5. CASE Refill
  BY <1>5, FactorAssumption DEF Refill, TypeInv, TypeOK, attemptVars, handlerVars, useVars
<1>6. CASE UNCHANGED vars
  BY <1>6 DEF vars, TypeInv, TypeOK, attemptVars, handlerVars, bucketVars, useVars
<1> QED
  BY <1>1, <1>2, <1>3, <1>4, <1>5, <1>6 DEF Next

\* Rows, attempts, drafts and tokens never leave their types; in particular the
\* bucket never holds less than nothing (Allow in internal/ratelimit/bucket.go).
THEOREM FactorTypeCorrect == Spec => []TypeOK
<1>1. TypeInv => TypeOK
  BY DEF TypeInv
<1> QED
  BY <1>1, TypeInit, TypeNext, PTL DEF Spec

-----------------------------------------------------------------------------
(* Every enabled secret was confirmed.                                     *)

\* The same of the rows that handlers are about to write.
ConfirmedInv ==
  /\ row.on => row.secret \in confirmed
  /\ \A h \in Handlers : draft[h].on => draft[h].secret \in confirmed

LEMMA ConfirmedNext == TypeInv /\ ConfirmedInv /\ [Next]_vars => ConfirmedInv'
<1> SUFFICES ASSUME TypeInv, ConfirmedInv, [Next]_vars PROVE ConfirmedInv'
  OBVIOUS
<1> USE DEF ConfirmedInv
<1>0. row \in Row /\ draft \in [Handlers -> Row] /\ confirmed \in SUBSET (1..MaxSecrets)
  BY DEF TypeInv, TypeOK
<1>1. ASSUME NEW a \in Attempts, SignIn(a) PROVE ConfirmedInv'
  <2>1. UNCHANGED <<draft, confirmed>> /\ row'.on = row.on /\ row'.secret = row.secret
    BY <1>0, <1>1 DEF SignIn, Begin, ReadRow, Advance, ReadCodes, Swap, DatabaseFails, Succeed,
       Charge, Refuse, Accept, Leave, handlerVars, Row
  <2> QED
    BY <2>1
<1>2. ASSUME NEW h \in Handlers, Enrol(h) PROVE ConfirmedInv'
  <2>1. CASE Setup(h)
    BY <1>0, <2>1 DEF Setup, Reads, NoRow
  <2>2. CASE Enable(h)
    BY <1>0, <2>2 DEF Enable, Reads, Row
  <2>3. CASE Regenerate(h)
    BY <1>0, <2>3 DEF Regenerate, Reads, Row
  <2>4. CASE Put(h)
    BY <1>0, <2>4 DEF Put, Idle, NoRow
  <2>5. CASE PutFails(h)
    BY <1>0, <2>5 DEF PutFails, Idle, NoRow
  <2> QED
    BY <1>2, <2>1, <2>2, <2>3, <2>4, <2>5 DEF Enrol
<1>3. CASE Disable
  BY <1>3 DEF Disable, NoRow, handlerVars
<1>4. CASE Tick \/ Refill \/ UNCHANGED vars
  BY <1>4 DEF Tick, Refill, vars, handlerVars
<1> QED
  BY <1>1, <1>2, <1>3, <1>4 DEF Next

\* The second factor is only asked for a secret its owner has entered a code
\* of, however enrolments overlap (handleMFASetup, handleMFAEnable).
THEOREM SecretsAreConfirmed == Spec => []OnlyConfirmedSecrets
<1>1. Init => ConfirmedInv
  BY DEF Init, ConfirmedInv, NoRow
<1>2. ConfirmedInv => OnlyConfirmedSecrets
  BY DEF ConfirmedInv, OnlyConfirmedSecrets
<1> QED
  BY <1>1, <1>2, TypeInit, TypeNext, ConfirmedNext, PTL DEF Spec

-----------------------------------------------------------------------------
(* Recovery codes.                                                         *)

\* A code is in at most one place: in the row, in one draft, or used.  Sets
\* that will be made later are nowhere.
RecoveryInv ==
  /\ used \cap row.codes = {}
  /\ \A h \in Handlers : draft[h].codes \cap (used \cup row.codes) = {}
  /\ \A h, k \in Handlers : h # k => draft[h].codes \cap draft[k].codes = {}
  /\ \A c \in row.codes : c.of <= batches
  /\ \A c \in used \cap RecoveryCodes : c.of <= batches
  /\ \A h \in Handlers : \A c \in draft[h].codes : c.of <= batches
  /\ \A a \in Attempts : pc[a] = "swap" => given[a] \in seen[a]
  /\ reused \cap RecoveryCodes = {}

\* The steps of a sign-in that use no recovery code.
LEMMA RecoveryUnused ==
  ASSUME TypeInv, RecoveryInv, NEW a \in Attempts,
         \/ Begin(a) \/ ReadRow(a) \/ ReadCodes(a) \/ DatabaseFails(a)
         \/ Succeed(a) \/ Charge(a)
  PROVE  RecoveryInv'
<1>1. UNCHANGED <<row, draft, batches, used, reused>>
  BY DEF Begin, ReadRow, ReadCodes, DatabaseFails, Succeed, Charge, Refuse, Leave,
     handlerVars, useVars
<1>2. \A x \in Attempts : pc'[x] = "swap" => given'[x] \in seen'[x]
  BY DEF Begin, ReadRow, ReadCodes, DatabaseFails, Succeed, Charge, Refuse, Leave,
     RecoveryInv, TypeInv, TypeOK
<1> QED
  BY <1>1, <1>2 DEF RecoveryInv

LEMMA RecoveryAdvance ==
  ASSUME TypeInv, RecoveryInv, NEW a \in Attempts, Advance(a)
  PROVE  RecoveryInv'
<1>1. CASE row.secret # 0 /\ row.step < given[a].n
  <2>1. given[a] \in TotpCodes /\ given[a] \notin RecoveryCodes
    BY <1>1, CodeKinds DEF Advance, TypeInv
  <2>2. row'.codes = row.codes /\ UNCHANGED <<draft, batches>>
    BY <1>1 DEF Advance, TypeInv, TypeOK, Row, handlerVars
  <2>3. used' = used \cup {given[a]} /\ reused' = reused \cup (used \cap {given[a]})
    BY <1>1 DEF Advance, Accept
  <2>4. row.codes \subseteq RecoveryCodes /\ \A h \in Handlers : draft[h].codes \subseteq RecoveryCodes
    BY DEF TypeInv, TypeOK, Row
  <2>5. \A x \in Attempts : pc'[x] = "swap" => given'[x] \in seen'[x]
    BY <1>1 DEF Advance, Accept, RecoveryInv, TypeInv, TypeOK
  <2> QED
    BY <2>1, <2>2, <2>3, <2>4, <2>5 DEF RecoveryInv
<1>2. CASE ~(row.secret # 0 /\ row.step < given[a].n)
  BY <1>2 DEF Advance, Refuse, RecoveryInv, TypeInv, TypeOK, handlerVars, useVars
<1> QED
  BY <1>1, <1>2

LEMMA RecoverySwap ==
  ASSUME TypeInv, RecoveryInv, NEW a \in Attempts, Swap(a)
  PROVE  RecoveryInv'
<1>1. CASE row.secret # 0 /\ row.codes = seen[a]
  <2>1. given[a] \in row.codes
    BY <1>1 DEF Swap, RecoveryInv
  <2>2. row'.codes = row.codes \ {given[a]} /\ UNCHANGED <<draft, batches>>
    BY <1>1 DEF Swap, TypeInv, TypeOK, Row, handlerVars
  <2>3. used' = used \cup {given[a]} /\ reused' = reused \cup (used \cap {given[a]})
    BY <1>1 DEF Swap, Accept
  <2>4. \A x \in Attempts : pc'[x] = "swap" => given'[x] \in seen'[x]
    BY <1>1 DEF Swap, Accept, RecoveryInv, TypeInv, TypeOK
  <2>5. reused' = reused
    BY <2>1, <2>3 DEF RecoveryInv
  <2> QED
    BY <2>1, <2>2, <2>3, <2>4, <2>5 DEF RecoveryInv
<1>2. CASE ~(row.secret # 0 /\ row.codes = seen[a])
  <2>1. UNCHANGED <<row, draft, batches, used, reused>>
    BY <1>2 DEF Swap, Refuse, handlerVars, useVars
  <2>2. \A x \in Attempts : pc'[x] = "swap" => given'[x] \in seen'[x]
    BY <1>2 DEF Swap, Refuse, RecoveryInv, TypeInv, TypeOK
  <2> QED
    BY <2>1, <2>2 DEF RecoveryInv
<1> QED
  BY <1>1, <1>2

\* A handler that is about to write a new set of codes, or none.
LEMMA RecoveryReads ==
  ASSUME TypeInv, RecoveryInv, NEW h \in Handlers, NEW r \in Row, Reads(h, r), UNCHANGED reused,
         batches \in Nat, batches' \in Nat, batches <= batches',
         \A c \in r.codes : c.of = batches' /\ batches < batches'
  PROVE  RecoveryInv'
<1>1. UNCHANGED <<row, used, pc, given, seen>>
  BY DEF Reads, attemptVars, useVars
<1>2. \A k \in Handlers : draft'[k] = IF k = h THEN r ELSE draft[k]
  BY DEF Reads, TypeInv, TypeOK
<1>3. r.codes \subseteq RecoveryCodes /\ \A c \in RecoveryCodes : c.of \in Nat
  BY CodeKinds DEF Row
<1>4. \A k \in Handlers : draft[k].codes \subseteq RecoveryCodes
  BY DEF TypeInv, TypeOK, Row
<1>5. row.codes \subseteq RecoveryCodes
  BY DEF TypeInv, TypeOK, Row
<1>6. r.codes \cap (used \cup row.codes) = {}
  BY <1>3, <1>5 DEF RecoveryInv
<1>7. \A k \in Handlers : k # h => draft[k].codes \cap r.codes = {}
  BY <1>3, <1>4 DEF RecoveryInv
<1>8. \A c \in row.codes \cup (used \cap RecoveryCodes) : c.of <= batches'
  BY <1>3, <1>5 DEF RecoveryInv
<1>9. \A k \in Handlers : \A c \in draft'[k].codes : c.of <= batches'
  BY <1>2, <1>3, <1>4 DEF RecoveryInv
<1>10. \A k, l \in Handlers : k # l => draft'[k].codes \cap draft'[l].codes = {}
  BY <1>2, <1>7 DEF RecoveryInv
<1>11. \A k \in Handlers : draft'[k].codes \cap (used \cup row.codes) = {}
  BY <1>2, <1>6 DEF RecoveryInv
<1> QED
  BY <1>1, <1>8, <1>9, <1>10, <1>11 DEF RecoveryInv

LEMMA RecoveryEnrol ==
  ASSUME TypeInv, RecoveryInv, NEW h \in Handlers, Enrol(h)
  PROVE  RecoveryInv'
<1>0. /\ batches \in 0..MaxBatches /\ batches \in Nat
      /\ secrets \in 0..MaxSecrets
      /\ row \in Row /\ now \in 2..MaxNow
  BY FactorAssumption DEF TypeInv, TypeOK
<1>1. CASE Setup(h)
  <2> DEFINE r == [NoRow EXCEPT !.secret = secrets + 1]
  <2>0. secrets + 1 \in 0..MaxSecrets
    BY <1>0, <1>1, FactorAssumption DEF Setup
  <2>1. r \in Row /\ r.codes = {}
    BY <2>0, NoRowType DEF Row, NoRow
  <2>2. Reads(h, r) /\ UNCHANGED <<batches, reused>>
    BY <1>1 DEF Setup, Reads, useVars
  <2> HIDE DEF r
  <2> QED
    BY <1>0, <2>1, <2>2, RecoveryReads
<1>2. CASE Enable(h)
  <2>1. PICK d \in Drift :
          /\ batches < MaxBatches
          /\ batches' = batches + 1
          /\ Reads(h, [row EXCEPT !.on = TRUE, !.step = now + d, !.codes = Batch(batches + 1)])
    BY <1>2 DEF Enable
  <2> DEFINE r == [row EXCEPT !.on = TRUE, !.step = now + d, !.codes = Batch(batches + 1)]
  <2>2. /\ Batch(batches + 1) \subseteq RecoveryCodes
        /\ \A c \in Batch(batches + 1) : c.of = batches + 1
    <3>1. batches + 1 \in 1..MaxBatches
      BY <1>0, <2>1, FactorAssumption
    <3> QED
      BY <3>1, BatchCodes
  <2>3. now + d \in 0..MaxNow + 1
    BY <1>0, FactorAssumption
  <2>4. r \in Row /\ r.codes = Batch(batches + 1)
    BY <1>0, <2>2, <2>3 DEF Row
  <2>5. Reads(h, r) /\ UNCHANGED reused
    BY <2>1 DEF Reads, useVars
  <2> HIDE DEF r
  <2>6. \A c \in r.codes : c.of = batches' /\ batches < batches'
    BY <1>0, <2>1, <2>2, <2>4
  <2> QED
    BY <1>0, <2>1, <2>4, <2>5, <2>6, RecoveryReads
<1>3. CASE Regenerate(h)
  <2> DEFINE r == [row EXCEPT !.codes = Batch(batches + 1)]
  <2>1. batches < MaxBatches /\ batches' = batches + 1 /\ Reads(h, r) /\ UNCHANGED reused
    BY <1>3 DEF Regenerate, Reads, useVars
  <2>2. /\ Batch(batches + 1) \subseteq RecoveryCodes
        /\ \A c \in Batch(batches + 1) : c.of = batches + 1
    <3>1. batches + 1 \in 1..MaxBatches
      BY <1>0, <2>1, FactorAssumption
    <3> QED
      BY <3>1, BatchCodes
  <2>3. r \in Row /\ r.codes = Batch(batches + 1)
    BY <1>0, <2>2 DEF Row
  <2> HIDE DEF r
  <2>4. \A c \in r.codes : c.of = batches' /\ batches < batches'
    BY <1>0, <2>1, <2>2, <2>3
  <2> QED
    BY <1>0, <2>1, <2>3, <2>4, RecoveryReads
<1>4. CASE Put(h)
  <2>1. row' = draft[h] /\ UNCHANGED <<pc, given, seen, reused, batches>>
    BY <1>4 DEF Put, attemptVars
  <2>2. \A k \in Handlers : draft'[k].codes = IF k = h THEN {} ELSE draft[k].codes
    BY <1>4 DEF Put, Idle, NoRow, TypeInv, TypeOK
  <2>3. used \subseteq used' /\ used' \cap RecoveryCodes = used \cap RecoveryCodes
    BY <1>4, CodeKinds DEF Put, Totp
  <2>4. \A k \in Handlers : draft[k].codes \subseteq RecoveryCodes
    BY DEF TypeInv, TypeOK, Row
  <2>5. \A k \in Handlers : draft[k].codes \cap used' = {}
    BY <2>3, <2>4 DEF RecoveryInv
  <2> QED
    BY <2>1, <2>2, <2>3, <2>5 DEF RecoveryInv
<1>5. CASE PutFails(h)
  <2>1. UNCHANGED <<row, pc, given, seen, used, reused, batches>>
    BY <1>5 DEF PutFails, attemptVars, useVars
  <2>2. \A k \in Handlers : draft'[k].codes = IF k = h THEN {} ELSE draft[k].codes
    BY <1>5 DEF PutFails, Idle, NoRow, TypeInv, TypeOK
  <2> QED
    BY <2>1, <2>2 DEF RecoveryInv
<1> QED
  BY <1>1, <1>2, <1>3, <1>4, <1>5 DEF Enrol

LEMMA RecoveryNext == TypeInv /\ RecoveryInv /\ [Next]_vars => RecoveryInv'
<1> SUFFICES ASSUME TypeInv, RecoveryInv, [Next]_vars PROVE RecoveryInv'
  OBVIOUS
<1>1. ASSUME NEW a \in Attempts, SignIn(a) PROVE RecoveryInv'
  BY <1>1, RecoveryUnused, RecoveryAdvance, RecoverySwap DEF SignIn
<1>2. ASSUME NEW h \in Handlers, Enrol(h) PROVE RecoveryInv'
  BY <1>2, RecoveryEnrol
<1>3. CASE Disable
  BY <1>3 DEF Disable, RecoveryInv, NoRow, attemptVars, handlerVars, useVars
<1>4. CASE Tick \/ Refill \/ UNCHANGED vars
  BY <1>4 DEF Tick, Refill, vars, RecoveryInv, attemptVars, handlerVars, useVars
<1> QED
  BY <1>1, <1>2, <1>3, <1>4 DEF Next

LEMMA RecoveryInit == Init => RecoveryInv
BY DEF Init, RecoveryInv, NoRow

\* A recovery code signs in at most once, whatever other sign-ins, renewals and
\* enrolments run at the same time (ConsumeRecoveryCode, PutUserMFA).
THEOREM RecoveryCodesSignInOnce == Spec => []RecoveryCodeOnce
<1>1. RecoveryInv => RecoveryCodeOnce
  BY DEF RecoveryInv, RecoveryCodeOnce
<1> QED
  BY <1>1, TypeInit, TypeNext, RecoveryInit, RecoveryNext, PTL DEF Spec

-----------------------------------------------------------------------------
(* Time-based codes.                                                       *)

\* Until a race, the row knows every step that was used with its secret.
TotpInv ==
  /\ reused \subseteq TotpCodes \cup RecoveryCodes
  /\ ~raced => /\ \A c \in used : c.kind = "totp" /\ c.of = row.secret => c.n <= row.step
               /\ reused \cap TotpCodes = {}

LEMMA TotpInit == Init => TotpInv
BY DEF Init, TotpInv

\* Nothing is used, and the row does not change.
LEMMA TotpUnused ==
  ASSUME TotpInv, UNCHANGED <<row, raced, used, reused>>
  PROVE  TotpInv'
BY DEF TotpInv

LEMMA TotpSignIn ==
  ASSUME TypeInv, TotpInv, NEW a \in Attempts, SignIn(a)
  PROVE  TotpInv'
<1>1. CASE Advance(a)
  <2>1. CASE row.secret # 0 /\ row.step < given[a].n
    <3>1. given[a] \in TotpCodes /\ given[a].kind = "totp" /\ given[a].n \in Int
      BY <1>1, CodeKinds DEF Advance, TypeInv
    <3>2. /\ row'.secret = row.secret /\ row'.step = given[a].n
          /\ raced' = (raced \/ row.secret # given[a].of)
          /\ used' = used \cup {given[a]}
          /\ reused' = reused \cup (used \cap {given[a]})
      BY <1>1, <2>1 DEF Advance, Accept, TypeInv, TypeOK, Row
    <3>3. used \subseteq Codes /\ row.step \in Int
      BY DEF TypeInv, TypeOK, Row
    <3>4. \A c \in used : c.kind = "totp" => c.n \in Int
      BY <3>3, KindOfCode, CodeKinds
    <3>5. reused' \subseteq TotpCodes \cup RecoveryCodes
      BY <3>1, <3>2 DEF TotpInv
    <3>6. ASSUME ~raced'
          PROVE  /\ \A c \in used' : c.kind = "totp" /\ c.of = row'.secret => c.n <= row'.step
                 /\ given[a] \notin used
      <4>1. ~raced /\ given[a].of = row.secret
        BY <3>2, <3>6
      <4>2. \A c \in used : c.kind = "totp" /\ c.of = row.secret => c.n <= row.step
        BY <4>1 DEF TotpInv
      <4>3. given[a] \notin used
        BY <2>1, <3>1, <3>3, <4>1, <4>2
      <4>4. \A c \in used' : c.kind = "totp" /\ c.of = row.secret => c.n <= given[a].n
        BY <2>1, <3>1, <3>2, <3>3, <3>4, <4>2
      <4> QED
        BY <3>2, <4>3, <4>4
    <3>7. ~raced' => reused' \cap TotpCodes = {}
      BY <3>2, <3>6 DEF TotpInv
    <3> QED
      BY <3>5, <3>6, <3>7 DEF TotpInv
  <2>2. CASE ~(row.secret # 0 /\ row.step < given[a].n)
    BY <1>1, <2>2, TotpUnused DEF Advance, Refuse, useVars
  <2> QED
    BY <2>1, <2>2
<1>2. CASE Swap(a)
  <2>1. CASE row.secret # 0 /\ row.codes = seen[a]
    <3>1. given[a] \in RecoveryCodes /\ given[a].kind = "recovery" /\ given[a] \notin TotpCodes
      BY <1>2, CodeKinds DEF Swap, TypeInv
    <3>2. /\ row'.secret = row.secret /\ row'.step = row.step
          /\ raced' = raced
          /\ used' = used \cup {given[a]}
          /\ reused' = reused \cup (used \cap {given[a]})
      BY <1>2, <2>1 DEF Swap, Accept, TypeInv, TypeOK, Row
    <3> QED
      BY <3>1, <3>2 DEF TotpInv
  <2>2. CASE ~(row.secret # 0 /\ row.codes = seen[a])
    BY <1>2, <2>2, TotpUnused DEF Swap, Refuse, useVars
  <2> QED
    BY <2>1, <2>2
<1>3. CASE Begin(a) \/ ReadRow(a) \/ ReadCodes(a) \/ DatabaseFails(a) \/ Succeed(a) \/ Charge(a)
  <2>1. UNCHANGED <<row, raced, used, reused>>
    BY <1>3 DEF Begin, ReadRow, ReadCodes, DatabaseFails, Succeed, Charge, Refuse, Leave, useVars
  <2> QED
    BY <2>1, TotpUnused
<1> QED
  BY <1>1, <1>2, <1>3 DEF SignIn

LEMMA TotpPut ==
  ASSUME TypeInv, TotpInv, NEW h \in Handlers, Put(h)
  PROVE  TotpInv'
<1> DEFINE d == draft[h]
<1>1. d \in Row
  BY DEF TypeInv, TypeOK
<1>2. /\ row' = d /\ reused' = reused
      /\ raced' = (raced \/ Rewinds(d))
      /\ used' = IF d.on THEN used \cup {Totp(d.secret, d.step)} ELSE used
  BY DEF Put
<1>3. \A c \in used : c.kind = "totp" => c.n \in Int
  BY KindOfCode, CodeKinds DEF TypeInv, TypeOK
<1>4. d.step \in Int
  BY <1>1 DEF Row
<1> HIDE DEF d
<1>5. ASSUME ~raced', NEW c \in used', c.kind = "totp", c.of = d.secret
      PROVE  c.n <= d.step
  <2>0. ~Rewinds(d)
    BY <1>2, <1>5
  <2>1. CASE c \in used
    <3>1. ~(c.n > d.step)
      BY <1>5, <2>0, <2>1 DEF Rewinds
    <3> QED
      BY <1>3, <1>4, <1>5, <2>1, <3>1
  <2>2. CASE c = Totp(d.secret, d.step)
    BY <1>4, <2>2 DEF Totp
  <2> QED
    BY <1>2, <1>5, <2>1, <2>2
<1> QED
  BY <1>2, <1>5 DEF TotpInv

LEMMA TotpNext == TypeInv /\ TotpInv /\ [Next]_vars => TotpInv'
<1> SUFFICES ASSUME TypeInv, TotpInv, [Next]_vars PROVE TotpInv'
  OBVIOUS
<1>1. ASSUME NEW a \in Attempts, SignIn(a) PROVE TotpInv'
  BY <1>1, TotpSignIn
<1>2. ASSUME NEW h \in Handlers, Enrol(h) PROVE TotpInv'
  <2>1. CASE Put(h)
    BY <2>1, TotpPut
  <2>2. CASE Setup(h) \/ Enable(h) \/ Regenerate(h) \/ PutFails(h)
    BY <2>2, TotpUnused DEF Setup, Enable, Regenerate, PutFails, Reads, useVars
  <2> QED
    BY <1>2, <2>1, <2>2 DEF Enrol
<1>3. CASE Disable
  <2>1. \A c \in used : c.kind = "totp" => c.of # 0
    BY KindOfCode, CodeKinds DEF TypeInv, TypeOK
  <2> QED
    BY <1>3, <2>1 DEF Disable, TotpInv, NoRow, useVars
<1>4. CASE Tick \/ Refill \/ UNCHANGED vars
  BY <1>4, TotpUnused DEF Tick, Refill, vars, useVars
<1> QED
  BY <1>1, <1>2, <1>3, <1>4 DEF Next

\* A time-based code signs in at most once, and not at all after it confirmed
\* an enrolment, unless a row that was read earlier is written back or the
\* enrolment changes between the check and the UPDATE (AdvanceMFAStep).
THEOREM TotpCodesSignInOnce == Spec => []TotpOnceUnlessRaced
<1>1. RecoveryInv /\ TotpInv => TotpOnceUnlessRaced
  BY DEF RecoveryInv, TotpInv, TotpOnceUnlessRaced
<1> QED
  BY <1>1, TypeInit, TypeNext, RecoveryInit, RecoveryNext, TotpInit, TotpNext, PTL DEF Spec

-----------------------------------------------------------------------------
(* The lockout.                                                            *)

\* Attempts that have failed and not been charged, and those that may still fail.
Failed  == {a \in Attempts : pc[a] = "failed"}
Pending == {a \in Attempts : pc[a] \in {"read", "consume", "swap", "advance"}}

\* While there are tokens, every failure is paid for, except those about to be;
\* without, only the attempts that got in before can fail.
LockoutInv ==
  IF tokens > 0
  THEN wrong <= Burst - tokens + Cardinality(Failed)
  ELSE wrong + Cardinality(Pending) <= Burst + Cardinality(Attempts) - 1

\* Sizes are numbers, and failed and pending attempts are attempts.
LEMMA Sizes ==
  /\ IsFiniteSet(Failed) /\ IsFiniteSet(Pending)
  /\ Cardinality(Failed) \in Nat /\ Cardinality(Pending) \in Nat
  /\ Cardinality(Attempts) \in Nat
  /\ Cardinality(Failed) + Cardinality(Pending) <= Cardinality(Attempts)
<1>1. Failed \subseteq Attempts /\ Pending \subseteq Attempts
  BY DEF Failed, Pending
<1>2. IsFiniteSet(Attempts)
  BY FactorAssumption
<1>3. IsFiniteSet(Failed) /\ IsFiniteSet(Pending)
  BY <1>1, <1>2, FS_Subset
<1>4. /\ Cardinality(Failed) \in Nat /\ Cardinality(Pending) \in Nat
      /\ Cardinality(Attempts) \in Nat
  BY <1>2, <1>3, FS_CardinalityType
<1>5. Failed \cap Pending = {}
  BY DEF Failed, Pending
<1>6. Cardinality(Failed \cup Pending) =
        Cardinality(Failed) + Cardinality(Pending) - Cardinality(Failed \cap Pending)
  BY <1>3, FS_Union
<1>7. Cardinality(Failed \cap Pending) = 0
  BY <1>5, FS_EmptySet
<1>8. Cardinality(Failed \cup Pending) <= Cardinality(Attempts)
  <2>1. Failed \cup Pending \subseteq Attempts
    BY <1>1
  <2> QED
    BY <1>2, <2>1, FS_Subset
<1> QED
  BY <1>3, <1>4, <1>6, <1>7, <1>8

\* An attempt moves on without failing.
LEMMA LockoutMoves ==
  ASSUME TypeInv, LockoutInv, UNCHANGED <<tokens, wrong>>, NEW a \in Attempts,
         Failed' = Failed, Pending' \subseteq Pending
  PROVE  LockoutInv'
<1>1. Cardinality(Pending') \in Nat /\ Cardinality(Pending') <= Cardinality(Pending)
  <2>1. IsFiniteSet(Pending)
    BY Sizes
  <2> QED
    BY <2>1, FS_Subset, FS_CardinalityType
<1>2. tokens \in Nat /\ wrong \in Nat
  BY FactorAssumption DEF TypeInv, TypeOK
<1>3. Cardinality(Failed') = Cardinality(Failed)
  OBVIOUS
<1> QED
  BY <1>1, <1>2, <1>3, Sizes, FactorAssumption DEF LockoutInv

\* An attempt fails.
LEMMA LockoutFails ==
  ASSUME TypeInv, LockoutInv, NEW a \in Attempts,
         pc[a] \in {"read", "consume", "swap", "advance"},
         Refuse(a)
  PROVE  LockoutInv'
<1>1. Failed' = Failed \cup {a} /\ a \notin Failed
  BY DEF Refuse, Failed, TypeInv, TypeOK
<1>2. Pending' = Pending \ {a} /\ a \in Pending
  BY DEF Refuse, Pending, TypeInv, TypeOK
<1>3. Cardinality(Failed') = Cardinality(Failed) + 1
  BY <1>1, Sizes, FS_AddElement
<1>4. Cardinality(Pending') = Cardinality(Pending) - 1
  BY <1>2, Sizes, FS_RemoveElement
<1>5. wrong' = wrong + 1 /\ tokens' = tokens /\ tokens \in Nat /\ wrong \in Nat
  BY FactorAssumption DEF Refuse, TypeInv, TypeOK
<1> QED
  BY <1>3, <1>4, <1>5, Sizes, FactorAssumption DEF LockoutInv

LEMMA LockoutCharge ==
  ASSUME TypeInv, LockoutInv, NEW a \in Attempts, Charge(a)
  PROVE  LockoutInv'
<1>1. Failed' = Failed \ {a} /\ a \in Failed
  BY DEF Charge, Leave, Failed, TypeInv, TypeOK
<1>2. Pending' = Pending
  BY DEF Charge, Leave, Pending, TypeInv, TypeOK
<1>3. Cardinality(Failed') = Cardinality(Failed) - 1
  BY <1>1, Sizes, FS_RemoveElement
<1>4. Cardinality(Pending') = Cardinality(Pending)
  BY <1>2
<1>5. /\ tokens' = IF tokens > 0 THEN tokens - 1 ELSE 0
      /\ wrong' = wrong /\ tokens \in Nat /\ wrong \in Nat
  BY FactorAssumption DEF Charge, TypeInv, TypeOK
<1> QED
  BY <1>3, <1>4, <1>5, Sizes, FactorAssumption DEF LockoutInv

\* No failures to be paid for, and a token.
LEMMA LockoutForgiven ==
  ASSUME wrong' = 0, tokens' \in 1..Burst
  PROVE  LockoutInv'
<1>1. Cardinality(Failed') \in Nat
  <2>1. Failed' \subseteq Attempts
    BY DEF Failed
  <2>2. IsFiniteSet(Attempts)
    BY FactorAssumption
  <2>3. IsFiniteSet(Failed')
    BY <2>1, <2>2, FS_Subset
  <2> QED
    BY <2>3, FS_CardinalityType
<1> QED
  BY <1>1, FactorAssumption DEF LockoutInv

LEMMA LockoutNext == TypeInv /\ LockoutInv /\ [Next]_vars => LockoutInv'
<1> SUFFICES ASSUME TypeInv, LockoutInv, [Next]_vars PROVE LockoutInv'
  OBVIOUS
<1>1. ASSUME NEW a \in Attempts, SignIn(a) PROVE LockoutInv'
  <2>1. CASE Begin(a)
    <3>1. Failed' = Failed /\ tokens' = tokens /\ wrong' = wrong /\ tokens > 0
      BY <2>1 DEF Begin, Failed, TypeInv, TypeOK, bucketVars
    <3> QED
      BY <3>1 DEF LockoutInv
  <2>2. CASE pc[a] \in {"read", "consume", "swap", "advance"} /\ Refuse(a)
    BY <2>2, LockoutFails
  <2>3. CASE /\ pc[a] \in {"read", "consume", "swap", "advance"}
             /\ \E p \in {"consume", "swap", "advance", "granted"} : pc' = [pc EXCEPT ![a] = p]
             /\ UNCHANGED <<tokens, wrong>>
    <3>1. Failed' = Failed
      BY <2>3 DEF Failed, TypeInv, TypeOK
    <3>2. Pending' \subseteq Pending
      BY <2>3 DEF Pending, TypeInv, TypeOK
    <3> QED
      BY <2>3, <3>1, <3>2, LockoutMoves
  <2>4. CASE Succeed(a)
    BY <2>4, LockoutForgiven, FactorAssumption DEF Succeed
  <2>5. CASE Charge(a)
    BY <2>5, LockoutCharge
  <2>6. CASE ReadRow(a)
    BY <2>2, <2>3, <2>6 DEF ReadRow, bucketVars
  <2>7. CASE Advance(a)
    BY <2>2, <2>3, <2>7 DEF Advance, Accept
  <2>8. CASE ReadCodes(a)
    BY <2>2, <2>3, <2>8 DEF ReadCodes, bucketVars
  <2>9. CASE Swap(a)
    BY <2>2, <2>3, <2>9 DEF Swap, Accept
  <2>10. CASE DatabaseFails(a)
    BY <2>2, <2>10 DEF DatabaseFails
  <2> QED
    BY <1>1, <2>1, <2>4, <2>5, <2>6, <2>7, <2>8, <2>9, <2>10 DEF SignIn
<1>2. CASE Refill
  <2>1. tokens' \in 1..Burst /\ wrong' = 0
    BY <1>2, FactorAssumption DEF Refill, TypeInv, TypeOK
  <2> QED
    BY <2>1, LockoutForgiven
<1>3. CASE UNCHANGED <<pc, tokens, wrong>>
  <2>1. UNCHANGED <<Failed, Pending>>
    BY <1>3 DEF Failed, Pending
  <2> QED
    BY <1>3, <2>1 DEF LockoutInv
<1>4. ASSUME NEW h \in Handlers, Enrol(h) PROVE UNCHANGED <<pc, tokens, wrong>>
  BY <1>4 DEF Enrol, Setup, Enable, Regenerate, Put, PutFails, Reads, attemptVars, bucketVars
<1>5. Disable \/ Tick \/ UNCHANGED vars => UNCHANGED <<pc, tokens, wrong>>
  BY DEF Disable, Tick, vars, attemptVars, bucketVars
<1> QED
  BY <1>1, <1>2, <1>3, <1>4, <1>5 DEF Next

\* Between refills and successes at most the allowance, and the attempts that
\* were let in together with the one that used up the last token, can fail
\* (Peek before the check, Allow after it, in handleLoginMFA).
THEOREM FailuresAreLimited == Spec => []LockoutHolds
<1>1. Init => LockoutInv
  <2>1. Cardinality(Failed) \in Nat
    BY Sizes
  <2> QED
    BY <2>1, FactorAssumption DEF Init, LockoutInv
<1>2. TypeInv /\ LockoutInv => LockoutHolds
  <2> SUFFICES ASSUME TypeInv, LockoutInv PROVE LockoutHolds
    OBVIOUS
  <2>1. tokens \in Nat /\ wrong \in Nat
    BY FactorAssumption DEF TypeInv, TypeOK
  <2> QED
    BY <2>1, Sizes, FactorAssumption DEF LockoutInv, LockoutHolds
<1> QED
  BY <1>1, <1>2, TypeInit, TypeNext, LockoutNext, PTL DEF Spec

=============================================================================

---------------------------- MODULE IdentityProofs ----------------------------
(***************************************************************************)
(* Identity: the key the application goes by is kept, for any number of    *)
(* callers, keys, outages, failures and crashes.                           *)
(***************************************************************************)
EXTENDS Identity, TLAPS

Busy(c) == pc[c] # "idle"

\* While the application goes by a key, or a call is known to be alone, at most
\* one call is in progress.
SoleInv ==
  /\ \A c, d \in Callers : (last # 0 \/ alone # {}) /\ Busy(c) /\ Busy(d) => c = d
  /\ \A c, d \in Callers : c \in alone /\ Busy(d) => d = c
  /\ \A c, d \in alone : c = d
  /\ \A c \in Callers : last # 0 /\ Busy(c) => c \in alone

\* What a call knows of the stores once it has looked at them.
CallInv ==
  \A c \in Callers :
    /\ pc[c] \in {"empty", "unreachable", "remove", "create", "rename", "purge", "discard"}
         => platform = "linux"
    /\ pc[c] \in {"import", "set", "remove", "create", "rename"} => key[c] # 0
    /\ pc[c] \in {"empty", "set"} /\ last # 0 => keyring = 0
    /\ pc[c] = "set" /\ last # 0 => key[c] = last
    /\ pc[c] = "remove" /\ c \in alone => keyring = key[c]
    /\ pc[c] = "remove" /\ last # 0 => last = keyring
    /\ pc[c] \in {"create", "rename"} /\ last # 0 => last = keyring
    /\ pc[c] = "rename" => path = "YES"
    /\ pc[c] \in {"delete", "purge", "discard"} => last = 0

Inv == TypeOK /\ SoleInv /\ CallInv /\ IdentityKept

USE IdentityAssumption

\* Before the first call nothing is stored but what earlier versions left.
LEMMA InitInv == Init => Inv
  BY SMT DEF Init, Inv, TypeOK, SoleInv, CallInv, IdentityKept, Busy, Failed, Answers, Flag,
       Legacy, Mismatch

\* A call begins, and with it the end of any certainty about an identity that
\* is being deleted or that another call is at work on.
LEMMA EnterInv ==
  ASSUME Inv, NEW c \in Callers, NEW target \in {"get", "delete"}, Enter(c, target),
         legacy' \in [Callers -> {0, Legacy, Mismatch}]
  PROVE  Inv'
<1> USE DEF Inv, storeVars
<1> DEFINE others == {d \in Callers : pc[d] # "idle"}
<1>1. /\ pc[c] = "idle" /\ pc' = [pc EXCEPT ![c] = target]
      /\ alone' = IF others = {} THEN {c} ELSE {}
      /\ last' = IF others = {} /\ target # "delete" THEN last ELSE 0
      /\ key' = [key EXCEPT ![c] = 0]
      /\ answer' = [answer EXCEPT ![c] = Failed]
      /\ UNCHANGED storeVars
  BY DEF Enter
<1>2. TypeOK'
  BY <1>1, SMT DEF TypeOK, Failed, Answers, Legacy
<1>3. CASE others = {}
  <2>1. \A d \in Callers : pc[d] = "idle"
    BY <1>3
  <2> QED
    BY <1>1, <1>2, <1>3, <2>1, SMT DEF TypeOK, SoleInv, CallInv, IdentityKept, Busy
<1>4. CASE others # {}
  BY <1>1, <1>2, <1>4, SMT DEF TypeOK, SoleInv, CallInv, IdentityKept, Busy
<1> QED
  BY <1>3, <1>4

\* What an import or a new key leads to.
LEMMA ChooseCases ==
  ASSUME Inv, NEW c \in Callers, NEW target, ImportOrGenerate(c, target)
  PROVE  /\ UNCHANGED <<keyring, fallback, temporary>>
         /\ \/ /\ pc' = [pc EXCEPT ![c] = target]
               /\ \E k \in 1..Legacy : key' = [key EXCEPT ![c] = k]
               /\ UNCHANGED <<answer, last>>
            \/ /\ pc' = [pc EXCEPT ![c] = "idle"]
               /\ answer' = [answer EXCEPT ![c] = Failed]
               /\ UNCHANGED <<key, last>>
         /\ generated' \in 0..MaxKeys
  BY SMT DEF ImportOrGenerate, Choose, Go, Fail, Return, Failed, Inv, TypeOK, Legacy

\* A call that returns a key leaves it in a store, whatever else it does, and
\* no other call relies on the stores meanwhile.
LEMMA ReturnInv ==
  ASSUME Inv, NEW c \in Callers, Busy(c), NEW value \in Answers, Return(c, value),
         UNCHANGED <<platform, path, reachable, legacy, alone, key>>,
         keyring' \in 0..Legacy, fallback' \in 0..Legacy, temporary' \in Flag,
         generated' \in 0..MaxKeys, faults' \in 0..MaxFaults,
         c \in alone /\ value.key # 0 => value.key = keyring' \/
           (platform = "linux" /\ path = "YES" /\ value.key = fallback'),
         last # 0 /\ value.key = 0 => UNCHANGED <<keyring, fallback>>
  PROVE  Inv'
<1> USE DEF Inv, Busy
<1>1. /\ pc' = [pc EXCEPT ![c] = "idle"] /\ answer' = [answer EXCEPT ![c] = value]
      /\ last' = IF c \in alone /\ value.key # 0 THEN value.key ELSE last
  BY DEF Return
<1>2. last # 0 => c \in alone
  BY DEF SoleInv
<1>3. value.key \in 0..Legacy
  BY DEF Answers
<1>4. TypeOK'
  BY <1>1, <1>3, SMT DEF TypeOK
<1>5. \A d \in Callers : pc'[d] # "idle" => d # c /\ pc'[d] = pc[d] /\ last = 0 /\ alone = {}
  BY <1>1, SMT DEF SoleInv, TypeOK
<1>6. SoleInv'
  BY <1>1, <1>5, SMT DEF SoleInv, TypeOK
<1>7. CallInv'
  <2> SUFFICES ASSUME NEW d \in Callers, pc'[d] # "idle" PROVE CallInv!(d)'
    BY SMT DEF CallInv
  <2>1. d # c /\ pc'[d] = pc[d] /\ last = 0 /\ alone = {} /\ last' = 0
    BY <1>1, <1>5
  <2> QED
    BY <2>1, SMT DEF CallInv
<1>8. IdentityKept'
  BY <1>1, <1>2, SMT DEF IdentityKept
<1> QED
  BY <1>4, <1>6, <1>7, <1>8

\* The steps of a call.
LEMMA StepInv == ASSUME Inv, NEW c \in Callers, Step(c) PROVE Inv'
<1> USE DEF Inv, TypeOK, SoleInv, CallInv, IdentityKept, Busy, Answers, Failed, Deleted, Flag
<1>0. /\ UNCHANGED <<platform, path, reachable, legacy, alone>>
      /\ Legacy \in Nat /\ Legacy = MaxKeys + 1
  BY SMT DEF Step, Legacy
<1>1. CASE GetPassword(c)
  <2>1. CASE reachable = "YES" /\ keyring # 0 /\ legacy[c] \in {0, keyring}
    <3> DEFINE value == [key |-> keyring, backend |-> "keyring"]
    <3>1. /\ Return(c, value) /\ pc[c] = "get"
          /\ UNCHANGED <<keyring, fallback, temporary, generated, key, faults>>
      BY <1>1, <2>1, SMT DEF GetPassword
    <3> QED
      BY <1>0, <3>1, ReturnInv
  <2>2. CASE reachable = "YES" /\ keyring # 0 /\ ImportOrGenerate(c, "import")
    <3>1. pc[c] = "get" /\ UNCHANGED faults
      BY <1>1 DEF GetPassword
    <3> QED
      BY <1>0, <2>2, <3>1, ChooseCases, SMTT(60)
  <2>3. CASE reachable = "YES" /\ keyring = 0 /\ platform = "linux"
    BY <1>0, <1>1, <2>3, SMTT(60) DEF GetPassword, Go
  <2>4. CASE reachable = "YES" /\ keyring = 0 /\ platform # "linux"
    <3>1. ImportOrGenerate(c, "set") /\ pc[c] = "get" /\ UNCHANGED faults
      BY <1>1, <2>4 DEF GetPassword
    <3>2. last = 0
      BY <2>4, SMT
    <3> QED
      BY <1>0, <2>4, <3>1, <3>2, ChooseCases, SMTT(60)
  <2>5. CASE reachable = "NO"
    BY <1>0, <1>1, <2>5, SMTT(60) DEF GetPassword, Go, Fail, Return
  <2> QED
    BY <1>1, <2>1, <2>2, <2>3, <2>4, <2>5 DEF GetPassword
<1>2. CASE ReadFallback(c)
  <2>1. CASE Fault /\ Fail(c)
    BY <1>0, <1>2, <2>1, SMTT(60) DEF ReadFallback, Fault, Fail, Return
  <2>2. CASE InFile /\ pc[c] = "empty" /\ ~Fault
    BY <1>0, <1>2, <2>2, SMTT(60) DEF ReadFallback, InFile, Choose, Go
  <2>3. CASE InFile /\ pc[c] = "unreachable" /\ ~Fault
    BY <1>0, <1>2, <2>3, SMTT(60) DEF ReadFallback, InFile, Return
  <2>4. CASE ~InFile
    <3>1. CASE Fault /\ Fail(c)
      BY <2>1, <3>1
    <3>2. CASE pc[c] = "empty" /\ ImportOrGenerate(c, "set") /\ UNCHANGED faults
      <4>1. last = 0 /\ platform = "linux"
        BY <2>4, <3>2, SMT DEF InFile
      <4> QED
        BY <1>0, <3>2, <4>1, ChooseCases, SMTT(60)
    <3>3. CASE pc[c] = "unreachable" /\ ImportOrGenerate(c, "create") /\ UNCHANGED faults
      <4>1. (last # 0 => last = keyring) /\ platform = "linux"
        BY <2>4, <3>3, SMT DEF InFile
      <4> QED
        BY <1>0, <3>3, <4>1, ChooseCases, SMTT(60)
    <3> QED
      BY <1>2, <2>4, <3>1, <3>2, <3>3 DEF ReadFallback
  <2> QED
    BY <1>2, <2>1, <2>2, <2>3, <2>4 DEF ReadFallback, Fault
<1>3. CASE SetPassword(c)
  <2>1. CASE reachable = "NO"
    BY <1>0, <1>3, <2>1, SMTT(60) DEF SetPassword, Fail, Return
  <2>2. CASE reachable = "YES" /\ (pc[c] = "import" \/ platform = "other")
    <3> DEFINE value == [key |-> key[c], backend |-> "keyring"]
    <3>1. /\ Return(c, value) /\ pc[c] # "idle" /\ keyring' = key[c] /\ key[c] # 0
          /\ UNCHANGED <<fallback, temporary, generated, key, faults>>
      BY <1>3, <2>2, SMT DEF SetPassword
    <3>2. value \in Answers /\ value.key = keyring' /\ value.key # 0
      BY <3>1, SMT
    <3> QED
      BY <1>0, <3>1, <3>2, ReturnInv
  <2>3. CASE reachable = "YES" /\ ~(pc[c] = "import" \/ platform = "other")
    <3>1. platform = "linux" /\ pc[c] = "set"
      BY <1>3, <2>3, IdentityAssumption, SMT DEF SetPassword
    <3> QED
      BY <1>0, <1>3, <2>3, <3>1, SMTT(60) DEF SetPassword
  <2> QED
    BY <2>1, <2>2, <2>3
<1>4. CASE RemoveFallback(c)
  <2>1. CASE InFile /\ Fault /\ Fail(c)
    BY <1>0, <1>4, <2>1, SMTT(60) DEF RemoveFallback, Fault, Fail, Return
  <2>2. CASE ~(InFile /\ Fault /\ Fail(c)) /\ pc[c] = "remove"
    <3>1. /\ fallback' = IF path = "YES" THEN 0 ELSE fallback
          /\ last' = IF c \in alone /\ key[c] # 0 THEN key[c] ELSE last
          /\ pc' = [pc EXCEPT ![c] = "idle"]
          /\ answer' = [answer EXCEPT ![c] = [key |-> key[c], backend |-> "keyring"]]
          /\ UNCHANGED <<keyring, temporary, generated, key, faults>>
      BY <1>4, <2>2, SMT DEF RemoveFallback, Return
    <3>2. last # 0 => last = keyring
      BY <2>2, SMT
    <3> QED
      BY <1>0, <2>2, <3>1, <3>2, SMTT(60)
  <2>3. CASE ~(InFile /\ Fault /\ Fail(c)) /\ pc[c] # "remove"
    BY <1>0, <1>4, <2>3, SMTT(60) DEF RemoveFallback, Return
  <2> QED
    BY <2>1, <2>2, <2>3
<1>5. CASE CreateTemporary(c)
  BY <1>0, <1>5, SMTT(60) DEF CreateTemporary, Fault, Fail, Return, Go
<1>6. CASE Rename(c)
  BY <1>0, <1>6, SMTT(60) DEF Rename, Fault, Fail, Return
<1>7. CASE DeleteCredential(c)
  BY <1>0, <1>7, SMTT(60) DEF DeleteCredential, Fail, Return, Go
<1> QED
  BY <1>1, <1>2, <1>3, <1>4, <1>5, <1>6, <1>7 DEF Step

\* Every step preserves the invariant.
LEMMA NextInv == ASSUME Inv, [Next]_vars PROVE Inv'
<1>1. ASSUME NEW c \in Callers, Open(c) PROVE Inv'
  <2>1. PICK given \in {0, Legacy, Mismatch} : legacy' = [legacy EXCEPT ![c] = given]
    BY <1>1 DEF Open
  <2>2. legacy' \in [Callers -> {0, Legacy, Mismatch}]
    BY <2>1, SMT DEF Inv, TypeOK
  <2> QED
    BY <1>1, <2>2, EnterInv DEF Open
<1>2. ASSUME NEW c \in Callers, Delete(c) PROVE Inv'
  <2>1. legacy' \in [Callers -> {0, Legacy, Mismatch}]
    BY <1>2, SMT DEF Delete, Inv, TypeOK
  <2> QED
    BY <1>2, <2>1, EnterInv DEF Delete
<1>3. CASE StoreToggles
  BY <1>3, SMT DEF StoreToggles, Inv, TypeOK, SoleInv, CallInv, IdentityKept, Busy, Flag
<1>4. CASE Crash
  BY <1>4, SMT DEF Crash, Inv, TypeOK, SoleInv, CallInv, IdentityKept, Busy, Flag, Failed, Answers, Legacy
<1>5. CASE UNCHANGED vars
  BY <1>5, SMT DEF vars, storeVars, Inv, TypeOK, SoleInv, CallInv, IdentityKept, Busy
<1> QED
  BY <1>1, <1>2, <1>3, <1>4, <1>5, StepInv DEF Next

\* The inductive invariant of the identity holds in every reachable state.
THEOREM IdentityInvariant == Spec => []Inv
  BY InitInv, NextInv, PTL DEF Spec

\* The key the application was given last is never lost: not to a crash, an
\* outage of the credential store or a failed call (201-255).
THEOREM KeyKept == Spec => []IdentityKept
<1>1. Inv => IdentityKept
  BY DEF Inv
<1> QED
  BY IdentityInvariant, <1>1, PTL

\* A new key is made only when the application has none within reach (223-246).
THEOREM NoNeedless == Spec => NoNeedlessKey
<1>1. ASSUME Inv, [Next]_vars, NEW c \in alone, generated' # generated
      PROVE  last = 0 \/ (last = keyring /\ pc[c] = "unreachable")
  <2> USE <1>1
  <2>1. c \in Callers
    BY DEF Inv, TypeOK
  <2>2. PICK d \in Callers : Step(d)
    BY SMT DEF Next, Open, Delete, Enter, StoreToggles, Crash, vars, storeVars
  <2>3. CASE GetPassword(d)
    <3>1. \/ keyring = 0 /\ platform # "linux"
          \/ legacy[d] # 0 /\ ImportOrGenerate(d, "import")
      BY <2>3, SMT DEF GetPassword, Go, Fail, Return
    <3>2. CASE keyring = 0 /\ platform # "linux"
      BY <3>2, SMT DEF Inv, IdentityKept
    <3>3. CASE legacy[d] # 0 /\ ImportOrGenerate(d, "import")
      BY <3>3, SMT DEF ImportOrGenerate, Fail
    <3> QED
      BY <3>1, <3>2, <3>3
  <2>4. CASE ReadFallback(d)
    <3>1. ~InFile /\ pc[d] \in {"empty", "unreachable"}
      BY <2>4, SMT DEF ReadFallback, Fail, Return, Choose, Go
    <3>2. c = d
      BY <2>1, <3>1, SMT DEF Inv, SoleInv, Busy
    <3> QED
      BY <2>1, <3>1, <3>2, SMT DEF Inv, IdentityKept, InFile, CallInv
  <2> QED
    BY <2>2, <2>3, <2>4, SMT DEF Step, SetPassword, RemoveFallback, CreateTemporary, Rename,
         DeleteCredential, Fail
<1>2. Inv /\ [Next]_vars =>
        [\A c \in alone : generated' # generated =>
           last = 0 \/ (last = keyring /\ pc[c] = "unreachable")]_vars
  BY <1>1
<1> QED
  BY IdentityInvariant, <1>2, PTL DEF Spec, NoNeedlessKey

\* Every variable keeps its type; a pair that does not match is never stored
\* (86-120).
THEOREM IdentityTypes == Spec => []TypeOK
<1>1. Inv => TypeOK
  BY DEF Inv
<1> QED
  BY IdentityInvariant, <1>1, PTL

------------------------------------------------------------------------------

\* A call under way has not answered yet, and one that has deleted the
\* credential undisturbed goes on without it; only Linux has a fallback file.
DeleteInv ==
  /\ platform = "linux" \/ fallback = 0
  /\ \A c \in Callers : Busy(c) =>
       /\ answer[c] # Deleted
       /\ pc[c] = "purge" /\ c \in alone => keyring = 0

\* What the property says of a step.
DeletesAll ==
  \A c \in alone : pc[c] # "idle" /\ answer'[c] = Deleted =>
    /\ path = "YES" => fallback' = 0
    /\ pc[c] # "discard" => keyring' = 0

\* What a step does to the answers, by action.
LEMMA DeleteStep ==
  ASSUME Inv, DeleteInv, NEW c \in Callers, Step(c)
  PROVE  /\ DeleteInv'
         /\ DeletesAll
<1> USE DEF Inv, TypeOK, SoleInv, CallInv, Busy, DeleteInv, DeletesAll, Failed, Deleted, Answers
<1>0. UNCHANGED <<platform, path, reachable, legacy, alone>> /\ alone \subseteq Callers
  BY DEF Step
<1>1. ASSUME NEW target \in {"import", "set", "create"}, ImportOrGenerate(c, target), pc[c] \notin {"idle", "purge"}
      PROVE  DeleteInv' /\ \A d \in alone : Busy(d) => answer'[d] # Deleted
  BY <1>0, <1>1, ChooseCases, SMT
<1>2. ASSUME Fail(c), pc[c] # "idle"
      PROVE  DeleteInv' /\ \A d \in alone : Busy(d) => answer'[d] # Deleted
  BY <1>0, <1>2, SMT DEF Fail, Return
<1>3. ASSUME NEW value \in Answers, value.backend # "deleted", Return(c, value), pc[c] # "idle",
             platform = "linux" \/ fallback' = 0
      PROVE  DeleteInv' /\ \A d \in alone : Busy(d) => answer'[d] # Deleted
  BY <1>0, <1>3, SMT DEF Return
<1>4. CASE GetPassword(c)
  BY <1>0, <1>1, <1>2, <1>4, SMT DEF GetPassword, Return, Go
<1>5. CASE ReadFallback(c)
  BY <1>0, <1>1, <1>2, <1>5, SMT DEF ReadFallback, Return, Go, Choose
<1>6. CASE SetPassword(c)
  BY <1>0, <1>2, <1>6, SMT DEF SetPassword, Return
<1>7. CASE RemoveFallback(c)
  BY <1>0, <1>2, <1>7, SMT DEF RemoveFallback, Return
<1>8. CASE CreateTemporary(c)
  BY <1>0, <1>2, <1>8, SMT DEF CreateTemporary, Return, Go
<1>9. CASE Rename(c)
  BY <1>0, <1>2, <1>9, SMT DEF Rename, Return
<1>10. CASE DeleteCredential(c)
  <2>1. CASE Fail(c)
    BY <1>2, <1>10, <2>1 DEF DeleteCredential
  <2>2. CASE Go(c, "purge") /\ keyring' = 0
    BY <1>0, <1>10, <2>2, SMT DEF DeleteCredential, Go, Fail
  <2>3. CASE keyring' = 0 /\ platform # "linux" /\ Return(c, Deleted) /\ UNCHANGED fallback
    <3>1. fallback = 0
      BY <2>3 DEF DeleteInv
    <3> QED
      BY <1>0, <1>10, <2>3, <3>1, SMT DEF DeleteCredential, Return
  <2>4. CASE Go(c, "discard") /\ UNCHANGED keyring
    BY <1>0, <1>10, <2>4, SMT DEF DeleteCredential, Go, Fail
  <2> QED
    BY <1>10, <2>1, <2>2, <2>3, <2>4 DEF DeleteCredential
<1> QED
  BY <1>4, <1>5, <1>6, <1>7, <1>8, <1>9, <1>10 DEF Step

\* A delete that nothing overlaps and that succeeds leaves no fallback file and,
\* unless the store did not answer, no credential (257-275).
THEOREM Deletes == Spec => DeletedMeansGone
<1>1. Init => DeleteInv
  BY SMT DEF Init, DeleteInv, Busy
<1>2. ASSUME Inv, DeleteInv, [Next]_vars
      PROVE  /\ DeleteInv'
             /\ DeletesAll
  <2>1. ASSUME NEW c \in Callers, Open(c) \/ Delete(c) PROVE DeleteInv' /\ DeletesAll
    BY <1>2, <2>1, SMT DEF Open, Delete, Enter, storeVars, Inv, TypeOK, Busy, DeleteInv,
         DeletesAll, Failed, Deleted, Answers
  <2>2. ASSUME StoreToggles \/ Crash \/ UNCHANGED vars PROVE DeleteInv' /\ DeletesAll
    BY <1>2, <2>2, SMT DEF StoreToggles, Crash, vars, storeVars, Inv, TypeOK, Busy, DeleteInv,
         DeletesAll, Failed, Deleted, Answers
  <2>3. ASSUME NEW c \in Callers, Step(c) PROVE DeleteInv' /\ DeletesAll
    BY <1>2, <2>3, DeleteStep
  <2> QED
    <3>1. \/ \E c \in Callers : Open(c) \/ Delete(c) \/ Step(c)
          \/ StoreToggles \/ Crash \/ UNCHANGED vars
      BY <1>2 DEF Next
    <3> QED
      BY <2>1, <2>2, <2>3, <3>1
<1>3. Inv /\ DeleteInv /\ [Next]_vars =>
        [\A c \in alone : pc[c] # "idle" /\ answer'[c] = Deleted =>
           /\ path = "YES" => fallback' = 0
           /\ pc[c] # "discard" => keyring' = 0]_vars
  BY <1>2 DEF DeletesAll
<1> QED
  BY IdentityInvariant, <1>1, <1>2, <1>3, PTL DEF Spec, DeletedMeansGone

------------------------------------------------------------------------------

\* A call that neither turns to the credential store nor has touched it leaves a
\* safe key safe.
LEMMA SafeMoves ==
  ASSUME Inv, Safe, NEW c \in Callers, NEW target, pc' = [pc EXCEPT ![c] = target], pc[c] # "idle",
         target \notin {"empty", "import", "set", "delete"}, UNCHANGED <<keyring, legacy>>
  PROVE  Safe' /\ keyring' = keyring
  BY SMT DEF Safe, Inv, TypeOK

\* No step of an open that began beside a safe key leads to a write of the
\* credential store, wherever the other calls are.
LEMMA SafeStep ==
  ASSUME Inv, Safe, NEW c \in Callers, Step(c)
  PROVE  Safe' /\ keyring' = keyring
<1>0. UNCHANGED legacy
  BY DEF Step
<1>1. ASSUME Fail(c), pc[c] # "idle"
      PROVE  Safe' /\ keyring' = keyring
  BY <1>0, <1>1, SafeMoves DEF Fail, Return
<1>2. ASSUME NEW value, Return(c, value), UNCHANGED keyring, pc[c] # "idle"
      PROVE  Safe' /\ keyring' = keyring
  BY <1>0, <1>2, SafeMoves DEF Return
<1>3. CASE GetPassword(c)
  <2>1. pc[c] = "get" /\ keyring # 0 /\ legacy[c] \in {0, keyring}
    BY <1>3 DEF GetPassword, Safe
  <2>2. \/ Fail(c)
        \/ UNCHANGED keyring /\ \E value : Return(c, value)
        \/ UNCHANGED keyring /\ Go(c, "unreachable")
    BY <1>3, <2>1 DEF GetPassword
  <2> QED
    BY <1>0, <1>1, <1>2, <2>1, <2>2, SafeMoves DEF Go
<1>4. CASE ReadFallback(c)
  <2>1. pc[c] = "unreachable"
    BY <1>4 DEF ReadFallback, Safe
  <2>2. \/ Fail(c)
        \/ UNCHANGED keyring /\ \E value : Return(c, value)
        \/ ImportOrGenerate(c, "create")
    BY <1>4, <2>1 DEF ReadFallback
  <2>3. ASSUME ImportOrGenerate(c, "create")
        PROVE  Safe' /\ keyring' = keyring
    <3>1. /\ UNCHANGED keyring
          /\ \/ pc' = [pc EXCEPT ![c] = "create"]
             \/ pc' = [pc EXCEPT ![c] = "idle"]
      BY <2>3, ChooseCases
    <3> QED
      BY <1>0, <2>1, <3>1, SafeMoves
  <2> QED
    BY <1>1, <1>2, <2>1, <2>2, <2>3
<1>5. CASE SetPassword(c) \/ DeleteCredential(c)
  BY <1>5 DEF SetPassword, DeleteCredential, Safe
<1>6. CASE RemoveFallback(c)
  <2>1. pc[c] # "idle"
    BY <1>6 DEF RemoveFallback
  <2>2. Fail(c) \/ (UNCHANGED keyring /\ \E value : Return(c, value))
    BY <1>6 DEF RemoveFallback
  <2> QED
    BY <1>1, <1>2, <2>1, <2>2
<1>7. CASE CreateTemporary(c)
  <2>1. pc[c] = "create" /\ pc[c] # "idle"
    BY <1>7 DEF CreateTemporary
  <2>2. \/ Fail(c)
        \/ UNCHANGED keyring /\ Return(c, Failed)
        \/ UNCHANGED keyring /\ Go(c, "rename")
    BY <1>7 DEF CreateTemporary
  <2> QED
    BY <1>0, <1>1, <1>2, <2>1, <2>2, SafeMoves DEF Go
<1>8. CASE Rename(c)
  <2>1. pc[c] = "rename" /\ pc[c] # "idle"
    BY <1>8 DEF Rename
  <2>2. Fail(c) \/ (UNCHANGED keyring /\ \E value : Return(c, value))
    BY <1>8 DEF Rename
  <2> QED
    BY <1>1, <1>2, <2>1, <2>2
<1> QED
  BY <1>3, <1>4, <1>5, <1>6, <1>7, <1>8 DEF Step

\* A key that is safe in the credential store stays there, however many opens
\* overlap, until a delete or an import begins (206-251).
THEOREM StoredKept == Spec => StoredKeyStays
<1> DEFINE Kept ==
  Safe /\ (\A c \in Callers : pc'[c] # "delete" /\ (pc'[c] = "get" => legacy'[c] \in {0, keyring}))
    => Safe' /\ keyring' = keyring
<1>1. ASSUME Inv, Next, Safe,
             \A c \in Callers : pc'[c] # "delete" /\ (pc'[c] = "get" => legacy'[c] \in {0, keyring})
      PROVE  Safe' /\ keyring' = keyring
  <2>1. ASSUME NEW c \in Callers, Open(c) PROVE Safe' /\ keyring' = keyring
    <3>1. /\ pc' = [pc EXCEPT ![c] = "get"] /\ UNCHANGED keyring
          /\ \E given : legacy' = [legacy EXCEPT ![c] = given]
      BY <2>1 DEF Open, Enter, storeVars
    <3>2. pc'[c] = "get" /\ legacy'[c] \in {0, keyring}
      BY <1>1, <3>1 DEF Inv, TypeOK
    <3>3. \A d \in Callers \ {c} : pc'[d] = pc[d] /\ legacy'[d] = legacy[d]
      BY <1>1, <3>1 DEF Inv, TypeOK
    <3> QED
      BY <1>1, <3>1, <3>2, <3>3 DEF Safe
  <2>2. ASSUME NEW c \in Callers, Delete(c) PROVE FALSE
    <3>1. pc'[c] = "delete"
      BY <1>1, <2>2 DEF Delete, Enter, Inv, TypeOK
    <3> QED
      BY <1>1, <3>1
  <2>3. ASSUME StoreToggles \/ Crash PROVE Safe' /\ keyring' = keyring
    BY <1>1, <2>3 DEF StoreToggles, Crash, Safe
  <2> QED
    BY <1>1, <2>1, <2>2, <2>3, SafeStep DEF Next
<1>2. Inv /\ [Next]_vars => [Kept]_vars
  BY <1>1
<1> QED
  BY IdentityInvariant, <1>2, PTL DEF Spec, StoredKeyStays

==============================================================================

------------------------------- MODULE Identity -------------------------------
(***************************************************************************)
(* src/service_identity.rs: the signing key of the application, kept in    *)
(* the credential store of the platform or, on Linux when that cannot be   *)
(* reached, in a file.  Calls run on worker threads and are not serialised;*)
(* the store comes and goes and the process may die between any two calls  *)
(* of the system.  A key stands for its pair; 0 is none.                   *)
(***************************************************************************)
EXTENDS Naturals

CONSTANTS
  Callers,    \* worker threads that may be inside an open or a delete
  Platforms,  \* "linux", and "other" for Windows and macOS
  MaxKeys,    \* bound: keys generated
  MaxFaults   \* bound: calls of the file system that fail

ASSUME IdentityAssumption ==
  /\ Platforms \subseteq {"linux", "other"}
  /\ MaxKeys \in Nat /\ MaxFaults \in Nat

VARIABLES
  platform,  \* the platform
  path,      \* whether the options name a fallback file
  reachable, \* whether the credential store answers
  keyring,   \* key in the credential store
  fallback,  \* key in the fallback file
  temporary, \* whether the temporary file of this process id exists
  generated, \* keys generated so far
  faults,    \* faults so far
  pc,        \* where each caller is
  legacy,    \* the key pair it was given to import
  key,       \* the key it has chosen
  answer,    \* its last answer: [key, backend], deleted or failed
  alone,     \* callers that no other call has overlapped (history)
  last       \* the key the application goes by (history)

storeVars == <<platform, path, reachable, keyring, fallback, temporary, generated, faults>>
vars == <<storeVars, pc, legacy, key, answer, alone, last>>

\* The key to import is one of another origin, or a pair that does not match.
Legacy   == MaxKeys + 1
Mismatch == MaxKeys + 2
Keys     == 1..Legacy
Flag     == {"YES", "NO"}
Failed   == [key |-> 0, backend |-> "failed"]
Deleted  == [key |-> 0, backend |-> "deleted"]
Answers  == [key : 0..Legacy, backend : {"keyring", "file", "deleted", "failed"}]

TypeOK ==
  /\ platform \in Platforms /\ path \in Flag /\ reachable \in Flag
  /\ keyring \in 0..Legacy /\ fallback \in 0..Legacy
  /\ temporary \in Flag
  /\ generated \in 0..MaxKeys /\ faults \in 0..MaxFaults
  /\ pc \in [Callers -> {"idle", "get", "empty", "unreachable", "import", "set", "remove",
                         "create", "rename", "delete", "purge", "discard"}]
  /\ legacy \in [Callers -> {0, Legacy, Mismatch}]
  /\ key \in [Callers -> 0..Legacy]
  /\ answer \in [Callers -> Answers]
  /\ alone \subseteq Callers
  /\ last \in 0..Legacy

Init ==
  /\ platform \in Platforms /\ path \in Flag /\ reachable \in Flag
  /\ keyring = 0 /\ fallback = 0 /\ temporary = "NO"
  /\ generated = 0 /\ faults = 0
  /\ pc = [c \in Callers |-> "idle"] /\ legacy = [c \in Callers |-> 0]
  /\ key = [c \in Callers |-> 0] /\ answer = [c \in Callers |-> Failed]
  /\ alone = {} /\ last = 0

Fault == faults < MaxFaults /\ faults' = faults + 1

------------------------------------------------------------------------------
(* A call *)

\* An identity is kept only from one call to the next; what overlapping calls
\* leave is theirs to settle.
Enter(c, target) ==
  /\ pc[c] = "idle"
  /\ pc' = [pc EXCEPT ![c] = target]
  /\ LET others == {d \in Callers : pc[d] # "idle"}
     IN /\ alone' = IF others = {} THEN {c} ELSE {}
        /\ last' = IF others = {} /\ target # "delete" THEN last ELSE 0
  /\ key' = [key EXCEPT ![c] = 0]
  /\ answer' = [answer EXCEPT ![c] = Failed]
  /\ UNCHANGED storeVars

Open(c) == \E given \in {0, Legacy, Mismatch} :
             legacy' = [legacy EXCEPT ![c] = given] /\ Enter(c, "get")

Delete(c) == legacy' = [legacy EXCEPT ![c] = 0] /\ Enter(c, "delete")

Go(c, target) == pc' = [pc EXCEPT ![c] = target] /\ UNCHANGED <<answer, last>>

\* The application goes by what it is told, if nothing else went on.
Return(c, value) ==
  /\ pc' = [pc EXCEPT ![c] = "idle"]
  /\ answer' = [answer EXCEPT ![c] = value]
  /\ last' = IF c \in alone /\ value.key # 0 THEN value.key ELSE last

Fail(c) == Return(c, Failed) /\ UNCHANGED <<keyring, fallback, temporary, generated, key>>

Choose(c, k, target) == key' = [key EXCEPT ![c] = k] /\ Go(c, target)

\* Mutant: the pair to import is not checked.
ImportUnchecked(c, target) ==
  /\ IF legacy[c] # 0
     THEN Choose(c, legacy[c], target) /\ UNCHANGED generated
     ELSE generated < MaxKeys /\ generated' = generated + 1 /\ Choose(c, generated', target)
  /\ UNCHANGED <<keyring, fallback, temporary>>

\* imported_or_generated, and on to the next call
ImportOrGenerate(c, target) ==
  \/ /\ legacy[c] = Legacy
     /\ Choose(c, Legacy, target)
     /\ UNCHANGED <<keyring, fallback, temporary, generated>>
  \/ /\ legacy[c] = 0 /\ generated < MaxKeys
     /\ generated' = generated + 1
     /\ Choose(c, generated', target)
     /\ UNCHANGED <<keyring, fallback, temporary>>
  \/ legacy[c] = Mismatch /\ Fail(c)

\* Mutant: a store that does not answer counts as one without a key.
GetPasswordAnyError(c) ==
  /\ pc[c] = "get"
  /\ UNCHANGED faults
  /\ IF reachable = "YES" /\ keyring # 0 /\ legacy[c] \in {0, keyring}
     THEN /\ Return(c, [key |-> keyring, backend |-> "keyring"])
          /\ UNCHANGED <<keyring, fallback, temporary, generated, key>>
     ELSE IF reachable = "YES" /\ keyring # 0
     THEN ImportOrGenerate(c, "import")
     ELSE IF platform = "linux"
     THEN Go(c, "empty") /\ UNCHANGED <<keyring, fallback, temporary, generated, key>>
     ELSE ImportOrGenerate(c, "set")

\* get_password: what is stored, unless another key is to be imported.
GetPassword(c) ==
  /\ pc[c] = "get"
  /\ UNCHANGED faults
  /\ \/ /\ reachable = "YES" /\ keyring # 0
        /\ \/ /\ legacy[c] \in {0, keyring}
              /\ Return(c, [key |-> keyring, backend |-> "keyring"])
              /\ UNCHANGED <<keyring, fallback, temporary, generated, key>>
           \/ /\ legacy[c] \notin {0, keyring}
              /\ ImportOrGenerate(c, "import")
     \/ /\ reachable = "YES" /\ keyring = 0
        /\ IF platform = "linux"
           THEN Go(c, "empty") /\ UNCHANGED <<keyring, fallback, temporary, generated, key>>
           ELSE ImportOrGenerate(c, "set")
     \/ /\ reachable = "NO"
        /\ IF platform = "linux"
           THEN Go(c, "unreachable") /\ UNCHANGED <<keyring, fallback, temporary, generated, key>>
           ELSE Fail(c)

InFile == path = "YES" /\ fallback # 0

\* Mutant: the file is read only when the credential store is unreachable.
ReadFallbackUnreachable(c) ==
  /\ pc[c] \in {"empty", "unreachable"}
  /\ UNCHANGED faults
  /\ IF InFile /\ pc[c] = "unreachable"
     THEN /\ Return(c, [key |-> fallback, backend |-> "file"])
          /\ UNCHANGED <<keyring, fallback, temporary, generated, key>>
     ELSE ImportOrGenerate(c, IF pc[c] = "empty" THEN "set" ELSE "create")

\* read_fallback: the key of the file comes before the one to import.
ReadFallback(c) ==
  /\ pc[c] \in {"empty", "unreachable"}
  /\ \/ path = "YES" /\ Fault /\ Fail(c)
     \/ /\ InFile
        /\ IF pc[c] = "empty"
           THEN Choose(c, fallback, "set")
           ELSE Return(c, [key |-> fallback, backend |-> "file"]) /\ UNCHANGED key
        /\ UNCHANGED <<keyring, fallback, temporary, generated, faults>>
     \/ /\ ~InFile
        /\ ImportOrGenerate(c, IF pc[c] = "empty" THEN "set" ELSE "create")
        /\ UNCHANGED faults

\* Mutant: the fallback is removed before its key is stored elsewhere.
SetPasswordLate(c) ==
  /\ pc[c] \in {"import", "set"}
  /\ IF fallback # 0 /\ platform = "linux" /\ pc[c] = "set"
     THEN /\ fallback' = 0 /\ Go(c, "set")
          /\ UNCHANGED <<keyring, temporary, generated, key>>
     ELSE /\ keyring' = key[c]
          /\ Return(c, [key |-> key[c], backend |-> "keyring"])
          /\ UNCHANGED <<fallback, temporary, generated, key>>
  /\ UNCHANGED faults

\* set_password; an import replaces the key the application goes by.
SetPassword(c) ==
  /\ pc[c] \in {"import", "set"}
  /\ UNCHANGED faults
  /\ \/ reachable = "NO" /\ Fail(c)
     \/ /\ reachable = "YES"
        /\ keyring' = key[c]
        /\ IF pc[c] = "import" \/ platform = "other"
           THEN Return(c, [key |-> key[c], backend |-> "keyring"])
           ELSE pc' = [pc EXCEPT ![c] = "remove"] /\ UNCHANGED <<answer, last>>
        /\ UNCHANGED <<fallback, temporary, generated, key>>

\* remove_fallback, at the end of an open and of a delete
RemoveFallback(c) ==
  /\ pc[c] \in {"remove", "purge", "discard"}
  /\ \/ InFile /\ Fault /\ Fail(c)
     \/ /\ fallback' = IF path = "YES" THEN 0 ELSE fallback
        /\ Return(c, IF pc[c] = "remove" THEN [key |-> key[c], backend |-> "keyring"] ELSE Deleted)
        /\ UNCHANGED <<keyring, temporary, generated, key, faults>>

\* write_fallback up to the temporary file, which must not exist; if it could
\* be created but not written, it stays.
CreateTemporary(c) ==
  /\ pc[c] = "create"
  /\ \/ (path = "NO" \/ temporary = "YES") /\ Fail(c) /\ UNCHANGED faults
     \/ /\ path = "YES" /\ temporary = "NO"
        /\ \/ temporary' = "YES" /\ Go(c, "rename") /\ UNCHANGED faults
           \/ Fault /\ temporary' \in Flag /\ Return(c, Failed)
        /\ UNCHANGED <<keyring, fallback, generated, key>>

\* The file gets its name in one step.
Rename(c) ==
  /\ pc[c] = "rename"
  /\ \/ Fault /\ Fail(c)
     \/ /\ temporary' = "NO" /\ fallback' = key[c]
        /\ Return(c, [key |-> key[c], backend |-> "file"])
        /\ UNCHANGED <<keyring, generated, key, faults>>

\* Mutant: the fallback file is taken care of only when the store fails.
DeleteCredentialOnly(c) ==
  /\ pc[c] = "delete" /\ reachable = "YES"
  /\ keyring' = 0
  /\ Return(c, Deleted)
  /\ UNCHANGED <<fallback, temporary, generated, key, faults>>

\* delete_credential; on Linux an unreachable store leaves only the file to
\* delete, and there must be a path.
DeleteCredential(c) ==
  /\ pc[c] = "delete"
  /\ UNCHANGED faults
  /\ \/ /\ reachable = "YES"
        /\ keyring' = 0
        /\ IF platform = "linux" THEN Go(c, "purge") ELSE Return(c, Deleted)
        /\ UNCHANGED <<fallback, temporary, generated, key>>
     \/ /\ reachable = "NO"
        /\ IF platform = "linux" /\ path = "YES"
           THEN Go(c, "discard") /\ UNCHANGED <<keyring, fallback, temporary, generated, key>>
           ELSE Fail(c)

Step(c) ==
  /\ GetPassword(c) \/ ReadFallback(c) \/ SetPassword(c) \/ RemoveFallback(c)
       \/ CreateTemporary(c) \/ Rename(c) \/ DeleteCredential(c)
  /\ UNCHANGED <<platform, path, reachable, legacy, alone>>

------------------------------------------------------------------------------

\* The store locks, unlocks, starts or stops.
StoreToggles ==
  /\ reachable' = IF reachable = "YES" THEN "NO" ELSE "YES"
  /\ UNCHANGED <<platform, path, keyring, fallback, temporary, generated, faults,
                 pc, legacy, key, answer, alone, last>>

\* The process dies.  The next one may or may not get the same process id.
Crash ==
  /\ pc' = [c \in Callers |-> "idle"]
  /\ legacy' = [c \in Callers |-> 0] /\ key' = [c \in Callers |-> 0]
  /\ answer' = [c \in Callers |-> Failed]
  /\ alone' = {}
  /\ temporary' \in {temporary, "NO"}
  /\ UNCHANGED <<platform, path, reachable, keyring, fallback, generated, faults, last>>

Next ==
  \/ \E c \in Callers : Open(c) \/ Delete(c) \/ Step(c)
  \/ StoreToggles
  \/ Crash

Spec == Init /\ [][Next]_vars

------------------------------------------------------------------------------

\* The key the application was last given, by a call that no other overlapped,
\* stays in one of the two stores through crashes, outages and failed calls
\* until it is deleted or replaced by an import (201-255).
IdentityKept ==
  last # 0 => last = keyring \/ (platform = "linux" /\ path = "YES" /\ last = fallback)

\* A call that no other overlaps makes a new key only if the application has
\* none, or has the one of a credential store that did not answer (223-246).
NoNeedlessKey ==
  [][\A c \in alone : generated' # generated =>
       last = 0 \/ (last = keyring /\ pc[c] = "unreachable")]_vars

\* A key that is safe in the credential store: of the calls in progress none is
\* to import another one, has found the store empty or is to delete.
Safe ==
  /\ keyring # 0
  /\ \A c \in Callers : pc[c] # "idle" =>
       pc[c] \notin {"empty", "import", "set", "delete"} /\ legacy[c] \in {0, keyring}

\* However many opens overlap, with the store coming and going and crashes in
\* between, none of them replaces a key that is safe there; only a delete or an
\* import that begins does: keys that opens make beside it go to the file, and all
\* that an overlap can lose is a key not yet safe in the store (206-251).
StoredKeyStays ==
  [][ Safe /\ (\A c \in Callers : pc'[c] # "delete" /\ (pc'[c] = "get" => legacy'[c] \in {0, keyring}))
        => Safe' /\ keyring' = keyring ]_vars

\* A delete that succeeds leaves no fallback file and, unless the credential
\* store did not answer, no key there (257-275).
DeletedMeansGone ==
  [][\A c \in alone : pc[c] # "idle" /\ answer'[c] = Deleted =>
       /\ path = "YES" => fallback' = 0
       /\ pc[c] # "discard" => keyring' = 0]_vars

==============================================================================

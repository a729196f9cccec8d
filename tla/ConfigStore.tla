----------------------------- MODULE ConfigStore -----------------------------
(***************************************************************************)
(* The stores of internal/config/store.go and what GetConfig (config.go)   *)
(* resolves from them: the secret configuration of an installation, read   *)
(* from flags, the environment, secret.json or a Kubernetes secret, and    *)
(* written back by the steps that a crash or an error can separate.        *)
(*                                                                         *)
(* secret.json is read and written by viper (external).  A file of an      *)
(* older version has its entries under the fields' names, a new one under  *)
(* their mapstructure tags; a written file keeps the entries it was read   *)
(* with.  Writing truncates the file before it fills it.                   *)
(***************************************************************************)
EXTENDS Naturals, Sequences, FiniteSets

CONSTANT None  \* the empty string: a setting that is not there

(* SecretConfig *)
Secrets(i, t, p) == [id |-> i, token |-> t, thumb |-> p]
NoSecrets == Secrets(None, None, None)
Fields == DOMAIN NoSecrets

ASSUME NoneAssumption == None \notin Nat \cup [Fields -> Nat \cup {None}]

VARIABLES setup,      \* the store this installation is set up with
          given,      \* what its flags and environment say
          secretFile, \* secret.json: its mode and its entries, by tag and by name
          configFile, \* config.json: "none", "empty" or "saved"
          secret,     \* the Kubernetes secret, None if there is none
          loaded      \* the entries by name that secretViper holds

storeVars == <<setup, given, secretFile, configFile, secret, loaded>>

NoFile == [mode |-> "none", tag |-> NoSecrets, name |-> NoSecrets]

(* NewStore: the type may be unknown, the namespace of the Kubernetes      *)
(* store missing, its prefix not to be had from the hostname.              *)
NewStore(s) == s # "broken"

(* NewFileStore falls back to a store that cannot be written. *)
Writable(s) == s # "readonly"

(* viper (external): flags and the environment go before the files.  The   *)
(* chart gives the container the Kubernetes secret as its environment.     *)
Environment ==
  [f \in Fields |-> IF given[f] # None \/ secret = None THEN given[f] ELSE secret[f]]

Over(first, then) == [f \in Fields |-> IF first[f] # None THEN first[f] ELSE then[f]]

(* getFieldMapper, convertToMapstructureTag: the entries by name are added *)
(* under their tags.  Where a field has both, the order of a Go map decides *)
(* which one is left.                                                      *)
convertToMapstructureTag(file) ==
  {entries \in [Fields -> UNION {{file.tag[f], file.name[f]} : f \in Fields}] :
     \A f \in Fields : entries[f] \in {Over(file.tag, file.name)[f], Over(file.name, file.tag)[f]}}

(* FileStore.Read: both files are merged beneath flags and environment *)
FileRead == {Over(Environment, stored) : stored \in convertToMapstructureTag(secretFile)}

(* A secret.json that is there may fail to be read: FileStore.Read keeps   *)
(* the error and goes on with what flags and environment say.              *)
ReadInConfigFails == setup = "file" /\ secretFile.mode # "none"

(* KubernetesStore.Read and ReadOnlyStore.Read *)
EnvironmentRead == {Environment}

Read == IF setup = "file" THEN FileRead ELSE EnvironmentRead

(* Mutant: credentials without a thumbprint do not count. *)
IsRegisteredAndPinned(c) == c.id # None /\ c.token # None /\ c.thumb # None

(* MonitorIsRegistered *)
MonitorIsRegistered(c) == c.id # None /\ c.token # None

-----------------------------------------------------------------------------
(* Mutant: the mode of the file is left alone. *)
KeepPermissions == UNCHANGED secretFile

(* FileStore.WriteSecrets, in the order of its effects *)
RestrictPermissions ==
  secretFile' = [secretFile EXCEPT !.mode = IF @ = "none" THEN @ ELSE "private"]

Truncate ==
  secretFile' = [NoFile EXCEPT !.mode = IF secretFile.mode = "none" THEN "private"
                                        ELSE secretFile.mode]

FileWrite(c) ==
  secretFile' = [secretFile EXCEPT !.tag = Secrets(c.id, c.token, c.thumb), !.name = loaded]

(* KubernetesStore.WriteSecrets: Create, or Update if it exists *)
SecretExists == secret # None

SecretWrite(c) == secret' = Secrets(c.id, c.token, c.thumb)
==============================================================================

-------------------------- MODULE RegistrationProofs --------------------------
(***************************************************************************)
(* What an installation stores of its registrations, for any number of     *)
(* attempts, faults and registrations and whatever it started with.        *)
(***************************************************************************)
EXTENDS Registration, FiniteSetTheorems, FunctionTheorems, SequenceTheorems, TLAPS

Numbers == Nat \cup {None}

IsSecrets(x) ==
  /\ DOMAIN x = {"id", "token", "thumb"}
  /\ x["id"] \in Numbers /\ x["token"] \in Numbers /\ x["thumb"] \in {1, None}

(* The process is going to register, or has not stored the answer yet. *)
Pending == {"machine", "post"} \cup Storing

(* Everything that a setting can be read from. *)
Kept == {given, secretFile.tag, secretFile.name} \cup ({secret} \ {None})

StoreTypeOK ==
  /\ setup \in {"file", "readonly", "kubernetes", "broken"}
  /\ DOMAIN secretFile = {"mode", "tag", "name"}
  /\ \A x \in Kept \cup {loaded} : IsSecrets(x)
  /\ setup # "file" => /\ secretFile.tag = NoSecrets /\ secretFile.name = NoSecrets
                       /\ loaded = NoSecrets
  /\ setup # "kubernetes" => secret = None
  /\ phase \in {"truncate", "fill"} => setup = "file"
  /\ phase = "update" => setup = "kubernetes"
  /\ phase \in Pending \cup {"check"} => setup # "broken"

ServerTypeOK ==
  /\ issued \in Seq(Nat) /\ Len(issued) >= 1 /\ IsFiniteSet(unseen)
  /\ cut + LosesAnswer < Len(issued)
  /\ phase \in {"check", "machine"} => attempts < MaxAttempts

(* Where a setting is kept twice, the two agree. *)
Agree ==
  \A x, y \in Kept : /\ x["id"] = None \/ y["id"] = None \/ x["id"] = y["id"]
                     /\ x["token"] = None \/ y["token"] = None \/ x["token"] = y["token"]

(* A token is kept with its id and is the newest of that id, but for the   *)
(* answers to processes that had not read it.                              *)
Newest(x) ==
  /\ x["id"] # None
  /\ x["token"] \in DOMAIN issued
  /\ issued[x["token"]] = x["id"]
  /\ \A n \in DOMAIN issued : n > x["token"] => issued[n] # x["id"] \/ n \in unseen

KeptIsIssued == \A x \in Kept : x["token"] # None => Newest(x)

(* What the process holds was read from the store, or secret.json could    *)
(* not be read and it holds what flags and environment say.                *)
UnreadAtCheck == c = Config(Environment, TRUE, FALSE) /\ setup = "file" /\ loaded = NoSecrets

ReadAtCheck ==
  phase = "check" => \/ c = NoConfig
                     \/ /\ \E s \in Read : c = Config(s, TRUE, TRUE)
                        /\ setup = "file" => loaded = secretFile.name
                     \/ UnreadAtCheck

(* While the process is pending there is nothing with a token, and no      *)
(* other id, in all that it has seen: the whole store, or flags and        *)
(* environment.                                                            *)
Seen == IF c.read THEN Kept \cup {loaded} ELSE {given, loaded, NoSecrets}

NothingKeptYet ==
  phase \in Pending => /\ c.id \in Nat
                       /\ \A x \in Seen : x["token"] = None /\ x["id"] \in {None, c.id}
                       /\ ~c.read => setup = "file"

(* The client is not made without the settings of the server's API. *)
PendingHasApi == phase \in Pending => c.api

AnswerIsLast ==
  phase \in Storing => /\ c.token \in {None, Len(issued)}
                       /\ issued[Len(issued)] = c.id

Permissions ==
  /\ phase = "truncate" => secretFile.mode \in {"none", "private"}
  /\ phase = "fill" => secretFile.mode = "private"

(* The ids on the server that nothing leads to any more. *)
Lost == Range(issued) \ ({0} \cup {s.id : s \in Read})

Orphans ==
  /\ given["id"] # None => Range(issued) = {given["id"]}
  /\ Cardinality(IF phase \in Storing THEN Range(issued) \ {0, c.id} ELSE Lost)
       <= cut + Cardinality(unseen)

RegInv == /\ TypeOK /\ StoreTypeOK /\ ServerTypeOK /\ Agree /\ KeptIsIssued
          /\ ReadAtCheck /\ NothingKeptYet /\ PendingHasApi /\ AnswerIsLast
          /\ SecretsPrivate /\ Permissions /\ Orphans

-----------------------------------------------------------------------------
(* Reading a store *)

LEMMA TheFields == Fields = {"id", "token", "thumb"}
  BY DEF Fields, NoSecrets, Secrets

LEMMA OverField ==
  ASSUME NEW x, NEW y, NEW f \in Fields
  PROVE  /\ DOMAIN Over(x, y) = Fields
         /\ Over(x, y)[f] = IF x[f] # None THEN x[f] ELSE y[f]
  BY DEF Over

LEMMA EnvironmentField ==
  ASSUME NEW f \in Fields
  PROVE  /\ DOMAIN Environment = Fields
         /\ Environment[f] = IF given[f] # None \/ secret = None THEN given[f] ELSE secret[f]
  BY DEF Environment

(* With a file store, the environment is what flags and variables say.     *)
LEMMA EnvironmentGiven ==
  ASSUME StoreTypeOK, setup = "file"
  PROVE  /\ Environment["id"] = given["id"] /\ Environment["token"] = given["token"]
         /\ Environment["thumb"] = given["thumb"]
  BY EnvironmentField, TheFields DEF StoreTypeOK

(* What is read was kept somewhere, and what is kept can be read.          *)
LEMMA ReadField ==
  ASSUME StoreTypeOK, NEW s \in Read, NEW f \in Fields
  PROVE  /\ DOMAIN s = Fields
         /\ \E x \in Kept : s[f] = x[f]
         /\ s[f] = None => \A x \in Kept : x[f] = None
  <1>1. CASE setup = "file"
    <2>1. PICK stored \in convertToMapstructureTag(secretFile) : s = Over(Environment, stored)
      BY <1>1 DEF Read, FileRead
    <2>2. stored[f] \in {Over(secretFile.tag, secretFile.name)[f],
                         Over(secretFile.name, secretFile.tag)[f]}
      BY DEF convertToMapstructureTag
    <2>3. Environment[f] = given[f]
      BY <1>1, EnvironmentField DEF StoreTypeOK
    <2>4. /\ DOMAIN s = Fields
          /\ s[f] = IF Environment[f] # None THEN Environment[f] ELSE stored[f]
      BY <2>1, OverField
    <2>5. QED
      BY <1>1, <2>2, <2>3, <2>4, OverField DEF Kept, StoreTypeOK
  <1>2. CASE setup # "file"
    <2>1. s = Environment
      BY <1>2 DEF Read, EnvironmentRead
    <2>2. secretFile.tag[f] = None /\ secretFile.name[f] = None
      BY <1>2, TheFields DEF StoreTypeOK, NoSecrets, Secrets
    <2>3. QED
      BY <2>1, <2>2, EnvironmentField DEF Kept
  <1>3. QED
    BY <1>1, <1>2

LEMMA ReadIsSecrets ==
  ASSUME StoreTypeOK, NEW s \in Read
  PROVE  IsSecrets(s)
  <1>1. DOMAIN s = {"id", "token", "thumb"}
    BY ReadField, TheFields
  <1>2. /\ \E x \in Kept : s["id"] = x["id"]
        /\ \E x \in Kept : s["token"] = x["token"]
        /\ \E x \in Kept : s["thumb"] = x["thumb"]
    BY ReadField, TheFields
  <1>3. \A x \in Kept : IsSecrets(x)
    BY DEF StoreTypeOK
  <1>4. QED
    BY <1>1, <1>2, <1>3 DEF IsSecrets

(* Something can always be read. *)
LEMMA ReadNonempty ==
  ASSUME StoreTypeOK
  PROVE  Read # {}
  <1>1. CASE setup = "file"
    <2> DEFINE stored == Over(secretFile.tag, secretFile.name)
    <2>1. stored \in [Fields -> UNION {{secretFile.tag[f], secretFile.name[f]} : f \in Fields}]
      BY DEF Over
    <2>2. stored \in convertToMapstructureTag(secretFile)
      BY <2>1 DEF convertToMapstructureTag
    <2>3. QED
      BY <1>1, <2>2 DEF Read, FileRead
  <1>2. CASE setup # "file"
    BY <1>2 DEF Read, EnvironmentRead
  <1>3. QED
    BY <1>1, <1>2

(* Under Agree, an id or a token is read as it is kept.                    *)
LEMMA ReadAgrees ==
  ASSUME StoreTypeOK, Agree, NEW s \in Read, NEW x \in Kept
  PROVE  /\ x["id"] # None => s["id"] = x["id"]
         /\ x["token"] # None => s["token"] = x["token"]
  <1>1. PICK y \in Kept : s["id"] = y["id"]
    BY ReadField, TheFields
  <1>2. PICK z \in Kept : s["token"] = z["token"]
    BY ReadField, TheFields
  <1>3. /\ s["id"] = None => x["id"] = None
        /\ s["token"] = None => x["token"] = None
    BY ReadField, TheFields
  <1>4. QED
    BY <1>1, <1>2, <1>3 DEF Agree

(* Nothing that is kept changes in most steps. *)
KeptUnchanged ==
  /\ setup' = setup /\ given' = given /\ secret' = secret
  /\ secretFile'.tag = secretFile.tag /\ secretFile'.name = secretFile.name

LEMMA ReadUnchanged ==
  ASSUME KeptUnchanged
  PROVE  Kept' = Kept /\ Read' = Read /\ Environment' = Environment
  <1>1. Kept' = Kept
    BY DEF Kept, KeptUnchanged
  <1>2. Environment' = Environment
    BY DEF Environment, KeptUnchanged
  <1>3. convertToMapstructureTag(secretFile') = convertToMapstructureTag(secretFile)
    BY DEF convertToMapstructureTag, KeptUnchanged
  <1>4. QED
    BY <1>1, <1>2, <1>3 DEF Read, FileRead, EnvironmentRead, KeptUnchanged

LEMMA AppendIssued ==
  ASSUME NEW s \in Seq(Nat), NEW x \in Nat
  PROVE  /\ Append(s, x) \in Seq(Nat)
         /\ Len(Append(s, x)) = Len(s) + 1
         /\ DOMAIN Append(s, x) = 1 .. Len(s) + 1
         /\ Append(s, x)[Len(s) + 1] = x
         /\ \A n \in DOMAIN s : Append(s, x)[n] = s[n]
         /\ Range(Append(s, x)) = Range(s) \cup {x}
  <1>1. /\ Append(s, x) \in Seq(Nat)
        /\ Len(Append(s, x)) = Len(s) + 1
        /\ DOMAIN Append(s, x) = 1 .. Len(s) + 1
        /\ Append(s, x)[Len(s) + 1] = x
        /\ \A n \in DOMAIN s : Append(s, x)[n] = s[n]
    OBVIOUS
  <1>2. DOMAIN Append(s, x) = DOMAIN s \cup {Len(s) + 1}
    BY <1>1
  <1>3. QED
    BY <1>1, <1>2 DEF Range

LEMMA RangeFinite ==
  ASSUME NEW s \in Seq(Nat)
  PROVE  IsFiniteSet(Range(s)) /\ Cardinality(Range(s)) \in Nat
  <1>1. s \in Surjection(1 .. Len(s), Range(s))
    BY DEF Range, Surjection
  <1>2. IsFiniteSet(1 .. Len(s))
    BY FS_Interval
  <1>3. IsFiniteSet(Range(s))
    BY <1>1, <1>2, FS_Surjection
  <1>4. QED
    BY <1>3, FS_CardinalityType

-----------------------------------------------------------------------------
LEMMA SecretFilesAre ==
  ASSUME NEW x \in SecretFiles
  PROVE  /\ DOMAIN x = {"mode", "tag", "name"}
         /\ x.tag \in {NoSecrets, Earlier} /\ x.name \in {NoSecrets, JustId, Earlier}
         /\ x.tag # NoSecrets => x.name = NoSecrets /\ x.mode = "private"
  <1>1. CASE x = NoFile
    BY <1>1 DEF NoFile
  <1>2. CASE x = [NoFile EXCEPT !.mode = "private", !.tag = Earlier]
    BY <1>2 DEF NoFile
  <1>3. ASSUME NEW s \in {JustId, Earlier}, x = [NoFile EXCEPT !.mode = "loose", !.name = s]
        PROVE  /\ DOMAIN x = {"mode", "tag", "name"}
               /\ x.tag = NoSecrets /\ x.name = s
    BY <1>3 DEF NoFile
  <1>4. QED
    BY <1>1, <1>2, <1>3 DEF SecretFiles

LEMMA RegInit == Init => RegInv
  <1> SUFFICES ASSUME Init PROVE RegInv
    OBVIOUS
  <1>1. TypeOK
    BY BoundsAssumption DEF Init, TypeOK, NoConfig, Config, NoSecrets, Secrets, Ended
  <1>2. /\ given \in {NoSecrets, JustId, Earlier}
        /\ secretFile \in SecretFiles
        /\ secret \in {None, JustId, Earlier}
        /\ given # NoSecrets => secretFile = NoFile /\ secret = None
        /\ setup # "file" => secretFile = NoFile
        /\ setup # "kubernetes" => secret = None
        /\ setup \in {"file", "readonly", "kubernetes", "broken"}
    BY DEF Init, SecretFiles
  <1>3. /\ IsSecrets(NoSecrets) /\ IsSecrets(JustId) /\ IsSecrets(Earlier)
        /\ NoSecrets["id"] = None /\ NoSecrets["token"] = None
        /\ JustId["id"] = 0 /\ JustId["token"] = None
        /\ Earlier["id"] = 0 /\ Earlier["token"] = 1
    BY DEF IsSecrets, NoSecrets, JustId, Earlier, Secrets, Numbers
  <1>4. /\ NoFile.tag = NoSecrets /\ NoFile.name = NoSecrets
    BY DEF NoFile
  <1>5. phase = "down" /\ loaded = NoSecrets /\ issued = <<0>> /\ cut = 0 /\ unseen = {}
    BY DEF Init
  <1>6. StoreTypeOK
    BY <1>2, <1>3, <1>4, <1>5, SecretFilesAre DEF StoreTypeOK, Kept, Pending, Storing
  <1>7. \A x \in Kept : x \in {NoSecrets, JustId, Earlier}
    BY <1>2, SecretFilesAre DEF Kept
  <1>8. Agree
    BY <1>3, <1>7, NoneAssumption DEF Agree
  <1>9. ServerTypeOK
    BY <1>5, FS_EmptySet DEF ServerTypeOK, LosesAnswer, Storing
  <1>10. KeptIsIssued
    BY <1>3, <1>5, <1>7, NoneAssumption DEF KeptIsIssued, Newest
  <1>11. ReadAtCheck /\ NothingKeptYet /\ PendingHasApi /\ AnswerIsLast /\ Permissions
    BY <1>5 DEF ReadAtCheck, NothingKeptYet, PendingHasApi, AnswerIsLast, Permissions, Pending, Storing
  <1>12. SecretsPrivate
    BY <1>2, <1>3, SecretFilesAre DEF SecretsPrivate
  <1>13. Orphans
    <2>1. Range(issued) = {0}
      BY <1>5 DEF Range
    <2>2. Lost = {}
      BY <2>1 DEF Lost
    <2>3. QED
      BY <1>2, <1>3, <1>5, <2>1, <2>2, FS_EmptySet DEF Orphans, Storing
  <1>14. QED
    BY <1>1, <1>6, <1>8, <1>9, <1>10, <1>11, <1>12, <1>13 DEF RegInv

-----------------------------------------------------------------------------
(* One step, conjunct by conjunct *)

(* The steps that change what the server or a store keeps. *)
Stores == WriteSecretsTruncate \/ WriteSecretsFill \/ CreateSecret \/ UpdateSecret
Registers == (\E token \in {None, Len(issued) + 1} : Registered(token)) \/ PostAnswerLost

LEMMA OtherSteps ==
  ASSUME RegInv, [Next]_vars, ~Stores
  PROVE  KeptUnchanged
  <1>1. DOMAIN secretFile = {"mode", "tag", "name"}
    BY DEF RegInv, StoreTypeOK
  <1>2. CASE WriteSecretsChmod
    BY <1>1, <1>2 DEF WriteSecretsChmod, RestrictPermissions, KeptUnchanged
  <1>3. CASE ~WriteSecretsChmod
    BY <1>3 DEF Stores, Next, Step, Start, AlreadyRegistered, Register, FindMachine, Post, Registered,
                CannotWrite, WriteConfig, Done, Restart, MachineError, PostWithoutToken,
                PostAnswerLost, PostRefused, WriteFails, Crash, vars, storeVars, KeptUnchanged
  <1>4. QED
    BY <1>2, <1>3

LEMMA IssuedUnchanged ==
  ASSUME [Next]_vars, ~Registers
  PROVE  issued' = issued /\ unseen' = unseen
  BY DEF serverVars, Registers, Next, Step, Start, AlreadyRegistered, Register, FindMachine, Post, CannotWrite,
         WriteConfig, Done, Restart, MachineError, PostWithoutToken, PostRefused, WriteFails, Crash,
         WriteSecretsChmod, WriteSecretsTruncate, WriteSecretsFill, CreateSecret, UpdateSecret,
         Fails, vars

LEMMA RegistersIssues ==
  ASSUME RegInv, Registers
  PROVE  /\ phase = "post" /\ issued' = Append(issued, c.id)
         /\ unseen' = IF c.read THEN unseen ELSE unseen \cup {Len(issued) + 1}
         /\ c.id \in Nat /\ c'.id = c.id /\ c'.read = c.read
         /\ Len(issued) < MaxRegistrations
         /\ KeptUnchanged /\ loaded' = loaded
         /\ \/ phase' = "secrets" /\ c'.token \in {None, Len(issued) + 1} /\ cut' = cut
            \/ phase' \in {"failed", "panicked"} /\ cut' = cut + 1
  <1>1. phase = "post" /\ c.id \in Nat
    BY DEF RegInv, NothingKeptYet, Pending, Registers, Registered, PostAnswerLost
  <1>2. c \in [id : Numbers, token : Numbers, thumb : {1, None}, api : BOOLEAN, read : BOOLEAN]
    BY DEF RegInv, TypeOK, Numbers
  <1>3. CASE PostAnswerLost
    BY <1>1, <1>3 DEF PostAnswerLost, Issue, storeVars, KeptUnchanged
  <1>4. ASSUME NEW token \in {None, Len(issued) + 1}, Registered(token)
        PROVE  /\ issued' = Append(issued, c.id) /\ c'.id = c.id /\ Len(issued) < MaxRegistrations
               /\ unseen' = (IF c.read THEN unseen ELSE unseen \cup {Len(issued) + 1})
               /\ c'.read = c.read
               /\ KeptUnchanged /\ loaded' = loaded /\ cut' = cut
               /\ phase' = "secrets" /\ c'.token \in {None, Len(issued) + 1}
    BY <1>2, <1>4 DEF Registered, Issue, storeVars, KeptUnchanged
  <1>5. QED
    BY <1>1, <1>3, <1>4 DEF Registers

ConfigType == [id : Nat \cup {None}, token : Nat \cup {None}, thumb : {1, None}, api : BOOLEAN, read : BOOLEAN]

(* The answer of the server fills in token and thumbprint.                 *)
LEMMA AnswerTyped ==
  ASSUME NEW x \in ConfigType, NEW t \in Nat \cup {None}
  PROVE  [x EXCEPT !.token = t, !.thumb = 1] \in ConfigType
  <1>1. [x EXCEPT !.token = t] \in ConfigType
    BY DEF ConfigType
  <1>2. \A y \in ConfigType : [y EXCEPT !.thumb = 1] \in ConfigType
    BY DEF ConfigType
  <1>3. [x EXCEPT !.token = t, !.thumb = 1] = [[x EXCEPT !.token = t] EXCEPT !.thumb = 1]
    OBVIOUS
  <1>4. QED
    BY <1>1, <1>2, <1>3

LEMMA ConfigTyped ==
  ASSUME RegInv, [Next]_vars
  PROVE  c' \in ConfigType
  <1>1. c \in ConfigType /\ Len(issued) \in Nat /\ issued \in Seq(Nat)
    BY DEF RegInv, TypeOK, ConfigType, ServerTypeOK
  <1>2. CASE Start
    <2>1. NoConfig \in ConfigType
      BY DEF NoConfig, NoSecrets, Secrets, Config, ConfigType
    <2>2. ASSUME NEW s \in Read PROVE Config(s, TRUE, TRUE) \in ConfigType
      <3>1. IsSecrets(s)
        BY ReadIsSecrets DEF RegInv
      <3>2. QED
        BY <3>1 DEF IsSecrets, Numbers, Config, ConfigType
    <2>3. setup = "file" => Config(Environment, TRUE, FALSE) \in ConfigType
      <3>1. IsSecrets(given)
        BY DEF RegInv, StoreTypeOK, Kept
      <3>2. QED
        BY <3>1, EnvironmentGiven DEF RegInv, IsSecrets, Numbers, Config, ConfigType
    <2>4. QED
      BY <1>1, <1>2, <2>1, <2>2, <2>3 DEF Start, GetConfig, ReadInConfigFails
  <1>3. CASE Register
    <2>1. NewId \in Nat
      BY <1>1, RangeFinite DEF NewId
    <2>2. QED
      BY <1>1, <1>3, <2>1 DEF Register, GenerateId, ConfigType
  <1>4. CASE Post \/ PostWithoutToken
    <2>1. PICK token \in {None, Len(issued) + 1} : c' = [c EXCEPT !.token = token, !.thumb = 1]
      BY <1>4 DEF Post, PostWithoutToken, Registered
    <2>2. token \in Nat \cup {None}
      BY <1>1
    <2>3. QED
      BY <1>1, <2>1, <2>2, AnswerTyped
  <1>5. CASE Restart
    BY <1>5 DEF Restart, NoConfig, NoSecrets, Secrets, Config, ConfigType
  <1>6. CASE c' = c
    BY <1>1, <1>6
  <1>7. QED
    BY <1>2, <1>3, <1>4, <1>5, <1>6
    DEF Next, Step, AlreadyRegistered, FindMachine, CannotWrite, WriteConfig, Done, MachineError,
        PostAnswerLost, PostRefused, WriteFails, Crash, WriteSecretsChmod, WriteSecretsTruncate,
        WriteSecretsFill, CreateSecret, UpdateSecret, Fails, vars

LEMMA Below ==
  ASSUME NEW m \in Nat, NEW n \in Nat, NEW i \in {0, 1}, NEW j \in {0, 1}, NEW len \in Nat,
         NEW max \in Nat, m + i <= n + j, n + j < len, len <= max
  PROVE  m + i < len /\ m \in 0 .. max
  OBVIOUS

(* Lookups, registrations and lost answers stay within their bounds.       *)
LEMMA CountersTyped ==
  ASSUME RegInv, [Next]_vars
  PROVE  TypeOK' /\ ServerTypeOK'
  <1> USE DEF Ended, Storing
  <1>1. /\ issued \in Seq(Nat) /\ Len(issued) \in Nat /\ Len(issued) >= 1
        /\ cut \in Nat /\ attempts \in 0 .. MaxAttempts /\ faults \in 0 .. MaxFaults
        /\ MaxAttempts \in Nat \ {0} /\ MaxRegistrations \in Nat /\ MaxFaults \in Nat
        /\ Len(issued) <= MaxRegistrations
        /\ phase \in {"check", "machine"} => attempts < MaxAttempts
        /\ cut + LosesAnswer < Len(issued)
        /\ unseen \subseteq DOMAIN issued /\ IsFiniteSet(unseen)
    BY BoundsAssumption DEF RegInv, TypeOK, ServerTypeOK
  <1>2. /\ phase' \in Ended \cup Storing \cup {"down", "check", "machine", "post", "config", "done"}
        /\ cmd' \in {"register", "root"}
        /\ configFile' \in {"none", "empty", "saved"}
    BY DEF RegInv, TypeOK, Next, Step, Start, StartRegister, StartRoot, AlreadyRegistered, Register,
           NewOctopusApiClient, FindMachine, Post, Registered, CannotWrite, WriteConfig, Done,
           Restart, MachineError, PostWithoutToken, PostAnswerLost, PostRefused, WriteFails, Crash,
           WriteSecretsChmod, WriteSecretsTruncate, WriteSecretsFill, CreateSecret, UpdateSecret,
           Fails, vars, storeVars
  <1>3. faults' \in 0 .. MaxFaults
    <2>1. faults' = faults \/ Fault
      BY DEF Next, Step, Start, GetConfig, AlreadyRegistered, Register, FindMachine, Post,
             CannotWrite, WriteConfig, Done, Restart, MachineError, PostWithoutToken,
             PostAnswerLost, PostRefused, WriteFails, Crash, WriteSecretsChmod,
             WriteSecretsTruncate, WriteSecretsFill, CreateSecret, UpdateSecret, vars
    <2>2. QED
      BY <1>1, <2>1 DEF Fault
  <1>4. /\ attempts' \in 0 .. MaxAttempts
        /\ phase' \in {"check", "machine"} => attempts' < MaxAttempts
    BY <1>1
    DEF Next, Step, Start, AlreadyRegistered, Register, NewOctopusApiClient, FindMachine, Post,
        Registered, CannotWrite, WriteConfig, Done, Restart, MachineError, PostWithoutToken,
        PostAnswerLost, PostRefused, WriteFails, Crash, WriteSecretsChmod, WriteSecretsTruncate,
        WriteSecretsFill, CreateSecret, UpdateSecret, Fails, vars
  <1>5. CASE Registers
    <2>1. /\ issued' \in Seq(Nat) /\ Len(issued') = Len(issued) + 1
          /\ DOMAIN issued' = 1 .. Len(issued) + 1
      BY <1>1, <1>5, RegistersIssues, AppendIssued
    <2>2. /\ Len(issued) < MaxRegistrations
          /\ \/ phase' = "secrets" /\ cut' = cut
             \/ phase' \in {"failed", "panicked"} /\ cut' = cut + 1
      BY <1>5, RegistersIssues
    <2>3. cut' + LosesAnswer' < Len(issued') /\ cut' \in Nat /\ cut < Len(issued)
      BY <1>1, <2>1, <2>2 DEF LosesAnswer
    <2>4. cut' \in 0 .. MaxRegistrations /\ Len(issued') \in 1 .. MaxRegistrations
      BY <1>1, <2>1, <2>2, <2>3
    <2>5. unseen' \subseteq DOMAIN issued' /\ IsFiniteSet(unseen')
      <3>1. unseen' \in {unseen, unseen \cup {Len(issued) + 1}}
        BY <1>5, RegistersIssues
      <3>2. IsFiniteSet(unseen')
        BY <1>1, <3>1, FS_AddElement
      <3>3. QED
        BY <1>1, <2>1, <3>1, <3>2
    <2>6. QED
      BY <1>2, <1>3, <1>4, <2>1, <2>3, <2>4, <2>5, ConfigTyped DEF TypeOK, ServerTypeOK, ConfigType
  <1>6. CASE ~Registers
    <2>1. issued' = issued /\ unseen' = unseen
      BY <1>6, IssuedUnchanged
    <2>2. cut' + LosesAnswer' <= cut + LosesAnswer /\ cut' \in Nat
      BY <1>1, <1>6
      DEF LosesAnswer, Registers, Next, Step, Start, StartRegister, StartRoot, AlreadyRegistered,
          Register, NewOctopusApiClient, FindMachine, Post, CannotWrite, WriteConfig, Done, Restart,
          MachineError, PostWithoutToken, PostRefused, WriteFails, Crash, WriteSecretsChmod,
          WriteSecretsTruncate, WriteSecretsFill, CreateSecret, UpdateSecret, Fails, vars
    <2>3. cut' + LosesAnswer' < Len(issued) /\ cut' \in 0 .. MaxRegistrations
      <3>1. LosesAnswer \in {0, 1} /\ LosesAnswer' \in {0, 1}
        BY DEF LosesAnswer
      <3>2. /\ cut \in Nat /\ cut' \in Nat /\ MaxRegistrations \in Nat
            /\ Len(issued) \in Nat /\ Len(issued) <= MaxRegistrations
            /\ cut' + LosesAnswer' <= cut + LosesAnswer /\ cut + LosesAnswer < Len(issued)
        BY <1>1, <2>2
      <3>3. QED
        BY <3>1, <3>2, Below
    <2>4. QED
      BY <1>1, <1>2, <1>3, <1>4, <2>1, <2>3, ConfigTyped DEF TypeOK, ServerTypeOK, ConfigType
  <1>7. QED
    BY <1>5, <1>6

(* WriteSecrets (store.go) touches only the store of its setup.            *)
LEMMA StoreTyped ==
  ASSUME RegInv, [Next]_vars
  PROVE  StoreTypeOK'
  <1>1. StoreTypeOK /\ IsSecrets(Secrets(c.id, c.token, c.thumb)) /\ IsSecrets(NoSecrets)
    BY DEF RegInv, TypeOK, IsSecrets, Numbers, NoSecrets, Secrets
  <1>2. /\ phase' \in {"truncate", "fill"} => setup = "file"
        /\ phase' = "update" => setup = "kubernetes"
        /\ phase' \in Pending \cup {"check"} => setup # "broken"
        /\ setup' = setup /\ given' = given
    BY <1>1
    DEF StoreTypeOK, Pending, Storing, Ended, NewStore, Next, Step, Start, StartRegister, StartRoot,
        AlreadyRegistered, Register, NewOctopusApiClient, FindMachine, Post, Registered, CannotWrite,
        WriteConfig, Done, Restart, MachineError, PostWithoutToken, PostAnswerLost, PostRefused,
        WriteFails, Crash, WriteSecretsChmod, WriteSecretsTruncate, WriteSecretsFill, CreateSecret,
        UpdateSecret, Fails, vars, storeVars
  <1>3. /\ secretFile'.tag \in {secretFile.tag, NoSecrets, Secrets(c.id, c.token, c.thumb)}
        /\ secretFile'.name \in {secretFile.name, NoSecrets, loaded}
        /\ DOMAIN secretFile' = {"mode", "tag", "name"}
        /\ setup # "file" => secretFile' = secretFile
    <2>1. CASE WriteSecretsChmod
      BY <1>1, <2>1 DEF WriteSecretsChmod, RestrictPermissions, StoreTypeOK
    <2>2. CASE WriteSecretsTruncate
      BY <1>1, <2>2 DEF WriteSecretsTruncate, Truncate, NoFile, StoreTypeOK
    <2>3. CASE WriteSecretsFill
      BY <1>1, <2>3 DEF WriteSecretsFill, FileWrite, StoreTypeOK
    <2>4. CASE secretFile' = secretFile
      BY <1>1, <2>4 DEF StoreTypeOK
    <2>5. QED
      BY <2>1, <2>2, <2>3, <2>4
      DEF Next, Step, Start, AlreadyRegistered, Register, FindMachine, Post, Registered, CannotWrite,
          WriteConfig, Done, Restart, MachineError, PostWithoutToken, PostAnswerLost, PostRefused,
          WriteFails, Crash, CreateSecret, UpdateSecret, Fails, vars, storeVars
  <1>4. /\ secret' \in {secret, Secrets(c.id, c.token, c.thumb)}
        /\ setup # "kubernetes" => secret' = secret
    BY <1>1
    DEF StoreTypeOK, SecretWrite, Next, Step, Start, AlreadyRegistered, Register, FindMachine, Post,
        Registered, CannotWrite, WriteConfig, Done, Restart, MachineError, PostWithoutToken,
        PostAnswerLost, PostRefused, WriteFails, Crash, WriteSecretsChmod, WriteSecretsTruncate,
        WriteSecretsFill, CreateSecret, UpdateSecret, Fails, vars, storeVars
  <1>5. /\ loaded' \in {loaded, secretFile.name, NoSecrets}
        /\ setup # "file" => loaded' \in {loaded, NoSecrets}
    BY DEF Next, Step, Start, GetConfig, LoadSecrets, AlreadyRegistered, Register, FindMachine, Post,
        Registered, CannotWrite, WriteConfig, Done, Restart, MachineError, PostWithoutToken,
        PostAnswerLost, PostRefused, WriteFails, Crash, WriteSecretsChmod, WriteSecretsTruncate,
        WriteSecretsFill, CreateSecret, UpdateSecret, Fails, vars, storeVars
  <1>6. \A x \in (Kept \cup {loaded})' : IsSecrets(x)
    BY <1>1, <1>2, <1>3, <1>4, <1>5 DEF StoreTypeOK, Kept
  <1>7. QED
    BY <1>1, <1>2, <1>3, <1>4, <1>5, <1>6 DEF StoreTypeOK

(* The process's own answer is all that WriteSecrets adds.                 *)
Answered == Secrets(c.id, c.token, c.thumb)

LEMMA StoresKeep ==
  ASSUME RegInv, Stores
  PROVE  /\ phase \in Storing
         /\ c' = c /\ issued' = issued /\ unseen' = unseen /\ cut' = cut
         /\ setup' = setup /\ loaded' = loaded /\ given' = given
         /\ Kept' \subseteq Seen \cup {NoSecrets, loaded, Answered}
         /\ phase' \in Pending => phase' \in {"fill", "update"} /\ Seen' \subseteq Seen \cup {NoSecrets}
         /\ phase' \notin Pending => phase' \in {"config", "done"} /\ Answered \in Kept' \cup {None}
  <1>1. DOMAIN secretFile = {"mode", "tag", "name"}
    BY DEF RegInv, StoreTypeOK
  <1> DEFINE Kubernetes == CreateSecret \/ UpdateSecret
  <1>7. phase \in Pending /\ (~c.read => setup = "file") /\ (setup = "file" => secret = None)
    BY DEF RegInv, NothingKeptYet, StoreTypeOK, Pending, Storing, Stores, WriteSecretsTruncate,
           WriteSecretsFill, CreateSecret, UpdateSecret
  <1>8. Kubernetes => setup # "file"
    BY DEF RegInv, StoreTypeOK, CreateSecret, UpdateSecret
  <1>9. (~Kubernetes => setup = "file")
    BY DEF RegInv, StoreTypeOK, Stores, WriteSecretsTruncate, WriteSecretsFill
  <1>2. CASE WriteSecretsTruncate
    BY <1>2, <1>7, <1>9
    DEF WriteSecretsTruncate, Truncate, NoFile, Storing, Pending, Kept, Seen, serverVars
  <1>3. CASE WriteSecretsFill
    BY <1>1, <1>3, <1>7, <1>9
    DEF WriteSecretsFill, FileWrite, Storing, Pending, Kept, Seen, Answered, serverVars
  <1>4. CASE CreateSecret
    BY <1>4, <1>7, <1>8
    DEF CreateSecret, SecretExists, SecretWrite, Storing, Pending, Kept, Seen, Answered, serverVars
  <1>5. CASE UpdateSecret
    BY <1>5, <1>7, <1>8
    DEF UpdateSecret, SecretWrite, Storing, Pending, Kept, Seen, Answered, serverVars
  <1>6. QED
    BY <1>2, <1>3, <1>4, <1>5 DEF Stores

(* What is kept stays consistent, and the newest. *)
LEMMA KeptStep ==
  ASSUME RegInv, [Next]_vars
  PROVE  Agree' /\ KeptIsIssued'
  <1>1. CASE Stores
    <2>1. c.id \in Nat /\ c.token \in {None, Len(issued)} /\ issued[Len(issued)] = c.id
      BY <1>1, StoresKeep DEF RegInv, NothingKeptYet, AnswerIsLast, Pending
    <2>2. issued \in Seq(Nat) /\ Len(issued) \in Nat /\ Len(issued) >= 1
      BY DEF RegInv, ServerTypeOK
    <2>3. \A x \in Seen \cup {NoSecrets, loaded} : x["token"] = None /\ x["id"] \in {None, c.id}
      BY <1>1, StoresKeep DEF RegInv, NothingKeptYet, Seen, Pending, NoSecrets, Secrets
    <2>4. Answered["id"] = c.id /\ Answered["token"] = c.token
      BY DEF Answered, Secrets
    <2>5. Agree'
      BY <1>1, <2>3, <2>4, StoresKeep DEF Agree
    <2>6. c.token # None => Newest(Answered)
      BY <2>1, <2>2, <2>4, NoneAssumption DEF Newest
    <2>7. issued' = issued /\ unseen' = unseen
      BY <1>1, StoresKeep
    <2>8. ASSUME NEW x \in Kept', x["token"] # None PROVE Newest(x)'
      BY <1>1, <2>3, <2>4, <2>6, <2>7, <2>8, StoresKeep DEF Newest
    <2>9. QED
      BY <2>5, <2>8 DEF KeptIsIssued
  <1>2. CASE ~Stores
    <2>1. Kept' = Kept
      BY <1>2, OtherSteps, ReadUnchanged
    <2>2. Agree'
      BY <2>1 DEF RegInv, Agree
    <2>3. CASE Registers
      <3>1. CASE c.read
        <4>1. \A x \in Kept : x["token"] = None
          BY <2>3, <3>1, RegistersIssues DEF RegInv, NothingKeptYet, Seen, Pending
        <4>2. QED
          BY <2>1, <2>2, <4>1 DEF KeptIsIssued
      <3>2. CASE ~c.read
        <4>1. /\ issued' = Append(issued, c.id) /\ unseen' = unseen \cup {Len(issued) + 1}
              /\ issued \in Seq(Nat) /\ c.id \in Nat
          BY <2>3, <3>2, RegistersIssues DEF RegInv, ServerTypeOK
        <4>2. /\ DOMAIN issued' = 1 .. Len(issued) + 1 /\ DOMAIN issued = 1 .. Len(issued)
              /\ \A n \in DOMAIN issued : issued'[n] = issued[n]
              /\ Len(issued) \in Nat
          BY <4>1, AppendIssued
        <4>3. ASSUME NEW x \in Kept, x["token"] # None PROVE Newest(x)'
          <5>1. Newest(x)
            BY <4>3 DEF RegInv, KeptIsIssued
          <5>2. QED
            BY <4>1, <4>2, <5>1 DEF Newest
        <4>4. QED
          BY <2>1, <2>2, <4>3 DEF KeptIsIssued
      <3>3. QED
        BY <3>1, <3>2
    <2>4. CASE ~Registers
      <3>1. issued' = issued /\ unseen' = unseen
        BY <2>4, IssuedUnchanged
      <3>2. QED
        BY <2>1, <2>2, <3>1 DEF RegInv, KeptIsIssued, Newest
    <2>5. QED
      BY <2>3, <2>4
  <1>3. QED
    BY <1>1, <1>2

(* register.Run: a process that registers has found no token, and uses the *)
(* id it found.                                                            *)
LEMMA RegisterUnread ==
  ASSUME RegInv, Register, phase' = "machine", ~c.read
  PROVE  /\ c'.id \in Nat /\ ~c'.read /\ setup = "file"
         /\ \A x \in {given, loaded, NoSecrets} : x["token"] = None /\ x["id"] \in {None, c'.id}
  <1>1. /\ phase = "check" /\ c.api /\ ~MonitorIsRegistered(c)
        /\ c' = [c EXCEPT !.id = IF c.id = None THEN NewId ELSE c.id]
    BY DEF Register, NewOctopusApiClient, GenerateId
  <1>2. StoreTypeOK /\ KeptIsIssued /\ c \in ConfigType
    BY DEF RegInv, TypeOK, ConfigType
  <1>3. c = Config(Environment, TRUE, FALSE) /\ setup = "file" /\ loaded = NoSecrets
    BY <1>1 DEF RegInv, ReadAtCheck, UnreadAtCheck, NoConfig, Config
  <1>4. c.id = given["id"] /\ c.token = given["token"]
    BY <1>2, <1>3, EnvironmentGiven DEF Config
  <1>5. given["token"] = None
    BY <1>1, <1>2, <1>4 DEF KeptIsIssued, Kept, Newest, MonitorIsRegistered
  <1>6. NewId \in Nat
    BY RangeFinite DEF RegInv, ServerTypeOK, NewId
  <1>7. c'.id \in Nat /\ (c.id # None => c'.id = c.id) /\ c'.read = c.read
    BY <1>1, <1>2, <1>6 DEF ConfigType
  <1>8. ~c'.read
    BY <1>7, Zenon
  <1>9. NoSecrets["token"] = None /\ NoSecrets["id"] = None
    BY DEF NoSecrets, Secrets
  <1>10. QED
    BY <1>3, <1>4, <1>5, <1>7, <1>8, <1>9

LEMMA RegisterKeeps ==
  ASSUME RegInv, Register
  PROVE  NothingKeptYet'
  <1>11. /\ phase' \in {"machine", "failed"} /\ KeptUnchanged /\ loaded' = loaded
    BY DEF Register, NewOctopusApiClient, storeVars, KeptUnchanged
  <1>12. Kept' = Kept /\ given' = given /\ setup' = setup
    BY <1>11, ReadUnchanged DEF KeptUnchanged
  <1>13. CASE phase' # "machine"
    BY <1>11, <1>13 DEF NothingKeptYet, Pending, Storing
  <1>14. CASE ~c.read /\ phase' = "machine"
    BY <1>11, <1>12, <1>14, RegisterUnread DEF NothingKeptYet, Seen
  <1> SUFFICES ASSUME phase' = "machine", c.read
               PROVE  /\ c'.id \in Nat /\ c'.read
                      /\ \A x \in Kept \cup {loaded} : x["token"] = None /\ x["id"] \in {None, c'.id}
    BY <1>11, <1>12, <1>13, <1>14 DEF NothingKeptYet, Seen
  <1>1. /\ phase = "check" /\ c.api /\ ~MonitorIsRegistered(c)
        /\ c' = [c EXCEPT !.id = IF c.id = None THEN NewId ELSE c.id]
    BY DEF Register, NewOctopusApiClient, GenerateId
  <1>2. StoreTypeOK /\ Agree /\ KeptIsIssued /\ c \in ConfigType
    BY DEF RegInv, TypeOK, ConfigType
  <1>3. PICK s \in Read : c = Config(s, TRUE, TRUE) /\ (setup = "file" => loaded = secretFile.name)
    BY <1>1 DEF RegInv, ReadAtCheck, UnreadAtCheck, NoConfig, Config
  <1>4. c.id = s["id"] /\ c.token = s["token"]
    BY <1>3 DEF Config
  <1>5. s["token"] = None
    <2>1. SUFFICES ASSUME s["token"] # None PROVE FALSE
      OBVIOUS
    <2>2. PICK x \in Kept : s["token"] = x["token"]
      BY <1>2, ReadField, TheFields
    <2>3. x["id"] # None
      BY <1>2, <2>1, <2>2 DEF KeptIsIssued, Newest
    <2>4. s["id"] # None
      BY <1>2, <2>3, ReadAgrees
    <2>5. QED
      BY <1>1, <1>4, <2>1, <2>4 DEF MonitorIsRegistered
  <1>6. NewId \in Nat
    BY RangeFinite DEF RegInv, ServerTypeOK, NewId
  <1>7. c'.id \in Nat /\ (c.id # None => c'.id = c.id) /\ c'.read = c.read
    BY <1>1, <1>2, <1>6 DEF ConfigType
  <1>8. ASSUME NEW x \in Kept PROVE x["token"] = None /\ x["id"] \in {None, c'.id}
    <2>1. x["token"] = None
      BY <1>2, <1>5, ReadField, TheFields
    <2>2. s["id"] = None => x["id"] = None
      BY <1>2, ReadField, TheFields
    <2>3. x["id"] # None => s["id"] = x["id"]
      BY <1>2, ReadAgrees
    <2>4. QED
      BY <1>4, <1>7, <2>1, <2>2, <2>3
  <1>9. loaded \in Kept \cup {NoSecrets}
    BY <1>2, <1>3 DEF StoreTypeOK, Kept
  <1>10. QED
    BY <1>7, <1>8, <1>9 DEF NoSecrets, Secrets

LEMMA PendingStep ==
  ASSUME RegInv, [Next]_vars
  PROVE  NothingKeptYet'
  <1>1. CASE Register
    BY <1>1, RegisterKeeps
  <1>2. CASE Stores
    <2>1. /\ phase \in Pending /\ c' = c /\ setup' = setup
          /\ phase' \in Pending => Seen' \subseteq Seen \cup {NoSecrets}
      BY <1>2, StoresKeep DEF Pending
    <2>2. QED
      BY <2>1 DEF RegInv, NothingKeptYet, NoSecrets, Secrets
  <1>3. CASE Registers
    <2>1. /\ phase = "post" /\ c'.id = c.id /\ c'.read = c.read /\ setup' = setup
          /\ Kept' = Kept /\ loaded' = loaded /\ given' = given
      BY <1>3, RegistersIssues, ReadUnchanged DEF KeptUnchanged
    <2>2. QED
      BY <2>1 DEF RegInv, NothingKeptYet, Seen, Pending
  <1>4. CASE ~Register /\ ~Stores /\ ~Registers
    <2>1. Kept' = Kept /\ given' = given /\ setup' = setup
      BY <1>4, OtherSteps, ReadUnchanged DEF KeptUnchanged
    <2>2. phase' \in Pending => phase \in Pending /\ c' = c /\ loaded' = loaded
      BY <1>4
      DEF Pending, Storing, Registers, Stores, Next, Step, Start, StartRegister, StartRoot,
          AlreadyRegistered, FindMachine, Post, CannotWrite, WriteConfig, Done, Restart,
          MachineError, PostWithoutToken, PostRefused, WriteFails, Crash, WriteSecretsChmod,
          Fails, vars, storeVars
    <2>3. QED
      BY <2>1, <2>2 DEF RegInv, NothingKeptYet, Seen
  <1>5. QED
    BY <1>1, <1>2, <1>3, <1>4

LEMMA ApiStep ==
  ASSUME RegInv, [Next]_vars
  PROVE  PendingHasApi'
  <1>1. PendingHasApi /\ c \in ConfigType
    BY DEF RegInv, TypeOK, ConfigType
  <1>2. CASE Register
    <2>1. c'.api = c.api
      BY <1>1, <1>2 DEF Register, GenerateId, ConfigType
    <2>2. phase' \in Pending => c.api
      BY <1>2 DEF Register, NewOctopusApiClient, Pending, Storing
    <2>3. QED
      BY <2>1, <2>2, Zenon DEF PendingHasApi
  <1>3. CASE Post \/ PostWithoutToken
    <2>1. phase = "post"
      BY <1>3 DEF Post, PostWithoutToken, Registered
    <2>2. PICK token : c' = [c EXCEPT !.token = token, !.thumb = 1]
      BY <1>3 DEF Post, PostWithoutToken, Registered
    <2>3. c'.api = c.api
      BY <1>1, <2>2 DEF ConfigType
    <2>4. c.api
      BY <1>1, <2>1 DEF PendingHasApi, Pending
    <2>5. QED
      BY <2>3, <2>4, Zenon DEF PendingHasApi
  <1>4. CASE ~Register /\ ~Post /\ ~PostWithoutToken
    <2>1. phase' \in Pending => phase \in Pending /\ c' = c
      BY <1>4
      DEF Pending, Storing, Next, Step, Start, StartRegister, StartRoot, AlreadyRegistered,
          FindMachine, CannotWrite, WriteConfig, Done, Restart, MachineError, PostAnswerLost,
          PostRefused, WriteFails, Crash, WriteSecretsChmod, WriteSecretsTruncate,
          WriteSecretsFill, CreateSecret, UpdateSecret, Fails, vars
    <2>2. QED
      BY <1>1, <2>1 DEF PendingHasApi
  <1>5. QED
    BY <1>2, <1>3, <1>4

LEMMA AtCheckStep ==
  ASSUME RegInv, [Next]_vars
  PROVE  ReadAtCheck'
  <1> SUFFICES ASSUME phase' = "check" PROVE ReadAtCheck'
    BY DEF ReadAtCheck
  <1>1. Start \/ UNCHANGED vars
    BY DEF Next, Step, AlreadyRegistered, Register, NewOctopusApiClient, FindMachine, Post,
           Registered, CannotWrite, WriteConfig, Done, Restart, MachineError, PostWithoutToken,
           PostAnswerLost, PostRefused, WriteFails, Crash, WriteSecretsChmod, WriteSecretsTruncate,
           WriteSecretsFill, CreateSecret, UpdateSecret, Fails
  <1>2. Read' = Read /\ Environment' = Environment /\ setup' = setup /\ secretFile' = secretFile
    <2>1. KeptUnchanged
      BY <1>1 DEF Start, vars, storeVars, KeptUnchanged
    <2>2. QED
      BY <1>1, <2>1, ReadUnchanged DEF Start, vars, storeVars
  <1>3. CASE Start
    <2>1. NewStore(setup)
      BY <1>3 DEF Start, StartRegister, StartRoot
    <2>2. \/ c' = NoConfig
          \/ /\ \E s \in Read : c' = Config(s, TRUE, TRUE)
             /\ setup = "file" => loaded' = secretFile.name
          \/ c' = Config(Environment, TRUE, FALSE) /\ setup = "file" /\ loaded' = NoSecrets
      BY <1>3, <2>1 DEF Start, GetConfig, LoadSecrets, ReadInConfigFails
    <2>3. QED
      BY <1>2, <2>2 DEF ReadAtCheck, UnreadAtCheck
  <1>4. CASE UNCHANGED vars
    BY <1>2, <1>4 DEF RegInv, ReadAtCheck, UnreadAtCheck, vars, storeVars
  <1>5. QED
    BY <1>1, <1>3, <1>4

LEMMA AnswerStep ==
  ASSUME RegInv, [Next]_vars
  PROVE  AnswerIsLast'
  <1> SUFFICES ASSUME phase' \in Storing
               PROVE  c'.token \in {None, Len(issued')} /\ issued'[Len(issued')] = c'.id
    BY DEF AnswerIsLast
  <1>1. CASE Registers
    <2>1. /\ issued' = Append(issued, c.id) /\ c.id \in Nat /\ c'.id = c.id
          /\ c'.token \in {None, Len(issued) + 1}
      BY <1>1, RegistersIssues DEF Storing
    <2>2. issued \in Seq(Nat)
      BY DEF RegInv, ServerTypeOK
    <2>3. QED
      BY <2>1, <2>2, AppendIssued
  <1>2. CASE ~Registers
    <2>1. phase \in Storing /\ c' = c /\ issued' = issued
      BY <1>2
      DEF Storing, Registers, Next, Step, Start, StartRegister, StartRoot, AlreadyRegistered,
          Register, NewOctopusApiClient, FindMachine, Post, CannotWrite, WriteConfig, Done, Restart,
          MachineError, PostWithoutToken, PostRefused, WriteFails, Crash, WriteSecretsChmod,
          WriteSecretsTruncate, WriteSecretsFill, CreateSecret, UpdateSecret, Fails, vars,
          serverVars
    <2>2. QED
      BY <2>1 DEF RegInv, AnswerIsLast
  <1>3. QED
    BY <1>1, <1>2

(* FileStore.WriteSecrets: the file is private before it is filled.        *)
LEMMA PrivateStep ==
  ASSUME RegInv, [Next]_vars
  PROVE  SecretsPrivate' /\ Permissions'
  <1>1. DOMAIN secretFile = {"mode", "tag", "name"} /\ SecretsPrivate /\ Permissions
    BY DEF RegInv, StoreTypeOK
  <1>2. CASE WriteSecretsChmod
    BY <1>1, <1>2 DEF WriteSecretsChmod, RestrictPermissions, SecretsPrivate, Permissions
  <1>3. CASE WriteSecretsTruncate
    BY <1>1, <1>3
    DEF WriteSecretsTruncate, Truncate, NoFile, NoSecrets, Secrets, SecretsPrivate, Permissions
  <1>4. CASE WriteSecretsFill
    BY <1>1, <1>4 DEF WriteSecretsFill, FileWrite, SecretsPrivate, Permissions
  <1>5. CASE ~WriteSecretsChmod /\ ~WriteSecretsTruncate /\ ~WriteSecretsFill
    <2>1. secretFile' = secretFile /\ (phase' \in {"truncate", "fill"} => phase' = phase)
      BY <1>5
      DEF Next, Step, Start, StartRegister, StartRoot, AlreadyRegistered, Register,
          NewOctopusApiClient, FindMachine, Post, Registered, CannotWrite, WriteConfig, Done,
          Restart, MachineError, PostWithoutToken, PostAnswerLost, PostRefused, WriteFails, Crash,
          CreateSecret, UpdateSecret, Fails, vars, storeVars
    <2>2. QED
      BY <1>1, <2>1 DEF SecretsPrivate, Permissions
  <1>6. QED
    BY <1>2, <1>3, <1>4, <1>5

-----------------------------------------------------------------------------
(* The ids that are left behind *)

(* An id that is kept is the one that is read. *)
IdIsRead ==
  StoreTypeOK /\ Agree =>
    /\ Read # {}
    /\ \A s \in Read, x \in Kept : x["id"] # None => s.id = x["id"]

LEMMA IdReads == IdIsRead
  <1> SUFFICES ASSUME StoreTypeOK, Agree PROVE /\ Read # {}
                 /\ \A s \in Read, x \in Kept : x["id"] # None => s.id = x["id"]
    BY DEF IdIsRead
  <1>1. ASSUME NEW s \in Read, NEW x \in Kept, x["id"] # None PROVE s["id"] = x["id"]
    BY <1>1, ReadAgrees
  <1>2. QED
    BY <1>1, ReadNonempty

LEMMA IdReadsNext == IdIsRead'
  BY IdReads, PTL

LEMMA SmallerSet ==
  ASSUME NEW S, NEW T \in SUBSET S, IsFiniteSet(S), NEW n \in Nat, Cardinality(S) <= n
  PROVE  Cardinality(T) <= n
  <1>1. Cardinality(T) \in Nat /\ Cardinality(S) \in Nat /\ Cardinality(T) <= Cardinality(S)
    BY FS_Subset, FS_CardinalityType
  <1>2. QED
    BY <1>1

LEMMA OneMore ==
  ASSUME NEW S, NEW x, NEW T \in SUBSET (S \cup {x}), IsFiniteSet(S), NEW n \in Nat,
         Cardinality(S) <= n
  PROVE  Cardinality(T) <= n + 1
  <1>1. /\ IsFiniteSet(S \cup {x})
        /\ Cardinality(S) \in Nat
        /\ Cardinality(S \cup {x}) \in {Cardinality(S), Cardinality(S) + 1}
    BY FS_AddElement, FS_CardinalityType
  <1>2. Cardinality(S \cup {x}) <= n + 1
    BY <1>1
  <1>3. QED
    BY <1>1, <1>2, SmallerSet

(* No two ids can be read. *)
LEMMA OneIdRead ==
  ASSUME StoreTypeOK, Agree
  PROVE  \E i : {s.id : s \in Read} \subseteq {i, None}
  <1>1. CASE \E x \in Kept : x["id"] # None
    <2>1. PICK x \in Kept : x["id"] # None
      BY <1>1
    <2>2. \A s \in Read : s.id = x["id"]
      BY <2>1, IdReads DEF IdIsRead
    <2>3. QED
      BY <2>2
  <1>2. CASE \A x \in Kept : x["id"] = None
    <2>1. \A s \in Read : s["id"] = None
      BY <1>2, ReadField, TheFields
    <2>2. QED
      BY <2>1
  <1>3. QED
    BY <1>1, <1>2

LEMMA OrphansStep ==
  ASSUME RegInv, [Next]_vars
  PROVE  Orphans'
  <1>1. /\ issued \in Seq(Nat) /\ cut \in Nat /\ StoreTypeOK /\ Agree
        /\ IsFiniteSet(Range(issued)) /\ Range(issued) \subseteq Nat
    BY RangeFinite DEF RegInv, TypeOK, ServerTypeOK, Range
  <1>2. IsFiniteSet(Lost) /\ IsFiniteSet(Range(issued) \ {0, c.id})
    BY <1>1, FS_Difference DEF Lost
  <1>3. /\ given["id"] # None => Range(issued) = {given["id"]}
        /\ phase \in Storing => Cardinality(Range(issued) \ {0, c.id}) <= cut + Cardinality(unseen)
        /\ phase \notin Storing => Cardinality(Lost) <= cut + Cardinality(unseen)
    BY DEF RegInv, Orphans
  <1>4. phase \in Pending /\ c.read => \A s \in Read : s.id \in {None, c.id}
    <2> SUFFICES ASSUME phase \in Pending, c.read, NEW s \in Read PROVE s["id"] \in {None, c.id}
      OBVIOUS
    <2>1. PICK x \in Kept : s["id"] = x["id"]
      BY <1>1, ReadField, TheFields
    <2>2. x \in Seen
      BY DEF Seen
    <2>3. QED
      BY <2>1, <2>2 DEF RegInv, NothingKeptYet
  <1>9. Cardinality(unseen) \in Nat /\ cut + Cardinality(unseen) \in Nat
    BY <1>1, FS_CardinalityType DEF RegInv, ServerTypeOK
  <1>5. CASE Registers
    <2>1. Range(issued') = Range(issued) \cup {c.id} /\ c.id \in Nat /\ Read' = Read /\ c'.id = c.id
      <3>1. /\ issued' = Append(issued, c.id) /\ c.id \in Nat /\ c'.id = c.id /\ KeptUnchanged
        BY <1>5, RegistersIssues
      <3>2. QED
        BY <1>1, <3>1, AppendIssued, ReadUnchanged
    <2>2. given' = given /\ given["id"] \in {None, c.id} /\ phase = "post"
      <3>1. phase = "post" /\ given' = given
        BY <1>5, RegistersIssues DEF KeptUnchanged
      <3>2. given \in Seen
        BY DEF Seen, Kept
      <3>3. QED
        BY <3>1, <3>2 DEF RegInv, NothingKeptYet, Pending
    <2>6. \/ c.read /\ unseen' = unseen
          \/ ~c.read /\ unseen' = unseen \cup {Len(issued) + 1} /\ Len(issued) + 1 \notin unseen
      <3>1. unseen \subseteq DOMAIN issued /\ DOMAIN issued = 1 .. Len(issued) /\ Len(issued) \in Nat
        BY <1>1 DEF RegInv, TypeOK
      <3>2. Len(issued) + 1 \notin unseen
        BY <3>1
      <3>3. QED
        BY <1>5, <3>2, RegistersIssues
    <2>7. \/ c.read /\ Cardinality(unseen') = Cardinality(unseen)
          \/ ~c.read /\ Cardinality(unseen') = Cardinality(unseen) + 1
      <3>1. IsFiniteSet(unseen)
        BY DEF RegInv, ServerTypeOK
      <3>2. QED
        BY <2>6, <3>1, FS_AddElement
    <2>3. CASE phase' = "secrets" /\ cut' = cut
      <3>1. Cardinality(Range(issued') \ {0, c.id}) <= cut + Cardinality(unseen')
        <4>1. CASE c.read
          <5>1. Range(issued') \ {0, c.id} \in SUBSET Lost
            BY <1>1, <1>4, <2>1, <2>2, <4>1, NoneAssumption DEF Lost, Pending
          <5>2. QED
            BY <1>2, <1>3, <1>9, <2>2, <2>7, <4>1, <5>1, SmallerSet DEF Storing
        <4>2. CASE ~c.read
          <5>1. PICK i : {s.id : s \in Read} \subseteq {i, None}
            BY <1>1, OneIdRead
          <5>2. Range(issued') \ {0, c.id} \in SUBSET (Lost \cup {i})
            BY <1>1, <2>1, <5>1, NoneAssumption DEF Lost
          <5>3. Cardinality(Range(issued') \ {0, c.id}) <= cut + Cardinality(unseen) + 1
            BY <1>2, <1>3, <1>9, <2>2, <5>2, OneMore DEF Storing
          <5>4. QED
            BY <1>1, <1>9, <2>7, <4>2, <5>3
        <4>3. QED
          BY <4>1, <4>2
      <3>2. QED
        BY <1>3, <2>1, <2>2, <2>3, <3>1 DEF Orphans, Storing
    <2>4. CASE phase' \in {"failed", "panicked"} /\ cut' = cut + 1
      <3>1. Lost' \in SUBSET (Lost \cup {c.id})
        BY <2>1 DEF Lost
      <3>2. Cardinality(Lost') <= cut + Cardinality(unseen) + 1
        BY <1>2, <1>3, <1>9, <2>2, <3>1, OneMore DEF Storing
      <3>3. cut + Cardinality(unseen) + 1 <= cut' + Cardinality(unseen')
        BY <1>1, <1>9, <2>4, <2>7
      <3>4. Cardinality(Lost') <= cut' + Cardinality(unseen')
        <4>1. IsFiniteSet(Lost \cup {c.id})
          BY <1>2, FS_AddElement
        <4>2. Cardinality(Lost') \in Nat /\ cut' + Cardinality(unseen') \in Nat
          BY <1>1, <1>9, <2>4, <2>7, <3>1, <4>1, FS_Subset, FS_CardinalityType
        <4>3. QED
          BY <1>1, <1>9, <3>2, <3>3, <4>2
      <3>5. QED
        BY <1>3, <2>1, <2>2, <2>4, <3>4 DEF Orphans, Storing
    <2>5. QED
      BY <1>5, <2>3, <2>4, RegistersIssues
  <1>6. CASE Stores
    <2>1. /\ phase \in Storing /\ c' = c /\ issued' = issued /\ cut' = cut /\ given' = given
          /\ unseen' = unseen
      BY <1>6, StoresKeep
    <2>2. CASE phase' \in Storing
      BY <1>3, <2>1, <2>2 DEF Orphans
    <2>3. CASE phase' \notin Storing
      <3>1. c.id \in Nat /\ Answered["id"] = c.id
        BY <2>1 DEF RegInv, NothingKeptYet, Pending, Answered, Secrets
      <3>2. Answered # None
        <4>1. c.token \in Numbers /\ c.thumb \in Numbers
          BY DEF RegInv, TypeOK, Numbers
        <4>2. Answered \in [Fields -> Numbers]
          BY <3>1, <4>1, TheFields DEF Answered, Secrets, Numbers
        <4>3. QED
          BY <4>2, NoneAssumption DEF Numbers
      <3>3. Answered \in Kept'
        BY <1>6, <2>3, <3>2, StoresKeep DEF Pending
      <3>4. PICK s \in Read' : s.id = c.id
        BY <3>1, <3>3, IdReadsNext, StoreTyped, KeptStep, NoneAssumption DEF IdIsRead
      <3>5. Lost' \in SUBSET (Range(issued) \ {0, c.id})
        BY <2>1, <3>4 DEF Lost
      <3>6. Cardinality(Lost') <= cut + Cardinality(unseen)
        BY <1>2, <1>3, <1>9, <2>1, <3>5, SmallerSet
      <3>7. QED
        BY <1>3, <2>1, <2>3, <3>6 DEF Orphans
    <2>4. QED
      BY <2>2, <2>3
  <1>7. CASE ~Registers /\ ~Stores
    <2>1. issued' = issued /\ unseen' = unseen /\ Read' = Read /\ given' = given
      BY <1>7, IssuedUnchanged, OtherSteps, ReadUnchanged DEF KeptUnchanged
    <2>2. Lost' = Lost
      BY <2>1 DEF Lost
    <2>3. /\ phase' \in Storing => phase \in Storing /\ c' = c /\ cut' = cut
          /\ phase' \notin Storing => cut' = IF phase \in Storing THEN cut + 1 ELSE cut
      <3>1. \/ cut' = cut /\ (phase' \in Storing <=> phase \in Storing) /\ c' = c
            \/ cut' = cut /\ phase \notin Storing /\ phase' \notin Storing
            \/ \E how \in Ended : Fails(how)
        BY <1>7
        DEF Storing, Ended, Registers, Stores, Next, Step, Start, StartRegister, StartRoot,
            AlreadyRegistered, Register, NewOctopusApiClient, FindMachine, Post, CannotWrite,
            WriteConfig, Done, Restart, MachineError, PostWithoutToken, PostRefused, WriteFails,
            Crash, WriteSecretsChmod, vars
      <3>2. ASSUME NEW how \in Ended, Fails(how)
            PROVE  phase' \notin Storing /\ cut' = IF phase \in Storing THEN cut + 1 ELSE cut
        BY <1>1, <3>2 DEF Ended, Storing, Fails, LosesAnswer
      <3>3. QED
        BY <3>1, <3>2
    <2>4. phase \in Storing => Cardinality(Lost) <= (cut + 1) + Cardinality(unseen)
      <3>1. Lost \in SUBSET ((Range(issued) \ {0, c.id}) \cup {c.id})
        BY DEF Lost
      <3>2. phase \in Storing => Cardinality(Lost) <= cut + Cardinality(unseen) + 1
        BY <1>2, <1>3, <1>9, <3>1, OneMore
      <3>3. cut + Cardinality(unseen) + 1 = (cut + 1) + Cardinality(unseen)
        BY <1>1, <1>9
      <3>4. QED
        BY <3>2, <3>3
    <2>5. phase' \notin Storing => Cardinality(Lost') <= cut' + Cardinality(unseen')
      BY <1>3, <2>1, <2>2, <2>3, <2>4
    <2>6. phase' \in Storing =>
            Cardinality(Range(issued') \ {0, c'.id}) <= cut' + Cardinality(unseen')
      BY <1>3, <2>1, <2>3
    <2>7. QED
      BY <1>3, <2>1, <2>5, <2>6 DEF Orphans
  <1>8. QED
    BY <1>5, <1>6, <1>7

LEMMA RegInvariant == Spec => []RegInv
  <1>1. RegInv /\ [Next]_vars => RegInv'
    BY CountersTyped, StoreTyped, KeptStep, AtCheckStep, PendingStep, ApiStep, AnswerStep, PrivateStep,
       OrphansStep DEF RegInv
  <1>2. QED
    BY <1>1, RegInit, PTL DEF Spec

-----------------------------------------------------------------------------
(* register.Run, api_client.go, store.go: the variables have their types,  *)
(* no more lookups are made than maxAttempts and no more answers are lost  *)
(* than were given.                                                        *)
THEOREM RegistrationTypeCorrect == Spec => []TypeOK
  BY RegInvariant, PTL DEF RegInv

(* FileStore.Read and WriteSecrets, register.Run: wherever the process is  *)
(* killed, credentials that can be read are one answer of the server, and  *)
(* its newest for their id but for the answers it gave to processes that   *)
(* could not read secret.json.                                             *)
THEOREM ReadsWhatWasIssued == Spec => []StoredIsIssued
  <1>1. ASSUME RegInv PROVE StoredIsIssued
    <2> SUFFICES ASSUME NEW s \in Read, s["id"] # None, s["token"] # None
                 PROVE  /\ s["token"] \in DOMAIN issued
                        /\ issued[s["token"]] = s["id"]
                        /\ \A n \in DOMAIN issued :
                             n > s["token"] => issued[n] # s["id"] \/ n \in unseen
      BY DEF StoredIsIssued, Credentials, MonitorIsRegistered
    <2>1. PICK x \in Kept : s["token"] = x["token"]
      BY <1>1, ReadField, TheFields DEF RegInv
    <2>2. Newest(x)
      BY <1>1, <2>1 DEF RegInv, KeptIsIssued
    <2>3. s["id"] = x["id"]
      BY <1>1, <2>2, ReadAgrees DEF RegInv, Newest
    <2>4. QED
      BY <2>1, <2>2, <2>3 DEF Newest
  <1>2. QED
    BY <1>1, RegInvariant, PTL

(* register.Run: an id the operator gave is the only one registered, and   *)
(* otherwise no more ids are left behind than answers were lost and        *)
(* registrations made with secret.json unread.                             *)
THEOREM NoStrayInstallations == Spec => []OneInstallation
  <1>1. ASSUME RegInv PROVE OneInstallation
    <2> DEFINE stray == Range(issued) \ ({0, c.id} \cup {s.id : s \in Read})
    <2>1. IsFiniteSet(Range(issued)) /\ cut \in Nat
      BY <1>1, RangeFinite DEF RegInv, TypeOK, ServerTypeOK
    <2>2. IsFiniteSet(Lost) /\ IsFiniteSet(Range(issued) \ {0, c.id})
      BY <2>1, FS_Difference DEF Lost
    <2>3. stray \in SUBSET Lost /\ stray \in SUBSET (Range(issued) \ {0, c.id})
      BY DEF Lost
    <2>6. cut + Cardinality(unseen) \in Nat
      BY <1>1, <2>1, FS_CardinalityType DEF RegInv, ServerTypeOK
    <2>4. Cardinality(stray) <= cut + Cardinality(unseen)
      BY <1>1, <2>2, <2>3, <2>6, SmallerSet DEF RegInv, Orphans
    <2>5. QED
      BY <1>1, <2>4 DEF RegInv, Orphans, OneInstallation
  <1>2. QED
    BY <1>1, RegInvariant, PTL

(* FileStore.WriteSecrets: a token is never in a file others can read.     *)
THEOREM TokensPrivate == Spec => []SecretsPrivate
  BY RegInvariant, PTL DEF RegInv

(* MonitorIsRegistered in register.Run: with credentials in store, no      *)
(* crash, and no start of either command that could read them, registers   *)
(* again or loses them.                                                    *)
THEOREM RegistersAgainOnlyUnread == Spec => RegistersOnce
  <1>1. ASSUME RegInv, [Next]_vars, Stored, ~RunsUnread PROVE Stored' /\ issued' = issued
    <2>1. PICK s \in Read : s["token"] # None
      BY <1>1, ReadNonempty DEF RegInv, Stored, Credentials, MonitorIsRegistered
    <2>2. PICK x \in Kept : x["token"] # None
      BY <2>1, <1>1, ReadField, TheFields DEF RegInv
    <2>3. phase \notin Pending
      <3>1. phase \in Pending /\ ~c.read => c.api
        BY <1>1 DEF RegInv, PendingHasApi
      <3>2. c.read => x \in Seen
        BY <2>2 DEF Seen
      <3>3. QED
        BY <1>1, <2>2, <3>1, <3>2 DEF RegInv, NothingKeptYet, RunsUnread
    <2>4. ~Stores /\ ~Registers
      BY <1>1, <2>3, StoresKeep, RegistersIssues DEF Pending
    <2>5. Read' = Read /\ issued' = issued
      BY <1>1, <2>4, OtherSteps, ReadUnchanged, IssuedUnchanged
    <2>6. QED
      BY <1>1, <2>5 DEF Stored, Credentials
  <1>2. RegInv /\ [Next]_vars => [Stored => (Stored' /\ issued' = issued) \/ RunsUnread]_vars
    BY <1>1
  <1>3. QED
    BY <1>2, RegInvariant, PTL DEF RegistersOnce, Spec
==============================================================================

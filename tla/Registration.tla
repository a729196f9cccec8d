----------------------------- MODULE Registration -----------------------------
(***************************************************************************)
(* Registering an installation with Octopus Server: the register and root  *)
(* commands (cmd/), pkg/register, pkg/run and the API client, one process  *)
(* at a time on the stores of ConfigStore.  A process may be killed        *)
(* between any two effects, a request may be refused or its answer lost,   *)
(* a write may fail; the process is then started again.                    *)
(*                                                                         *)
(* Installation ids are naturals: 0 is the one an operator gave or an      *)
(* earlier version stored, 1, 2, ... are generated.  The server (external) *)
(* keeps one registration per installation id: the token of its n-th       *)
(* answer is n, and it replaces the tokens issued for the same id before.  *)
(***************************************************************************)
EXTENDS ConfigStore, Functions

CONSTANTS MaxAttempts,      \* maxAttempts of RegisterKubernetesMonitor
          MaxFaults,        \* bound: faults in a behaviour
          MaxRegistrations  \* bound: registrations that the server accepts

ASSUME BoundsAssumption == MaxAttempts \in Nat \ {0} /\ MaxFaults \in Nat
                           /\ MaxRegistrations \in Nat /\ MaxRegistrations > MaxFaults + 2

VARIABLES phase,    \* where the process is
          cmd,      \* the command it runs
          c,        \* its Config: the secrets, whether the server's settings are there,
                    \* and whether the stored secrets were read
          attempts, \* lookups of the machine so far
          issued,   \* the server: the ids it registered, in order
          unseen,   \* history: its answers to processes that could not read secret.json
          cut,      \* registrations whose answer was never stored
          faults    \* faults so far

serverVars == <<issued, unseen>>
vars == <<storeVars, phase, cmd, c, attempts, serverVars, cut, faults>>
procVars == <<phase, cmd, c, attempts>>

Ended == {"failed", "panicked", "ok", "running"}
Storing == {"secrets", "truncate", "fill", "update"}

Config(s, a, r) == [id |-> s.id, token |-> s.token, thumb |-> s.thumb, api |-> a, read |-> r]
NoConfig == Config(NoSecrets, FALSE, FALSE)

-----------------------------------------------------------------------------
(* What an installation may find when it is first started: nothing, an id, *)
(* or the credentials of an earlier registration.                          *)
Earlier == Secrets(0, 1, None)
JustId == Secrets(0, None, None)

(* secret.json of an older version, by name and readable by others, or of *)
(* this one *)
SecretFiles ==
  {NoFile, [NoFile EXCEPT !.mode = "private", !.tag = Earlier]}
    \cup {[NoFile EXCEPT !.mode = "loose", !.name = s] : s \in {JustId, Earlier}}

Init == /\ setup \in {"file", "readonly", "kubernetes", "broken"}
        /\ given \in {NoSecrets, JustId, Earlier}
        /\ secretFile \in IF setup = "file" /\ given = NoSecrets THEN SecretFiles ELSE {NoFile}
        /\ secret \in IF setup = "kubernetes" /\ given = NoSecrets THEN {None, JustId, Earlier}
                      ELSE {None}
        /\ configFile = "none"
        /\ loaded = NoSecrets
        /\ phase = "down" /\ cmd = "register" /\ c = NoConfig
        /\ attempts = 0
        /\ issued = <<0>> /\ unseen = {}
        /\ cut = 0 /\ faults = 0

Fault == faults < MaxFaults /\ faults' = faults + 1

(* The process ends without storing what the server answered *)
LosesAnswer == IF phase \in Storing THEN 1 ELSE 0

Fails(how) == /\ phase' = how
              /\ cut' = cut + LosesAnswer
              /\ UNCHANGED <<cmd, c, attempts, serverVars>>

-----------------------------------------------------------------------------
LoadSecrets == loaded' = IF setup = "file" THEN secretFile.name ELSE NoSecrets

(* GetConfig: there is no store and no Config; or the configuration is     *)
(* read; or it cannot be bound and is empty; or secret.json cannot be      *)
(* read, which leaves the flags and the environment, the settings of the   *)
(* server's API among them.                                                *)
GetConfig ==
  \/ /\ NewStore(setup)
     /\ \E s \in Read : c' = Config(s, TRUE, TRUE)
     /\ LoadSecrets
     /\ UNCHANGED faults
  \/ /\ NewStore(setup)
     /\ Fault
     /\ c' = NoConfig
     /\ LoadSecrets
  \/ /\ ReadInConfigFails
     /\ Fault
     /\ c' = Config(Environment, TRUE, FALSE)
     /\ loaded' = NoSecrets
  \/ /\ ~NewStore(setup)
     /\ loaded' = NoSecrets
     /\ UNCHANGED <<c, faults>>

(* registerCmd and rootCmd.  Both go on after a failed read.  Any other    *)
(* error ends the register command; the root command logs it and goes on   *)
(* with the nil Config that NewStore's failure left it with.               *)
StartRegister == cmd' = "register"
                 /\ phase' = IF NewStore(setup) THEN "check" ELSE "failed"

StartRoot == cmd' = "root"
             /\ phase' = IF NewStore(setup) THEN "check" ELSE "panicked"

Start == /\ phase = "down"
         /\ StartRegister \/ StartRoot
         /\ GetConfig
         /\ attempts' = 0
         /\ UNCHANGED <<setup, given, secretFile, configFile, secret, serverVars, cut>>

(* register.Run: a monitor that has an id and a token is not registered again *)
AlreadyRegistered == /\ phase = "check"
                     /\ MonitorIsRegistered(c)
                     /\ phase' = "done"
                     /\ UNCHANGED <<storeVars, cmd, c, attempts, serverVars, cut, faults>>

(* Mutant: the id is generated whether there is one or not. *)
GenerateAnother == c' = [c EXCEPT !.id = Cardinality(Range(issued))]

(* uuid.New is never an id that the server knows *)
NewId == Cardinality(Range(issued))

GenerateId == c' = [c EXCEPT !.id = IF @ = None THEN NewId ELSE @]

(* Mutant: the client is made without the settings. *)
ClientWithoutSettings == phase' = "machine"

(* The client cannot be made without the settings that lead to the server *)
NewOctopusApiClient == phase' = IF c.api THEN "machine" ELSE "failed"

Register == /\ phase = "check"
            /\ ~MonitorIsRegistered(c)
            /\ GenerateId
            /\ NewOctopusApiClient
            /\ UNCHANGED <<storeVars, cmd, attempts, serverVars, cut, faults>>

-----------------------------------------------------------------------------
(* Mutant: the machine is looked up once too often. *)
FindMachineOnceMore ==
  /\ phase = "machine"
  /\ \/ /\ phase' = "post"
        /\ UNCHANGED <<attempts, faults>>
     \/ /\ Fault
        /\ attempts' = attempts + 1
        /\ phase' = IF attempts < MaxAttempts THEN "machine" ELSE "failed"
  /\ UNCHANGED <<storeVars, cmd, c, serverVars, cut>>

(* RegisterKubernetesMonitor: the machine is looked up until it is there,  *)
(* maxAttempts times.                                                      *)
FindMachine ==
  /\ phase = "machine"
  /\ \/ /\ phase' = "post"
        /\ UNCHANGED <<attempts, faults>>
     \/ /\ Fault
        /\ attempts' = attempts + 1
        /\ phase' = IF attempts + 1 < MaxAttempts THEN "machine" ELSE "failed"
  /\ UNCHANGED <<storeVars, cmd, c, serverVars, cut>>

MachineError == /\ phase = "machine"
                /\ Fault
                /\ Fails("failed")
                /\ UNCHANGED storeVars

(* The server registers the installation. *)
Issue == /\ Len(issued) < MaxRegistrations
         /\ issued' = Append(issued, c.id)
         /\ unseen' = IF c.read THEN unseen ELSE unseen \cup {Len(issued) + 1}

(* It answers with a token and the thumbprint of its certificate. *)
Registered(token) ==
  /\ phase = "post"
  /\ Issue
  /\ c' = [c EXCEPT !.token = token, !.thumb = 1]
  /\ phase' = "secrets"
  /\ UNCHANGED <<storeVars, cmd, attempts, cut>>

Post == Registered(Len(issued) + 1) /\ UNCHANGED faults

PostWithoutToken == Registered(None) /\ Fault

(* An answer that cannot be used fails the command; without an answer the  *)
(* error message is made from the nil response.                            *)
PostAnswerLost ==
  /\ phase = "post"
  /\ Fault
  /\ Issue
  /\ cut' = cut + 1
  /\ phase' \in {"failed", "panicked"}
  /\ UNCHANGED <<storeVars, cmd, c, attempts>>

(* A refusal, or no connection at all *)
PostRefused ==
  /\ phase = "post"
  /\ IF Len(issued) = MaxRegistrations THEN UNCHANGED faults ELSE Fault
  /\ \E how \in {"failed", "panicked"} : Fails(how)
  /\ UNCHANGED storeVars

-----------------------------------------------------------------------------
(* FileStore.WriteSecrets: the file is made private, emptied and filled *)
WriteSecretsChmod ==
  /\ phase = "secrets"
  /\ setup = "file"
  /\ RestrictPermissions
  /\ phase' = "truncate"
  /\ UNCHANGED <<setup, given, configFile, secret, loaded, cmd, c, attempts,
                 serverVars, cut, faults>>

WriteSecretsTruncate ==
  /\ phase = "truncate"
  /\ Truncate
  /\ phase' = "fill"
  /\ UNCHANGED <<setup, given, configFile, secret, loaded, cmd, c, attempts,
                 serverVars, cut, faults>>

WriteSecretsFill ==
  /\ phase = "fill"
  /\ FileWrite(c)
  /\ phase' = "config"
  /\ UNCHANGED <<setup, given, configFile, secret, loaded, cmd, c, attempts,
                 serverVars, cut, faults>>

(* Mutant: a secret that exists is left as it is. *)
CreateOnly ==
  /\ phase = "secrets"
  /\ setup = "kubernetes"
  /\ IF SecretExists THEN UNCHANGED secret ELSE SecretWrite(c)
  /\ phase' = "done"
  /\ UNCHANGED <<setup, given, secretFile, configFile, loaded, cmd, c, attempts, serverVars, cut, faults>>

(* KubernetesStore.WriteSecrets *)
CreateSecret ==
  /\ phase = "secrets"
  /\ setup = "kubernetes"
  /\ IF SecretExists THEN phase' = "update" /\ UNCHANGED secret
     ELSE phase' = "done" /\ SecretWrite(c)
  /\ UNCHANGED <<setup, given, secretFile, configFile, loaded, cmd, c, attempts,
                 serverVars, cut, faults>>

UpdateSecret ==
  /\ phase = "update"
  /\ SecretWrite(c)
  /\ phase' = "done"
  /\ UNCHANGED <<setup, given, secretFile, configFile, loaded, cmd, c, attempts,
                 serverVars, cut, faults>>

(* ReadOnlyStore.WriteSecrets cannot *)
CannotWrite ==
  /\ phase = "secrets"
  /\ ~Writable(setup)
  /\ Fails("failed")
  /\ UNCHANGED <<storeVars, faults>>

WriteFails ==
  /\ phase \in Storing
  /\ Fault
  /\ Fails("failed")
  /\ UNCHANGED storeVars

(* FileStore.WriteConfig *)
WriteConfig ==
  /\ phase = "config"
  /\ \/ /\ configFile' = "saved"
        /\ phase' = "done"
        /\ UNCHANGED faults
     \/ /\ Fault
        /\ configFile' \in {configFile, "empty"}
        /\ phase' = "failed"
  /\ UNCHANGED <<setup, given, secretFile, secret, loaded, cmd, c, attempts, serverVars, cut>>

-----------------------------------------------------------------------------
(* The register command is over; run.Run checks again and starts the watcher *)
Done == /\ phase = "done"
        /\ phase' = IF cmd = "register" THEN "ok"
                    ELSE IF MonitorIsRegistered(c) THEN "running" ELSE "failed"
        /\ UNCHANGED <<storeVars, cmd, c, attempts, serverVars, cut, faults>>

Crash == /\ phase \notin Ended \cup {"down"}
         /\ Fault
         /\ Fails("failed")
         /\ UNCHANGED storeVars

(* The pod, or an operator, starts the program again *)
Restart == /\ phase \in Ended
           /\ phase' = "down"
           /\ c' = NoConfig
           /\ UNCHANGED <<storeVars, cmd, attempts, serverVars, cut, faults>>

Step == Start \/ AlreadyRegistered \/ Register \/ FindMachine \/ Post \/ WriteSecretsChmod
        \/ WriteSecretsTruncate \/ WriteSecretsFill \/ CreateSecret \/ UpdateSecret \/ CannotWrite
        \/ WriteConfig \/ Done \/ Restart

Next == Step \/ MachineError \/ PostWithoutToken \/ PostAnswerLost \/ PostRefused \/ WriteFails
        \/ Crash

(* A process that runs goes on, and one that ended is started again *)
Spec == Init /\ [][Next]_vars /\ WF_vars(Step)
-----------------------------------------------------------------------------
Credentials == {s \in Read : MonitorIsRegistered(s)}

Stored == Read = Credentials

TypeOK == /\ phase \in Ended \cup Storing \cup {"down", "check", "machine", "post", "config", "done"}
          /\ cmd \in {"register", "root"}
          /\ c \in [id : Nat \cup {None}, token : Nat \cup {None}, thumb : {1, None}, api : BOOLEAN,
                 read : BOOLEAN]
          /\ attempts \in 0 .. MaxAttempts
          /\ Len(issued) \in 1 .. MaxRegistrations
          /\ unseen \subseteq DOMAIN issued
          /\ cut \in 0 .. MaxRegistrations
          /\ faults \in 0 .. MaxFaults
          /\ configFile \in {"none", "empty", "saved"}

(* Credentials that a process can read are one answer of the server, not a *)
(* mix of two, and the newest it gave for that installation to a process   *)
(* that could read secret.json (register.Run, FileStore.Read and           *)
(* WriteSecrets).                                                          *)
StoredIsIssued ==
  \A s \in Credentials : /\ s.token \in DOMAIN issued
                         /\ issued[s.token] = s.id
                         /\ \A n \in DOMAIN issued : n > s.token => issued[n] # s.id \/ n \in unseen

(* register.Run keeps an id the operator gave, and leaves an id behind on  *)
(* the server only where an answer was never stored, or where a process    *)
(* could not read secret.json and registered beside it.                    *)
OneInstallation ==
  /\ given.id # None => Range(issued) = {given.id}
  /\ Cardinality(Range(issued) \ ({0, c.id} \cup {s.id : s \in Read}))
       <= cut + Cardinality(unseen)

(* A token that FileStore.WriteSecrets wrote is in a file only its owner can read *)
SecretsPrivate == secretFile.tag.token # None => secretFile.mode = "private"

(* The process runs on flags and environment alone, its secret.json unread *)
RunsUnread == c.api /\ ~c.read

(* Once credentials are stored, no crash and no start of either command    *)
(* registers again or loses them (MonitorIsRegistered in register.Run),    *)
(* unless that very process failed to read secret.json (FileStore.Read).   *)
RegistersOnce == [][Stored => (Stored' /\ issued' = issued) \/ RunsUnread]_vars

(* A store that can be written ends up with credentials, however the first *)
(* attempts end.                                                           *)
EventuallyStored == setup \in {"file", "kubernetes"} => <>[]Stored
==============================================================================

------------------------------ MODULE KeyStore ------------------------------
(***************************************************************************)
(* Where the CA keys are, and under which passphrase                       *)
(* (services/keybackend/, services/passphrase_service.py, `flask keys`): a *)
(* key is a ciphertext in its CA's row or an object in the PKCS#11 token.  *)
(* Keys are moved into the token, and every ciphertext is wrapped again    *)
(* under a new master passphrase, while workers go on making keys.         *)
(*                                                                         *)
(* A passphrase is told by its generation. The other encrypted columns     *)
(* (ENCRYPTED_COLUMNS) are wrapped, written and rewrapped in the same way; *)
(* one column stands for all. A command reads its rows first and commits   *)
(* at its end.                                                             *)
(***************************************************************************)
EXTENDS Naturals, FiniteSets

CONSTANTS
    KeyCas,         \* the CAs
    KeyWorkers,     \* the serving processes
    Shells,         \* command lines: flask keys
    Labels,         \* labels of token objects (random in the code, never used twice)
    NoLabel, NoKeyCa,
    MaxGenerations  \* bound on the passphrases

ASSUME KeyStoreAssumption ==
    /\ NoLabel \notin Labels /\ NoKeyCa \notin KeyCas
    /\ MaxGenerations \in Nat \ {0}

VARIABLES
    keyRow,     \* key_backend, private_key_enc (a generation; 0 is none) and key_label of each CA
    objects,    \* what the token holds under each label
    dbGen,      \* the generation of the last rotation that was committed
    secretFile, \* the generation in the secret file, which a process reads when it starts
    config,     \* MASTER_PASSPHRASE of each worker
    shell,      \* what each command line is doing
    strayed     \* history: a worker wrote a ciphertext during a rotation or before its own restart

keyVars == <<keyRow, objects, dbGen, secretFile, config, shell, strayed>>

NoKeyRow == [backend |-> "none", blob |-> 0, label |-> NoLabel]
Empty == [ca |-> NoKeyCa, good |-> FALSE]
NoCommand == [at |-> "idle", ca |-> NoKeyCa, label |-> NoLabel, rows |-> {}]

FreeLabel(l) == objects[l] = Empty /\ \A s \in Shells : shell[s].label # l

---------------------------------------------------------------------------
(* The backends *)

\* SoftwareBackend.generate_ca_key and import_ca_key, and the caller's commit
CreateSoftwareKey(w, c) ==
    /\ keyRow[c] = NoKeyRow
    /\ keyRow' = [keyRow EXCEPT ![c] = [backend |-> "software", blob |-> config[w], label |-> NoLabel]]
    /\ strayed' = (strayed \/ config[w] # dbGen \/ \E s \in Shells : shell[s].at = "rewrap")
    /\ UNCHANGED <<objects, dbGen, secretFile, config, shell>>

\* Pkcs11Backend.generate_ca_key and import_ca_key: the object is in the token before the row is
\* committed, and stays when the row is not.
CreateTokenKey(w, c, l, committed) ==
    /\ keyRow[c] = NoKeyRow /\ FreeLabel(l)
    /\ objects' = [objects EXCEPT ![l] = [ca |-> c, good |-> TRUE]]
    /\ keyRow' = IF committed
                 THEN [keyRow EXCEPT ![c] = [backend |-> "softhsm", blob |-> 0, label |-> l]]
                 ELSE keyRow
    /\ UNCHANGED <<dbGen, secretFile, config, shell, strayed>>

---------------------------------------------------------------------------
(* flask keys migrate-to-hsm *)

\* The row is read and the key decrypted with the passphrase of the shell.
BeginMigrate(s, c) ==
    /\ shell[s] = NoCommand
    /\ keyRow[c].backend = "software" /\ keyRow[c].blob = secretFile
    /\ shell' = [shell EXCEPT ![s] = [NoCommand EXCEPT !.at = "import", !.ca = c]]
    /\ UNCHANGED <<keyRow, objects, dbGen, secretFile, config, strayed>>

\* import_ca_key, which may leave an object that cannot sign
ImportKey(s, l, good) ==
    /\ shell[s].at = "import" /\ FreeLabel(l)
    /\ objects' = [objects EXCEPT ![l] = [ca |-> shell[s].ca, good |-> good]]
    /\ shell' = [shell EXCEPT ![s].at = "verify", ![s].label = l]
    /\ UNCHANGED <<keyRow, dbGen, secretFile, config, strayed>>

CommitUnverified(s) ==                             \* the software copy goes without the proof
    /\ shell[s].at = "verify"
    /\ keyRow' = [keyRow EXCEPT ![shell[s].ca] =
                    [backend |-> "softhsm", blob |-> 0, label |-> shell[s].label]]
    /\ shell' = [shell EXCEPT ![s] = NoCommand]
    /\ UNCHANGED <<objects, dbGen, secretFile, config, strayed>>

\* verify_signing_key has proved that the token signs for this CA; the software copy goes.
CommitMigrate(s) ==
    /\ shell[s].at = "verify"
    /\ objects[shell[s].label] = [ca |-> shell[s].ca, good |-> TRUE]
    /\ keyRow' = [keyRow EXCEPT ![shell[s].ca] =
                    [backend |-> "softhsm", blob |-> 0, label |-> shell[s].label]]
    /\ shell' = [shell EXCEPT ![s] = NoCommand]
    /\ UNCHANGED <<objects, dbGen, secretFile, config, strayed>>

\* The proof fails: rollback, destroy_key, and the CA is as it was.
FailMigrate(s) ==
    /\ shell[s].at = "verify"
    /\ ~ objects[shell[s].label].good
    /\ objects' = [objects EXCEPT ![shell[s].label] = Empty]
    /\ shell' = [shell EXCEPT ![s] = NoCommand]
    /\ UNCHANGED <<keyRow, dbGen, secretFile, config, strayed>>

---------------------------------------------------------------------------
(* flask keys rotate-passphrase *)

\* The rows that have a ciphertext (_rows_with_ciphertext)
Wrapped == {c \in KeyCas : keyRow[c].blob # 0}

\* rotate: the gate and the loop; one ciphertext that the current passphrase does not open, and
\* nothing is written. One rotation at a time is the operator's procedure.
BeginRotate(s) ==
    /\ shell[s] = NoCommand
    /\ secretFile < MaxGenerations
    /\ \A c \in Wrapped : keyRow[c].blob = secretFile
    /\ \A t \in Shells : shell[t].at # "rewrap"
    /\ shell' = [shell EXCEPT ![s] = [NoCommand EXCEPT !.at = "rewrap", !.rows = Wrapped]]
    /\ UNCHANGED <<keyRow, objects, dbGen, secretFile, config, strayed>>

RewrapSome(rows) ==                                \* a column is missing from the registry
    keyRow' = [c \in KeyCas |-> IF c \in rows /\ c = CHOOSE d \in rows : TRUE
                                THEN [keyRow[c] EXCEPT !.blob = secretFile + 1] ELSE keyRow[c]]

\* Every row that was read gets its new ciphertext.
Rewrap(rows) ==
    keyRow' = [c \in KeyCas |-> IF c \in rows
                                THEN [keyRow[c] EXCEPT !.blob = secretFile + 1] ELSE keyRow[c]]

CommitRotate(s) ==
    /\ shell[s].at = "rewrap"
    /\ Rewrap(shell[s].rows)
    /\ dbGen' = secretFile + 1
    /\ shell' = [shell EXCEPT ![s] = NoCommand]
    /\ UNCHANGED <<objects, secretFile, config, strayed>>

---------------------------------------------------------------------------
(* Around the commands *)

\* The operator puts the new passphrase into the secret file, right after the command.
SwapSecret ==
    /\ secretFile # dbGen
    /\ \A s \in Shells : shell[s].at # "rewrap"
    /\ secretFile' = dbGen
    /\ UNCHANGED <<keyRow, objects, dbGen, config, shell, strayed>>

RestartKeyWorker(w) ==
    /\ config[w] # secretFile
    /\ config' = [config EXCEPT ![w] = secretFile]
    /\ UNCHANGED <<keyRow, objects, dbGen, secretFile, shell, strayed>>

\* A command is interrupted, fails, or was a dry run: the database keeps nothing of it, the token
\* keeps its object.
EndCommand(s) ==
    /\ shell[s] # NoCommand
    /\ shell' = [shell EXCEPT ![s] = NoCommand]
    /\ UNCHANGED <<keyRow, objects, dbGen, secretFile, config, strayed>>

---------------------------------------------------------------------------

KeyInit ==
    /\ keyRow = [c \in KeyCas |-> NoKeyRow]
    /\ objects = [l \in Labels |-> Empty]
    /\ dbGen = 1 /\ secretFile = 1
    /\ config = [w \in KeyWorkers |-> 1]
    /\ shell = [s \in Shells |-> NoCommand]
    /\ strayed = FALSE

KeyNext ==
    \/ \E w \in KeyWorkers :
          \/ RestartKeyWorker(w)
          \/ \E c \in KeyCas :
                \/ CreateSoftwareKey(w, c)
                \/ \E l \in Labels, committed \in BOOLEAN : CreateTokenKey(w, c, l, committed)
    \/ \E s \in Shells :
          \/ \E c \in KeyCas : BeginMigrate(s, c)
          \/ \E l \in Labels, good \in BOOLEAN : ImportKey(s, l, good)
          \/ CommitMigrate(s)
          \/ FailMigrate(s)
          \/ BeginRotate(s)
          \/ CommitRotate(s)
          \/ EndCommand(s)
    \/ SwapSecret

KeySpec == KeyInit /\ [][KeyNext]_keyVars

---------------------------------------------------------------------------

Generations == 1..MaxGenerations

\* The rows, the token and the commands are what they should be.
KeyTypeOK ==
    /\ keyRow \in [KeyCas -> [backend : {"none", "software", "softhsm"}, blob : {0} \union Generations,
                              label : Labels \union {NoLabel}]]
    /\ objects \in [Labels -> [ca : KeyCas \union {NoKeyCa}, good : BOOLEAN]]
    /\ dbGen \in Generations /\ secretFile \in Generations
    /\ config \in [KeyWorkers -> Generations]
    /\ shell \in [Shells -> [at : {"idle", "import", "verify", "rewrap"}, ca : KeyCas \union {NoKeyCa},
                             label : Labels \union {NoLabel}, rows : SUBSET KeyCas]]
    /\ strayed \in BOOLEAN

\* No CA is ever left without its key: a software CA has its ciphertext and a CA in the token has
\* an object there that signs for it, whatever commands run at once, fail or are interrupted
\* (migrate_to_hsm, verify_signing_key, destroy_key, rotate).
NoKeyLost ==
    \A c \in KeyCas :
        /\ keyRow[c].backend = "software" => keyRow[c].blob # 0
        /\ keyRow[c].backend = "softhsm" => objects[keyRow[c].label] = [ca |-> c, good |-> TRUE]

\* The database is never half rotated: one passphrase, the one of the last rotation, opens every
\* ciphertext - unless a worker has written one while rotate was at work or while it still had the
\* former passphrase (rotate, rotate_passphrase).
OnePassphrase ==
    ~ strayed => \A c \in Wrapped : keyRow[c].blob = dbGen
=============================================================================

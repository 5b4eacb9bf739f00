--------------------------- MODULE AgentIdentity ---------------------------
(***************************************************************************)
(* Which key the agent signs with, and what GET /agent-identity tells of   *)
(* it: attestation/signer.py, api/identity.py, config.py, and the scripts  *)
(* generate_keys and upload_agent_identity, which an operator runs.        *)
(*                                                                         *)
(* Secret and identity file change under the running process, which reads  *)
(* one and then the other when it boots, and never again.  Nothing in the  *)
(* code orders what the operator does: a key may be put into the secret    *)
(* before or after its statement is uploaded, a statement may supersede    *)
(* the one before or stand alone, and a process may be restarted at any    *)
(* time.                                                                   *)
(*                                                                         *)
(* A statement is represented by the keys a verifier can establish along   *)
(* the chain of statements that begins with it, and no statement by the    *)
(* empty set; a key stands for its address too.                            *)
(***************************************************************************)
CONSTANT Key

VARIABLES
  secret,    \* AGENT_SIGNING_KEY
  file,      \* infra/arweave-identity.json, as a process finds it
  signer,    \* app.state.signer
  anchor,    \* app.state.arweave_identity_tx_id
  serving,   \* the lifespan has come to its yield
  orphaned   \* history: keys started with before they had a statement, or cut
             \* off by a statement that stands alone, and not read back since

idVars == <<secret, file, signer, anchor, serving, orphaned>>

IdTypeOK ==
  /\ secret \in Key /\ signer \in Key
  /\ file \subseteq Key /\ anchor \subseteq Key /\ orphaned \subseteq Key
  /\ serving \in BOOLEAN

(* "a fresh deploy may not have run the upload-agent-identity script yet"  *)
IdInit ==
  /\ secret \in Key /\ file \in {{}, {secret}}
  /\ signer = secret /\ anchor = file /\ serving = TRUE
  /\ orphaned = {secret} \ file

-----------------------------------------------------------------------------
(* Mutant of UploadAgentIdentity: the option never gets into the body. *)
UploadUnlinked(k, zeros, supersedes) ==
  /\ file' = IF zeros THEN {} ELSE {k}
  /\ orphaned' = IF supersedes THEN orphaned ELSE orphaned \union (file \ file')
  /\ UNCHANGED <<secret, signer, anchor, serving>>

(* upload_agent_identity: the file is written after the upload, and not at *)
(* all if that fails.  By default the statement stands alone; --supersedes *)
(* links it to the one of the file.  The signature passes through          *)
(* lstrip("0x"), which takes leading zeros with it and leaves a statement  *)
(* that establishes nothing for its own key.                               *)
UploadAgentIdentity(k, zeros, supersedes) ==
  /\ file' = (IF zeros THEN {} ELSE {k}) \union (IF supersedes THEN file ELSE {})
  /\ orphaned' = orphaned \union (file \ file')
  /\ UNCHANGED <<secret, signer, anchor, serving>>

(* The operator puts a generated key into the secret store. *)
ReplaceSecret(k) ==
  /\ k # secret
  /\ secret' = k
  /\ UNCHANGED <<file, signer, anchor, serving, orphaned>>

(* lifespan: Settings.from_env and the signer; nothing is served yet. *)
BootSigner ==
  /\ signer' = secret
  /\ serving' = FALSE
  /\ orphaned' = orphaned \union ({secret} \ file)
  /\ UNCHANGED <<secret, file, anchor>>

(* load_identity_tx_id, then the yield.  A file that is missing or cannot  *)
(* be read, or has no transaction id, gives None.                          *)
LoadIdentity(readable) ==
  /\ ~serving
  /\ anchor' = IF readable THEN file ELSE {}
  /\ serving' = TRUE
  /\ orphaned' = orphaned \ anchor'
  /\ UNCHANGED <<secret, file, signer>>

Operate ==
  \/ \E k \in Key, zeros, supersedes \in BOOLEAN : UploadAgentIdentity(k, zeros, supersedes)
  \/ \E k \in Key : ReplaceSecret(k)
=============================================================================
